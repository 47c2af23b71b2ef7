---------------------------- MODULE ScopesProofs ----------------------------
(***************************************************************************)
(* Scopes, for all names, values and depths: types, that the environment   *)
(* follows the table, and, as long as no `eval' with assignments declares  *)
(* a local, that the shell's variables are the dynamic scopes it promises. *)
(***************************************************************************)
EXTENDS Scopes, Positions

-----------------------------------------------------------------------------
(***************************************************************************)
(* Types                                                                   *)
(***************************************************************************)

\* No variable is None: a variable of a name is one.
LEMMA HeldType ==
  ASSUME TypeOK, NEW k \in Name
  PROVE  /\ tab[k] # None => /\ tab[k] \in Var /\ tab[k].v \in Value
                             /\ tab[k].v.s \in Text /\ tab[k].ex \in BOOLEAN
                             /\ tab[k].ro \in BOOLEAN
         /\ Exported(k) => tab[k] \in Var
         /\ Fixed(k) \in BOOLEAN /\ Exported(k) \in BOOLEAN /\ IsArray(k) \in BOOLEAN
  BY DEF TypeOK, Exported, Fixed, IsArray, Var, Value

\* A variable is not None.
LEMMA NotNone ==
  ASSUME NEW b \in Var
  PROVE  b # None
  BY ScopesAssumption DEF Var, Value

\* A string is a value.
LEMMA StringType ==
  ASSUME NEW x \in Text
  PROVE  Scalar(x) \in Value /\ Scalar(x).s = x /\ Scalar(x).map = None
  BY DEF Value, Scalar

LEMMA SetType ==
  ASSUME TypeOK, NEW k \in Name, NEW b \in Var, Set(k, b)
  PROVE  /\ tab' \in [Name -> Var \cup {None}] /\ env' \in [Name -> Text \cup {None}]
         /\ tab' = [tab EXCEPT ![k] = b]
<1>1. b.v.s \in Text
  BY DEF Var, Value
<1>2. QED
  BY <1>1 DEF TypeOK, Set

\* hibr_set gives a variable: the string, and no elements.
LEMMA SetValueIs ==
  ASSUME TypeOK, NEW k \in Name, NEW x \in Text, NEW ex \in BOOLEAN, SetValue(k, x, ex)
  PROVE  \E b \in Var : /\ Set(k, b)
                        /\ b.ex = (Exported(k) \/ ex) /\ b.ro = Fixed(k)
                        /\ b.v.s = x
                        /\ ~IsArray(k) => b.v = Scalar(x)
<1>0. /\ tab[k] # None => /\ tab[k].ex \in BOOLEAN /\ tab[k].ro \in BOOLEAN
      /\ Scalar(x) \in Value /\ Scalar(x).s = x
      /\ [s |-> x, map |-> Bare] \in Value
  BY HeldType, StringType, ScopesAssumption DEF Value
<1>1. CASE tab[k] = None
  <2> DEFINE b == [v |-> Scalar(x), ex |-> ex, ro |-> FALSE]
  <2>1. b \in Var /\ Set(k, b) /\ b.v.s = x
    BY <1>0, <1>1 DEF SetValue, Var
  <2>2. b.ex = (Exported(k) \/ ex) /\ b.ro = Fixed(k) /\ b.v = Scalar(x)
    BY <1>1 DEF Exported, Fixed
  <2>3. QED
    BY <2>1, <2>2
<1>2. CASE tab[k] # None
  <2> DEFINE w == [s |-> x, map |-> IF IsArray(k) THEN Bare ELSE None]
             b == [v |-> w, ex |-> tab[k].ex \/ ex, ro |-> tab[k].ro]
  <2>1. w \in Value /\ w.s = x /\ (~IsArray(k) => w = Scalar(x))
    BY <1>0 DEF Value, Scalar
  <2>2. Set(k, b)
    BY <1>2 DEF SetValue
  <2> HIDE DEF w
  <2>3. b \in Var
    BY <1>0, <1>2, <2>1 DEF Var
  <2>4. b.ex = (Exported(k) \/ ex) /\ b.ro = Fixed(k) /\ b.v = w
    BY <1>0, <1>2 DEF Exported, Fixed
  <2>5. QED
    BY <2>1, <2>2, <2>3, <2>4
<1>3. QED
  BY <1>1, <1>2

LEMMA SetValueType ==
  ASSUME TypeOK, NEW k \in Name, NEW x \in Text, NEW ex \in BOOLEAN, SetValue(k, x, ex)
  PROVE  tab' \in [Name -> Var \cup {None}] /\ env' \in [Name -> Text \cup {None}]
  BY SetValueIs, SetType

LEMMA DelType ==
  ASSUME TypeOK, NEW k \in Name, Del(k)
  PROVE  tab' \in [Name -> Var \cup {None}] /\ env' \in [Name -> Text \cup {None}]
  BY DEF TypeOK, Del

LEMMA BackType ==
  ASSUME TypeOK, NEW k \in Name, NEW b \in Var, Back(k, b)
  PROVE  tab' \in [Name -> Var \cup {None}] /\ env' \in [Name -> Text \cup {None}]
<1>1. b.v.s \in Text
  BY DEF Var, Value
<1>2. CASE b.ex
  BY <1>1, <1>2 DEF TypeOK, Back
<1>3. CASE ~b.ex /\ Exported(k)
  BY <1>3 DEF TypeOK, Back
<1>4. CASE ~b.ex /\ ~Exported(k)
  BY <1>4 DEF TypeOK, Back
<1>5. QED
  BY <1>2, <1>3, <1>4

-----------------------------------------------------------------------------
(***************************************************************************)
(* What a script does to one variable                                      *)
(***************************************************************************)

\* The name gets b, a variable or None.  The environment of no other changes;
\* a readonly name keeps its value but for the two exceptions; one that is
\* kept a copy of becomes no array; a string that is exported is told to the
\* environment, or is the one that was there; and what is not exported is
\* taken out of it, or was not exported before.
Changed(k, b) ==
  /\ tab' = [tab EXCEPT ![k] = b]
  /\ env' \in [Name -> Text \cup {None}]
  /\ \A n \in Name \ {k} : env'[n] = env[n]
  /\ Fixed(k) /\ Exceptions = {} => b # None /\ b.ro /\ b.v = tab[k].v
  /\ "copied_array" \notin Exceptions /\ Copied(k) /\ ~IsArray(k) =>
       b = None \/ b.v.map = None
  /\ "fixed_bind" \notin Exceptions /\ b # None /\ b.ex /\ b.v.map = None =>
       \/ env'[k] = b.v.s
       \/ Exported(k) /\ ~IsArray(k) /\ b.v.s = tab[k].v.s /\ env'[k] = env[k]
  /\ b = None \/ ~b.ex => \/ env'[k] = None
                          \/ ~Exported(k) /\ env'[k] = env[k]

\* By setenv, if it is exported.
LEMMA ChangedSet ==
  ASSUME TypeOK, NEW k \in Name, NEW b \in Var, Set(k, b),
         Exported(k) => b.ex,
         Fixed(k) => b.ro /\ b.v = tab[k].v,
         MayBeArray(k) \/ b.v.map = None
  PROVE  Changed(k, b)
<1>1. /\ tab' = [tab EXCEPT ![k] = b] /\ env' \in [Name -> Text \cup {None}]
      /\ b # None /\ b.ex \in BOOLEAN
  BY SetType, NotNone DEF Var
<1>2. /\ \A n \in Name \ {k} : env'[n] = env[n]
      /\ b.ex => env'[k] = b.v.s
      /\ ~b.ex => env'[k] = env[k]
  BY DEF Set, TypeOK
<1>3. "copied_array" \notin Exceptions /\ Copied(k) /\ ~IsArray(k) =>
        b = None \/ b.v.map = None
  BY DEF MayBeArray
<1>4. QED
  BY <1>1, <1>2, <1>3 DEF Changed

\* Without telling the environment: the flag stays, and what is a string then
\* was the same string before.
LEMMA ChangedQuietly ==
  ASSUME TypeOK, NEW k \in Name, NEW b \in Var,
         tab' = [tab EXCEPT ![k] = b], env' = env,
         b.ex = Exported(k),
         Fixed(k) /\ Exceptions = {} => b.ro /\ b.v = tab[k].v,
         MayBeArray(k) \/ b.v.map = None,
         \/ b.v.map # None \/ "fixed_bind" \in Exceptions
         \/ Exported(k) => ~IsArray(k) /\ b.v.s = tab[k].v.s
  PROVE  Changed(k, b)
<1>1. b # None /\ env' \in [Name -> Text \cup {None}]
  BY NotNone DEF TypeOK
<1>2. "copied_array" \notin Exceptions /\ Copied(k) /\ ~IsArray(k) =>
        b = None \/ b.v.map = None
  BY DEF MayBeArray
<1>3. QED
  BY <1>1, <1>2 DEF Changed

\* By an assignment to an element.
LEMMA ChangedPut ==
  ASSUME TypeOK, NEW k \in Name, NEW S \in SUBSET Text, Put(k, S), ~Fixed(k)
  PROVE  \E b \in Var : Changed(k, b)
<1>1. PICK x \in S, a \in Array \ {Bare} :
        tab' = [tab EXCEPT ![k] = [v |-> [s |-> x, map |-> a],
                                   ex |-> Exported(k), ro |-> FALSE]]
  BY DEF Put
<1> DEFINE w == [s |-> x, map |-> a]
           b == [v |-> w, ex |-> Exported(k), ro |-> FALSE]
<1>2. w \in Value /\ w.map # None
  BY ScopesAssumption DEF Value
<1>3. tab' = [tab EXCEPT ![k] = b] /\ env' = env /\ MayBeArray(k)
  BY <1>1 DEF Put
<1> HIDE DEF w
<1>4. b \in Var /\ b.ex = Exported(k) /\ b.v = w
  BY <1>2, HeldType DEF Var
<1> HIDE DEF b
<1>5. Changed(k, b)
  BY <1>2, <1>3, <1>4, ChangedQuietly
<1>6. QED
  BY <1>4, <1>5

LEMMA ScriptKeeps ==
  ASSUME NEW k \in Name, Script(k)
  PROVE  UNCHANGED <<calls, saved, phase>> /\ phase = "run"
  BY DEF Script, Assign, AssignElement, Replace, AssignArray, Bind, UnsetElement, Unset,
         Export, Unexport, Readonly, Running

\* Whatever a script does to a variable is of that form.
LEMMA ScriptIs ==
  ASSUME TypeOK, NEW k \in Name, Script(k)
  PROVE  \E b \in Var \cup {None} : Changed(k, b)
<1>0. /\ tab[k] # None => /\ tab[k] \in Var /\ tab[k].v \in Value
                          /\ tab[k].v.s \in Text /\ tab[k].ex \in BOOLEAN
                          /\ tab[k].ro \in BOOLEAN
      /\ Exported(k) \in BOOLEAN /\ Fixed(k) \in BOOLEAN /\ IsArray(k) \in BOOLEAN
      /\ Exported(k) = (tab[k] # None /\ tab[k].ex)
      /\ Fixed(k) = (tab[k] # None /\ tab[k].ro)
      /\ IsArray(k) = (tab[k] # None /\ tab[k].v.map # None)
  BY HeldType DEF Exported, Fixed, IsArray
<1>1. ASSUME NEW x \in Text, SetValue(k, x, FALSE), ~Fixed(k), TRUE
      PROVE  \E b \in Var \cup {None} : Changed(k, b)
  <2>1. PICK b \in Var : /\ Set(k, b) /\ b.ex = (Exported(k) \/ FALSE)
                         /\ ~IsArray(k) => b.v = Scalar(x)
    BY <1>1, SetValueIs
  <2>2. MayBeArray(k) \/ b.v.map = None
    BY <2>1, StringType DEF MayBeArray
  <2>3. Changed(k, b)
    BY <1>1, <2>1, <2>2, ChangedSet
  <2>4. QED
    BY <2>3
<1>2. ASSUME NEW x \in Text, Assign(k, x)
      PROVE  \E b \in Var \cup {None} : Changed(k, b)
  <2>1. CASE IsArray(k)
    <3>1. Put(k, {x}) /\ ~Fixed(k) /\ {x} \in SUBSET Text
      BY <1>2, <2>1 DEF Assign
    <3>2. QED
      BY <3>1, ChangedPut
  <2>2. CASE ~IsArray(k)
    BY <1>1, <1>2, <2>2 DEF Assign
  <2>3. QED
    BY <2>1, <2>2
<1>3. ASSUME NEW x \in Text, AssignElement(k, x)
      PROVE  \E b \in Var \cup {None} : Changed(k, b)
  <2> DEFINE S == {x, IF tab[k] = None THEN Empty ELSE tab[k].v.s}
  <2>1. S \in SUBSET Text
    BY <1>0, ScopesAssumption
  <2>2. Put(k, S) /\ ~Fixed(k)
    BY <1>3 DEF AssignElement
  <2> HIDE DEF S
  <2>3. QED
    BY <2>1, <2>2, ChangedPut
<1>4. ASSUME NEW x \in Text, Replace(k, x)
      PROVE  \E b \in Var \cup {None} : Changed(k, b)
  BY <1>1, <1>4 DEF Replace
<1>5. ASSUME NEW x \in Text, NEW a \in Array, AssignArray(k, x, a)
      PROVE  \E b \in Var \cup {None} : Changed(k, b)
  <2> DEFINE w == [s |-> x, map |-> a]
             b == [v |-> w, ex |-> Exported(k), ro |-> FALSE]
  <2>1. w \in Value /\ w.map # None
    BY ScopesAssumption DEF Value
  <2>2. /\ tab' = [tab EXCEPT ![k] = b] /\ ~Fixed(k) /\ MayBeArray(k)
        /\ env' = IF Exported(k) THEN [env EXCEPT ![k] = Empty] ELSE env
    BY <1>5 DEF AssignArray
  <2> HIDE DEF w
  <2>3. b \in Var /\ b.ex = Exported(k) /\ b.v = w /\ b # None
    BY <1>0, <2>1, NotNone DEF Var
  <2> HIDE DEF b
  <2>4. /\ env' \in [Name -> Text \cup {None}]
        /\ \A n \in Name \ {k} : env'[n] = env[n]
        /\ ~Exported(k) => env'[k] = env[k]
    BY <2>2, ScopesAssumption DEF TypeOK
  <2>5. "copied_array" \notin Exceptions /\ Copied(k) => IsArray(k)
    BY <2>2 DEF MayBeArray
  <2>6. Changed(k, b)
    BY <2>1, <2>2, <2>3, <2>4, <2>5 DEF Changed
  <2>7. QED
    BY <2>3, <2>6
<1>6. ASSUME NEW v \in Value, Bind(k, v)
      PROVE  \E b \in Var \cup {None} : Changed(k, b)
  <2>0. MayBeArray(k) \/ v.map = None
    BY <1>6 DEF Bind
  <2>1. CASE Fixed(k)
    <3> DEFINE w == [s |-> tab[k].v.s, map |-> v.map]
               b == [v |-> w, ex |-> tab[k].ex, ro |-> TRUE]
    <3>1. w \in Value /\ w.map = v.map
      BY <1>0, <2>1 DEF Value
    <3>2. tab' = [tab EXCEPT ![k] = b] /\ env' = env /\ "fixed_bind" \in Exceptions
      BY <1>6, <2>1 DEF Bind
    <3> HIDE DEF w
    <3>3. b \in Var /\ b.v = w /\ b.ex = Exported(k)
      BY <1>0, <2>1, <3>1 DEF Var
    <3> HIDE DEF b
    <3>4. Changed(k, b)
      BY <2>0, <3>1, <3>2, <3>3, ChangedQuietly
    <3>5. QED
      BY <3>3, <3>4
  <2>2. CASE ~Fixed(k)
    <3> DEFINE b == [v |-> v, ex |-> Exported(k), ro |-> FALSE]
    <3>1. Set(k, b)
      BY <1>6, <2>2 DEF Bind
    <3>2. b \in Var /\ b.ex = Exported(k) /\ b.v = v
      BY <1>0 DEF Var
    <3> HIDE DEF b
    <3>3. Changed(k, b)
      BY <2>0, <2>2, <3>1, <3>2, ChangedSet
    <3>4. QED
      BY <3>2, <3>3
  <2>3. QED
    BY <2>1, <2>2
<1>7. CASE UnsetElement(k)
  <2>1. PICK x \in {tab[k].v.s, Empty}, a \in Array :
          tab' = [tab EXCEPT ![k] = [v |-> [s |-> x, map |-> a],
                                     ex |-> tab[k].ex, ro |-> tab[k].ro]]
    BY <1>7 DEF UnsetElement
  <2> DEFINE w == [s |-> x, map |-> a]
             b == [v |-> w, ex |-> tab[k].ex, ro |-> tab[k].ro]
  <2>2. /\ IsArray(k) /\ env' = env /\ tab' = [tab EXCEPT ![k] = b]
        /\ Fixed(k) => "fixed_element" \in Exceptions
    BY <1>7, <2>1 DEF UnsetElement
  <2>3. w \in Value /\ w.map # None
    BY <1>0, <2>2, ScopesAssumption DEF Value
  <2> HIDE DEF w
  <2>4. b \in Var /\ b.ex = Exported(k) /\ b.v = w
    BY <1>0, <2>2, <2>3 DEF Var
  <2>5. MayBeArray(k)
    BY <2>2 DEF MayBeArray
  <2>6. Fixed(k) => Exceptions # {}
    BY <2>2
  <2> HIDE DEF b
  <2>7. Changed(k, b)
    BY <2>2, <2>3, <2>4, <2>5, <2>6, ChangedQuietly
  <2>8. QED
    BY <2>4, <2>7
<1>8. CASE Unset(k)
  <2>1. /\ tab' = [tab EXCEPT ![k] = None] /\ ~Fixed(k)
        /\ env' = IF Exported(k) THEN [env EXCEPT ![k] = None] ELSE env
    BY <1>8 DEF Unset, Del
  <2>2. /\ env' \in [Name -> Text \cup {None}]
        /\ \A n \in Name \ {k} : env'[n] = env[n]
        /\ Exported(k) => env'[k] = None
        /\ ~Exported(k) => env'[k] = env[k]
    BY <2>1 DEF TypeOK
  <2>3. Changed(k, None)
    BY <2>1, <2>2 DEF Changed
  <2>4. QED
    BY <2>3
<1>9. CASE Export(k)
  <2> DEFINE b == IF tab[k] = None THEN [v |-> Scalar(Empty), ex |-> TRUE, ro |-> FALSE]
                  ELSE [tab[k] EXCEPT !.ex = TRUE]
  <2>1. b \in Var /\ b.ex /\ b.ro = Fixed(k)
    BY <1>0, ScopesAssumption, StringType DEF Var
  <2>2. /\ Fixed(k) => b.v = tab[k].v
        /\ MayBeArray(k) \/ b.v.map = None
    BY <1>0, ScopesAssumption, StringType DEF Var, MayBeArray
  <2>3. Set(k, b)
    BY <1>9 DEF Export
  <2> HIDE DEF b
  <2>4. Changed(k, b)
    BY <2>1, <2>2, <2>3, ChangedSet
  <2>5. QED
    BY <2>1, <2>4
<1>10. CASE Unexport(k)
  <2> DEFINE b == IF tab[k] = None THEN None ELSE [tab[k] EXCEPT !.ex = FALSE]
  <2>1. tab' = [tab EXCEPT ![k] = b] /\ env' = [env EXCEPT ![k] = None]
    BY <1>10 DEF Unexport, TypeOK
  <2>2. CASE tab[k] = None
    <3>1. b = None /\ ~Fixed(k)
      BY <1>0, <2>2
    <3>2. Changed(k, None)
      BY <2>1, <3>1 DEF Changed, TypeOK
    <3>3. QED
      BY <3>2
  <2>3. CASE tab[k] # None
    <3>1. b \in Var /\ ~b.ex /\ b.ro = tab[k].ro /\ b.v = tab[k].v
      BY <1>0, <2>3 DEF Var
    <3>2. b # None
      BY <3>1, NotNone
    <3> HIDE DEF b
    <3>3. /\ env' \in [Name -> Text \cup {None}] /\ env'[k] = None
          /\ \A n \in Name \ {k} : env'[n] = env[n]
      BY <2>1 DEF TypeOK
    <3>4. Changed(k, b)
      BY <1>0, <2>1, <2>3, <3>1, <3>2, <3>3 DEF Changed
    <3>5. QED
      BY <3>1, <3>4
  <2>4. QED
    BY <2>2, <2>3
<1>11. CASE Readonly(k)
  <2> DEFINE b == IF tab[k] = None THEN [v |-> Scalar(Empty), ex |-> FALSE, ro |-> TRUE]
                  ELSE [tab[k] EXCEPT !.ro = TRUE]
  <2>1. b \in Var /\ b.ex = Exported(k) /\ b.ro
    BY <1>0, ScopesAssumption, StringType DEF Var
  <2>2. /\ tab[k] # None => b.v = tab[k].v
        /\ tab[k] = None => b.v = Scalar(Empty)
    BY <1>0 DEF Var
  <2>3. tab' = [tab EXCEPT ![k] = b] /\ env' = env
    BY <1>11 DEF Readonly
  <2> HIDE DEF b
  <2>4. /\ Fixed(k) => b.v = tab[k].v
        /\ MayBeArray(k) \/ b.v.map = None
        /\ \/ b.v.map # None
           \/ Exported(k) => ~IsArray(k) /\ b.v.s = tab[k].v.s
    BY <1>0, <2>2, ScopesAssumption, StringType DEF MayBeArray
  <2>5. Changed(k, b)
    BY <2>1, <2>3, <2>4, ChangedQuietly
  <2>6. QED
    BY <2>1, <2>5
<1>12. QED
  BY <1>2, <1>3, <1>4, <1>5, <1>6, <1>7, <1>8, <1>9, <1>10, <1>11 DEF Script

\* What a script does to a variable leaves a table and an environment.
LEMMA ScriptType ==
  ASSUME TypeOK, NEW k \in Name, Script(k)
  PROVE  tab' \in [Name -> Var \cup {None}] /\ env' \in [Name -> Text \cup {None}]
  BY ScriptIs DEF Changed, TypeOK

\* A binding set aside is the variable of its name, or None.
LEMMA SaveType ==
  ASSUME TypeOK, NEW k \in Name, NEW lift \in BOOLEAN, NEW d \in Nat, Save(k, lift, d)
  PROVE  /\ saved' \in Seq(Saved)
         /\ Len(saved') = Len(saved) + 1
         /\ \A i \in DOMAIN saved : i \in DOMAIN saved' /\ saved'[i] = saved[i]
         /\ saved'[Len(saved) + 1] = [k |-> k, old |-> tab[k], lift |-> lift, by |-> d]
         /\ DOMAIN saved' = DOMAIN saved \cup {Len(saved) + 1}
<1> DEFINE r == [k |-> k, old |-> tab[k], lift |-> lift, by |-> d]
<1>1. r \in Saved
  BY DEF TypeOK, Saved
<1>2. saved \in Seq(Saved) /\ saved' = Append(saved, r)
  BY DEF TypeOK, Save
<1> HIDE DEF r
<1>3. /\ saved' \in Seq(Saved) /\ Len(saved') = Len(saved) + 1
      /\ \A i \in 1 .. Len(saved) : saved'[i] = saved[i]
      /\ saved'[Len(saved) + 1] = r
  BY <1>1, <1>2
<1>4. DOMAIN saved = 1 .. Len(saved) /\ DOMAIN saved' = 1 .. Len(saved) + 1 /\ Len(saved) \in Nat
  BY <1>2, <1>3
<1>5. QED
  BY <1>3, <1>4 DEF r

\* asg_pop takes the newest of its own records.
LEMMA NewestType ==
  ASSUME TypeOK, Own # {}
  PROVE  Newest \in Own /\ Newest \in DOMAIN saved /\ \A j \in Own : j <= Newest
<1>1. DOMAIN saved = 1 .. Len(saved) /\ Len(saved) \in Nat
  BY DEF TypeOK
<1>2. Own \in SUBSET (1 .. Len(saved))
  BY <1>1 DEF Own
<1>3. \E i \in Own : \A j \in Own : j <= i
  BY <1>1, <1>2, LastExists
<1>4. Newest \in Own /\ \A j \in Own : j <= Newest
  BY <1>3 DEF Newest
<1>5. QED
  BY <1>4 DEF Own

\* What is left when one record has been put back.
LEMMA PutBackRest ==
  ASSUME TypeOK, PutBack
  PROVE  /\ saved' \in Seq(Saved)
         /\ Len(saved') = Len(saved) - 1
         /\ \A i \in DOMAIN saved : i # Newest =>
              \E j \in DOMAIN saved' : saved'[j] = saved[i]
<1> DEFINE n == Newest
<1>1. saved \in Seq(Saved) /\ n \in DOMAIN saved
  BY NewestType DEF PutBack, TypeOK
<1> HIDE DEF n
<1>2. saved' = [j \in 1 .. Len(saved) - 1 |-> IF j < n THEN saved[j] ELSE saved[j + 1]]
  BY DEF PutBack, n
<1>3. Len(saved) \in Nat /\ DOMAIN saved = 1 .. Len(saved) /\ n \in 1 .. Len(saved)
  BY <1>1
<1>4. \A j \in 1 .. Len(saved) - 1 : saved'[j] \in Saved
  BY <1>1, <1>2, <1>3
<1>5. saved' \in Seq(Saved) /\ Len(saved') = Len(saved) - 1 /\ DOMAIN saved' = 1 .. Len(saved) - 1
  BY <1>2, <1>3, <1>4
<1>6. ASSUME NEW i \in DOMAIN saved, i # n
      PROVE  \E j \in DOMAIN saved' : saved'[j] = saved[i]
  <2>1. CASE i < n
    <3>1. i \in DOMAIN saved' /\ saved'[i] = saved[i]
      BY <1>2, <1>3, <1>5, <1>6, <2>1
    <3>2. QED
      BY <3>1
  <2>2. CASE n < i
    <3>1. i - 1 \in DOMAIN saved' /\ saved'[i - 1] = saved[i]
      BY <1>2, <1>3, <1>5, <1>6, <2>2
    <3>2. QED
      BY <3>1
  <2>3. QED
    BY <1>3, <1>6, <2>1, <2>2
<1>7. QED
  BY <1>5, <1>6 DEF n

\* `declare' gives a variable, told to the environment but for an element.
LEMMA DeclareIs ==
  ASSUME TypeOK, NEW k \in Name, NEW x \in Text \cup {None}, NEW a \in Array \cup {None},
         NEW ex \in BOOLEAN, NEW ro \in BOOLEAN, Declare(k, x, a, ex, ro)
  PROVE  \E b \in Var : /\ \/ Set(k, b)
                           \/ /\ tab' = [tab EXCEPT ![k] = b] /\ env' = env
                              /\ b.v.map # None
<1> DEFINE w == [s |-> IF x = None THEN Empty ELSE x, map |-> a]
           b == [v |-> w, ex |-> ex \/ (x # None /\ Exported(k)), ro |-> ro]
<1>1. w \in Value /\ w.map = a
  BY ScopesAssumption DEF Value
<1>3. \/ Set(k, b)
      \/ tab' = [tab EXCEPT ![k] = b] /\ env' = env /\ a # None
  BY DEF Declare
<1> HIDE DEF w
<1>4. b \in Var /\ b.v = w
  BY <1>1, HeldType DEF Var
<1> HIDE DEF b
<1>5. QED
  BY <1>1, <1>3, <1>4

\* A binding for a while is of the type of a variable, and so is the record.
LEMMA ShadowType ==
  ASSUME TypeOK, NEW k \in Name, Shadow(k)
  PROVE  /\ tab' \in [Name -> Var \cup {None}]
         /\ env' \in [Name -> Text \cup {None}]
         /\ saved' \in Seq(Saved)
<1>0. /\ tab[k] # None => tab[k] \in Var
      /\ Exported(k) \in BOOLEAN
      /\ Depth \in Nat
  BY HeldType DEF TypeOK, Depth
<1>1. ASSUME NEW v \in Value, Param(k, v)
      PROVE  /\ tab' \in [Name -> Var \cup {None}]
             /\ env' \in [Name -> Text \cup {None}]
             /\ saved' \in Seq(Saved)
  <2>1. [v |-> v, ex |-> FALSE, ro |-> FALSE] \in Var
    BY DEF Var
  <2>2. saved' \in Seq(Saved)
    BY <1>0, <1>1, SaveType DEF Param
  <2>3. QED
    BY <1>1, <2>1, <2>2 DEF Param, TypeOK
<1>2. ASSUME NEW x \in Text, Prefix(k, x)
      PROVE  /\ tab' \in [Name -> Var \cup {None}]
             /\ env' \in [Name -> Text \cup {None}]
             /\ saved' \in Seq(Saved)
  <2>1. [v |-> Scalar(x), ex |-> TRUE, ro |-> FALSE] \in Var
    BY StringType DEF Var
  <2>2. IsArray(k) \in BOOLEAN /\ Save(k, IsArray(k), Depth)
    BY <1>2, HeldType DEF Prefix
  <2>3. saved' \in Seq(Saved)
    BY <1>0, <2>2, SaveType
  <2>4. CASE IsArray(k)
    <3>1. Set(k, [v |-> Scalar(x), ex |-> TRUE, ro |-> FALSE])
      BY <1>2, <2>4 DEF Prefix
    <3>2. QED
      BY <2>1, <2>3, <3>1, SetType
  <2>5. CASE ~IsArray(k)
    <3>1. SetValue(k, x, TRUE)
      BY <1>2, <2>5 DEF Prefix
    <3>2. QED
      BY <2>3, <3>1, SetValueType
  <2>6. QED
    BY <2>4, <2>5
<1>3. ASSUME InFunction PROVE Function \in Nat /\ Function \in DOMAIN calls
  <2>1. DOMAIN calls = 1 .. Len(calls) /\ Len(calls) \in Nat
    BY DEF TypeOK
  <2>2. Functions \in SUBSET (1 .. Len(calls)) /\ Functions # {}
    BY <1>3, <2>1 DEF Functions, InFunction
  <2>3. \E d \in Functions : \A e \in Functions : e <= d
    BY <2>1, <2>2, LastExists
  <2>4. Function \in Functions
    BY <2>3 DEF Function
  <2>5. QED
    BY <2>1, <2>2, <2>4
<1>4. CASE Local(k)
  <2>1. saved' \in Seq(Saved)
    BY <1>3, <1>4, SaveType DEF Local
  <2>2. QED
    BY <1>4, <2>1 DEF Local, TypeOK
<1>5. ASSUME NEW x \in Text \cup {None}, NEW a \in Array \cup {None},
             NEW ex \in BOOLEAN, NEW ro \in BOOLEAN, Declare(k, x, a, ex, ro)
      PROVE  /\ tab' \in [Name -> Var \cup {None}]
             /\ env' \in [Name -> Text \cup {None}]
             /\ saved' \in Seq(Saved)
  <2>1. PICK b \in Var : \/ Set(k, b)
                         \/ tab' = [tab EXCEPT ![k] = b] /\ env' = env
    BY <1>5, DeclareIs
  <2>2. saved' \in Seq(Saved)
    BY <1>3, <1>5, SaveType DEF Declare
  <2>3. QED
    BY <2>1, <2>2, SetType DEF TypeOK
<1>6. QED
  BY <1>1, <1>2, <1>4, <1>5 DEF Shadow

\* So is what is put back.
LEMMA PutBackType ==
  ASSUME TypeOK, PutBack
  PROVE  /\ tab' \in [Name -> Var \cup {None}]
         /\ env' \in [Name -> Text \cup {None}]
<1> DEFINE r == saved[Newest]
<1>1. r \in Saved
  BY NewestType DEF TypeOK, PutBack
<1>2. r.k \in Name /\ r.old \in Var \cup {None} /\ r.lift \in BOOLEAN
  BY <1>1 DEF Saved
<1>3. CASE r.old = None
  <2>1. Del(r.k)
    BY <1>3 DEF PutBack
  <2>2. QED
    BY <1>2, <2>1, DelType
<1>4. CASE r.old # None /\ r.lift
  <2>1. Back(r.k, r.old)
    BY <1>4 DEF PutBack
  <2>2. QED
    BY <1>2, <1>4, <2>1, BackType
<1>5. CASE r.old # None /\ ~r.lift /\ Fixed(r.k)
  BY <1>5 DEF PutBack, TypeOK
<1>6. CASE r.old # None /\ ~r.lift /\ ~Fixed(r.k)
  <2>1. SetValue(r.k, r.old.v.s, r.old.ex)
    BY <1>6 DEF PutBack
  <2>2. r.old.v.s \in Text /\ r.old.ex \in BOOLEAN
    BY <1>2, <1>6 DEF Var, Value
  <2>3. QED
    BY <1>2, <2>1, <2>2, SetValueType
<1>7. QED
  BY <1>2, <1>3, <1>4, <1>5, <1>6

\* Every variable of the model keeps its type, so that every record names a
\* variable and every index into the two stacks is in range.
THEOREM TypeCorrect == Spec => []TypeOK
<1>1. Init => TypeOK
  <2> SUFFICES ASSUME Init PROVE TypeOK
    OBVIOUS
  <2>1. PICK given \in [Name -> Text \cup {None}] :
          /\ env = given
          /\ tab = [k \in Name |-> IF given[k] = None THEN None
                                   ELSE [v |-> Scalar(given[k]), ex |-> TRUE, ro |-> FALSE]]
    BY DEF Init
  <2>2. tab \in [Name -> Var \cup {None}]
    BY <2>1, StringType DEF Var
  <2>3. calls \in Seq(BOOLEAN) /\ saved \in Seq(Saved) /\ phase \in Phases
    BY DEF Init, Phases
  <2>4. QED
    BY <2>1, <2>2, <2>3 DEF TypeOK
<1>2. TypeOK /\ [Next]_vars => TypeOK'
  <2> SUFFICES ASSUME TypeOK, [Next]_vars PROVE TypeOK'
    OBVIOUS
  <2>1. ASSUME NEW k \in Name, Script(k) PROVE TypeOK'
    <3>1. UNCHANGED <<calls, saved, phase>>
      BY <2>1, ScriptKeeps
    <3>2. QED
      BY <2>1, <3>1, ScriptType DEF TypeOK
  <2>2. ASSUME NEW k \in Name, Shadow(k) PROVE TypeOK'
    <3>1. UNCHANGED <<calls, phase>>
      BY <2>2 DEF Shadow, Param, Prefix, Local, Declare
    <3>2. QED
      BY <2>2, <3>1, ShadowType DEF TypeOK
  <2>3. ASSUME NEW fn \in BOOLEAN, Begin(fn) PROVE TypeOK'
    BY <2>3 DEF TypeOK, Begin, Phases
  <2>4. CASE Start
    BY <2>4 DEF TypeOK, Start, Phases
  <2>5. CASE Leave
    BY <2>5 DEF TypeOK, Leave, Phases
  <2>6. CASE PutBack
    <3>1. UNCHANGED <<calls, phase>>
      BY <2>6 DEF PutBack
    <3>2. QED
      BY <2>6, <3>1, PutBackType, PutBackRest DEF TypeOK
  <2>7. CASE End
    BY <2>7 DEF TypeOK, End, Phases, Depth
  <2>8. CASE UNCHANGED vars
    BY <2>8 DEF TypeOK, vars
  <2>9. QED
    BY <2>1, <2>2, <2>3, <2>4, <2>5, <2>6, <2>7, <2>8 DEF Next
<1>3. QED
  BY <1>1, <1>2, PTL DEF Spec

-----------------------------------------------------------------------------
(***************************************************************************)
(* The environment                                                         *)
(***************************************************************************)

\* A function hides an exported variable of this name.
Hidden(n) ==
  \E i \in DOMAIN saved : /\ saved[i].k = n /\ saved[i].old # None
                          /\ saved[i].lift /\ saved[i].old.ex

\* EnvMatches, of one name.
Matches(n) ==
  /\ Exported(n) => IsArray(n) \/ env[n] = tab[n].v.s
  /\ ~Exported(n) => env[n] = None \/ Hidden(n)

LEMMA EnvMatchesIs == EnvMatches <=> \A n \in Name : Matches(n)
  BY DEF EnvMatches, Matches, Hidden, Exported, IsArray

\* A step that changes one name keeps EnvMatches if it does so of that name
\* and forgets no other that is hidden.
LEMMA OneName ==
  ASSUME EnvMatches, NEW k \in Name,
         \A n \in Name \ {k} : tab'[n] = tab[n] /\ env'[n] = env[n],
         \A n \in Name \ {k} : Hidden(n) => Hidden(n)',
         Matches(k)'
  PROVE  EnvMatches'
<1>1. ASSUME NEW n \in Name \ {k} PROVE Matches(n)'
  <2>1. Matches(n)
    BY EnvMatchesIs
  <2>2. tab'[n] = tab[n] /\ env'[n] = env[n] /\ (Hidden(n) => Hidden(n)')
    OBVIOUS
  <2>3. /\ Exported(n)' = Exported(n) /\ IsArray(n)' = IsArray(n)
        /\ (env[n] = tab[n].v.s)' = (env[n] = tab[n].v.s)
    BY <2>2 DEF Exported, IsArray
  <2>4. QED
    BY <2>1, <2>2, <2>3 DEF Matches
<1>2. \A n \in Name : Matches(n)'
  BY <1>1
<1>3. QED
  BY <1>2 DEF EnvMatches, Matches, Hidden, Exported, IsArray

\* A variable given to a name is in the environment if it is exported.  If it
\* is not, no exported one may have been there, unless it is now hidden.
LEMMA SetMatches ==
  ASSUME TypeOK, EnvMatches, NEW k \in Name, NEW b \in Var, Set(k, b),
         \A n \in Name : Hidden(n) => Hidden(n)',
         ~b.ex => ~Exported(k) \/ Hidden(k)'
  PROVE  EnvMatches'
<1>1. \A n \in Name \ {k} : tab'[n] = tab[n] /\ env'[n] = env[n]
  BY DEF Set, TypeOK
<1>2. tab'[k] = b /\ tab'[k] # None
  BY ScopesAssumption DEF Set, TypeOK, Var, Value
<1>3. Matches(k)
  BY EnvMatchesIs
<1>4. CASE b.ex
  <2>1. env'[k] = b.v.s
    BY <1>4 DEF Set, TypeOK
  <2>2. Matches(k)'
    BY <1>2, <1>4, <2>1 DEF Matches, Exported, IsArray
  <2>3. QED
    BY <1>1, <2>2, OneName
<1>5. CASE ~b.ex
  <2>1. env' = env
    BY <1>5 DEF Set
  <2>2. ~Exported(k)'
    BY <1>2, <1>5 DEF Exported
  <2>3. env[k] = None \/ Hidden(k)'
    BY <1>3, <1>5 DEF Matches
  <2>4. Matches(k)'
    BY <2>1, <2>2, <2>3 DEF Matches
  <2>5. QED
    BY <1>1, <2>4, OneName
<1>6. QED
  BY <1>4, <1>5

\* While no record is made or used, what is hidden stays so.
LEMMA SameHidden ==
  ASSUME UNCHANGED saved
  PROVE  \A n \in Name : Hidden(n) => Hidden(n)'
  BY DEF Hidden

LEMMA SetValueMatches ==
  ASSUME TypeOK, EnvMatches, NEW k \in Name, NEW x \in Text, NEW ex \in BOOLEAN,
         SetValue(k, x, ex), \A n \in Name : Hidden(n) => Hidden(n)'
  PROVE  EnvMatches'
<1>1. PICK b \in Var : Set(k, b) /\ b.ex = (Exported(k) \/ ex)
  BY SetValueIs
<1>2. ~b.ex => ~Exported(k)
  BY <1>1
<1>3. QED
  BY <1>1, <1>2, SetMatches

\* v_del: the variable goes, from the environment too if it was there.
LEMMA DelMatches ==
  ASSUME TypeOK, EnvMatches, NEW k \in Name, Del(k),
         \A n \in Name \ {k} : Hidden(n) => Hidden(n)',
         ~Exported(k) => (Hidden(k) => Hidden(k)')
  PROVE  EnvMatches'
<1>1. \A n \in Name \ {k} : tab'[n] = tab[n] /\ env'[n] = env[n]
  BY DEF Del, TypeOK
<1>2. ~Exported(k)'
  BY DEF Del, TypeOK, Exported
<1>3. env'[k] = None \/ (env'[k] = env[k] /\ ~Exported(k))
  BY DEF Del, TypeOK
<1>4. Matches(k)
  BY EnvMatchesIs
<1>5. Matches(k)'
  BY <1>2, <1>3, <1>4 DEF Matches
<1>6. QED
  BY <1>1, <1>5, OneName

LEMMA ScriptMatches ==
  ASSUME "fixed_bind" \notin Exceptions,
         TypeOK, EnvMatches, NEW k \in Name, Script(k)
  PROVE  EnvMatches'
<1>1. PICK b \in Var \cup {None} : Changed(k, b)
  BY ScriptIs
<1>2. /\ \A n \in Name : Hidden(n) => Hidden(n)'
      /\ Matches(k)
  BY ScriptKeeps, SameHidden, EnvMatchesIs
<1>3. tab'[k] = b /\ \A n \in Name \ {k} : tab'[n] = tab[n] /\ env'[n] = env[n]
  BY <1>1 DEF Changed, TypeOK
<1>4. CASE b = None \/ ~b.ex
  <2>1. ~Exported(k)'
    BY <1>3, <1>4 DEF Exported
  <2>2. env'[k] = None \/ (~Exported(k) /\ env'[k] = env[k])
    BY <1>1, <1>4 DEF Changed
  <2>3. Matches(k)'
    BY <1>2, <2>1, <2>2 DEF Matches
  <2>4. QED
    BY <1>2, <1>3, <2>3, OneName
<1>5. CASE b # None /\ b.ex
  <2>1. Exported(k)' /\ (IsArray(k)' <=> b.v.map # None)
    BY <1>3, <1>5 DEF Exported, IsArray
  <2>2. b.v.map = None =>
          \/ env'[k] = b.v.s
          \/ Exported(k) /\ ~IsArray(k) /\ b.v.s = tab[k].v.s /\ env'[k] = env[k]
    BY <1>1, <1>5 DEF Changed
  <2>3. b.v.map = None => env'[k] = b.v.s
    BY <1>2, <2>2 DEF Matches
  <2>4. Matches(k)'
    BY <1>3, <2>1, <2>3 DEF Matches
  <2>5. QED
    BY <1>2, <1>3, <2>4, OneName
<1>6. QED
  BY <1>4, <1>5

\* A record keeps what is hidden, and hides an exported variable it lifts.
LEMMA SaveHides ==
  ASSUME TypeOK, NEW k \in Name, NEW lift \in BOOLEAN, NEW d \in Nat, Save(k, lift, d)
  PROVE  /\ \A n \in Name : Hidden(n) => Hidden(n)'
         /\ lift /\ Exported(k) => Hidden(k)'
<1>1. /\ \A i \in DOMAIN saved : i \in DOMAIN saved' /\ saved'[i] = saved[i]
      /\ Len(saved) + 1 \in DOMAIN saved'
      /\ saved'[Len(saved) + 1] = [k |-> k, old |-> tab[k], lift |-> lift, by |-> d]
  BY SaveType
<1>2. \A n \in Name : Hidden(n) => Hidden(n)'
  BY <1>1 DEF Hidden
<1>3. ASSUME lift, Exported(k) PROVE Hidden(k)'
  <2> DEFINE i == Len(saved) + 1
  <2>1. i \in DOMAIN saved' /\ saved'[i].k = k /\ saved'[i].old = tab[k] /\ saved'[i].lift
    BY <1>1, <1>3
  <2>2. tab[k] # None /\ tab[k].ex
    BY <1>3 DEF Exported
  <2> HIDE DEF i
  <2>3. QED
    BY <2>1, <2>2 DEF Hidden
<1>4. QED
  BY <1>2, <1>3

LEMMA ShadowMatches ==
  ASSUME TypeOK, EnvMatches, NEW k \in Name, Shadow(k)
  PROVE  EnvMatches'
<1>0. /\ Matches(k) /\ Depth \in Nat
      /\ Exported(k) => tab[k] # None
      /\ InFunction => Function \in Nat
  <2>1. InFunction => Function \in Nat
    <3> SUFFICES ASSUME InFunction PROVE Function \in Nat
      OBVIOUS
    <3>1. DOMAIN calls = 1 .. Len(calls) /\ Len(calls) \in Nat
      BY DEF TypeOK
    <3>2. Functions \in SUBSET (1 .. Len(calls)) /\ Functions # {}
      BY <3>1 DEF Functions, InFunction
    <3>3. \E d \in Functions : \A e \in Functions : e <= d
      BY <3>1, <3>2, LastExists
    <3>4. Function \in Functions
      BY <3>3 DEF Function
    <3>5. QED
      BY <3>1, <3>2, <3>4
  <2>2. QED
    BY <2>1, EnvMatchesIs DEF Exported, Depth, TypeOK
<1>1. ASSUME NEW b, NEW d \in Nat, Save(k, tab[k] # None, d),
             tab' = [tab EXCEPT ![k] = b], env' = env, b = None \/ ~b.ex
      PROVE  EnvMatches'
  <2>1. /\ \A n \in Name : Hidden(n) => Hidden(n)'
        /\ Exported(k) => Hidden(k)'
    BY <1>0, <1>1, SaveHides
  <2>2. ~Exported(k)'
    BY <1>1 DEF Exported, TypeOK
  <2>3. Matches(k)'
    BY <1>0, <1>1, <2>1, <2>2 DEF Matches
  <2>4. \A n \in Name \ {k} : tab'[n] = tab[n] /\ env'[n] = env[n]
    BY <1>1 DEF TypeOK
  <2>5. QED
    BY <2>1, <2>3, <2>4, OneName
<1>2. ASSUME NEW v \in Value, Param(k, v) PROVE EnvMatches'
  <2> DEFINE b == [v |-> v, ex |-> FALSE, ro |-> FALSE]
  <2>1. Save(k, tab[k] # None, Depth) /\ tab' = [tab EXCEPT ![k] = b] /\ env' = env
    BY <1>2 DEF Param
  <2>2. ~b.ex
    OBVIOUS
  <2> HIDE DEF b
  <2>3. QED
    BY <1>0, <1>1, <2>1, <2>2
<1>3. ASSUME NEW x \in Text, Prefix(k, x) PROVE EnvMatches'
  <2>1. IsArray(k) \in BOOLEAN /\ Save(k, IsArray(k), Depth)
    BY <1>3, HeldType DEF Prefix
  <2>2. \A n \in Name : Hidden(n) => Hidden(n)'
    BY <1>0, <2>1, SaveHides
  <2>3. CASE IsArray(k)
    <3> DEFINE b == [v |-> Scalar(x), ex |-> TRUE, ro |-> FALSE]
    <3>1. Set(k, b)
      BY <1>3, <2>3 DEF Prefix
    <3>2. b \in Var /\ b.ex
      BY StringType DEF Var
    <3>3. QED
      BY <2>2, <3>1, <3>2, SetMatches
  <2>4. CASE ~IsArray(k)
    <3>1. SetValue(k, x, TRUE)
      BY <1>3, <2>4 DEF Prefix
    <3>2. QED
      BY <2>2, <3>1, SetValueMatches
  <2>5. QED
    BY <2>3, <2>4
<1>4. CASE Local(k)
  BY <1>0, <1>1, <1>4 DEF Local
<1>5. ASSUME NEW x \in Text \cup {None}, NEW a \in Array \cup {None},
             NEW ex \in BOOLEAN, NEW ro \in BOOLEAN, Declare(k, x, a, ex, ro)
      PROVE  EnvMatches'
  <2>1. PICK b \in Var : \/ Set(k, b)
                         \/ tab' = [tab EXCEPT ![k] = b] /\ env' = env /\ b.v.map # None
    BY <1>5, DeclareIs
  <2>2. Save(k, tab[k] # None, Function) /\ InFunction
    BY <1>5 DEF Declare
  <2>3. /\ \A n \in Name : Hidden(n) => Hidden(n)'
        /\ Exported(k) => Hidden(k)'
    BY <1>0, <2>2, SaveHides
  <2>4. CASE Set(k, b)
    BY <2>3, <2>4, SetMatches
  <2>5. CASE tab' = [tab EXCEPT ![k] = b] /\ env' = env /\ b.v.map # None
    <3>1. /\ tab'[k] = b /\ b # None
          /\ \A n \in Name \ {k} : tab'[n] = tab[n] /\ env'[n] = env[n]
      BY <2>5, NotNone DEF TypeOK
    <3>2. IsArray(k)'
      BY <2>5, <3>1 DEF IsArray
    <3>3. Matches(k)'
      BY <1>0, <2>3, <2>5, <3>2 DEF Matches
    <3>4. QED
      BY <2>3, <3>1, <3>3, OneName
  <2>6. QED
    BY <2>1, <2>4, <2>5
<1>6. QED
  BY <1>2, <1>3, <1>4, <1>5 DEF Shadow

\* What is given back hides nothing any more; a variable that replaces another
\* of its name, which hid no environment but its own, is matched.
LEMMA BackMatches ==
  ASSUME TypeOK, EnvMatches, NEW k \in Name, NEW b \in Var, Back(k, b),
         \A n \in Name \ {k} : Hidden(n) => Hidden(n)',
         ~b.ex => (Hidden(k) => Hidden(k)')
  PROVE  EnvMatches'
<1>1. Matches(k)
  BY EnvMatchesIs
<1>2. /\ \A n \in Name \ {k} : tab'[n] = tab[n] /\ env'[n] = env[n]
      /\ tab'[k] = b /\ b # None
  BY ScopesAssumption DEF TypeOK, Back, Var, Value
<1>3. Matches(k)'
  <2>1. CASE b.ex
    <3>1. env'[k] = b.v.s
      BY <2>1 DEF TypeOK, Back
    <3>2. Exported(k)' /\ tab'[k].v.s = b.v.s
      BY <1>2, <2>1 DEF Exported
    <3>3. QED
      BY <3>1, <3>2 DEF Matches
  <2>2. CASE ~b.ex /\ Exported(k)
    <3>1. env'[k] = None
      BY <2>2 DEF TypeOK, Back
    <3>2. ~Exported(k)'
      BY <1>2, <2>2 DEF Exported
    <3>3. QED
      BY <3>1, <3>2 DEF Matches
  <2>3. CASE ~b.ex /\ ~Exported(k)
    <3>1. env' = env
      BY <2>3 DEF Back
    <3>2. ~Exported(k)'
      BY <1>2, <2>3 DEF Exported
    <3>3. QED
      BY <1>1, <2>3, <3>1, <3>2 DEF Matches
  <2>4. QED
    BY <2>1, <2>2, <2>3
<1>4. QED
  BY <1>2, <1>3, OneName

\* What goes when a record has been used is hidden by no other need.
LEMMA PutBackMatches ==
  ASSUME TypeOK, EnvMatches, PutBack
  PROVE  EnvMatches'
<1>1. PICK r \in Saved : r = saved[Newest]
  BY NewestType DEF TypeOK, PutBack
<1>2. PICK k \in Name : k = r.k
  BY <1>1 DEF Saved
<1>3. r.old \in Var \cup {None}
  BY <1>1 DEF Saved
<1>4. ASSUME NEW n \in Name, n # k \/ r.old = None \/ ~r.lift \/ ~r.old.ex
      PROVE  Hidden(n) => Hidden(n)'
  <2> SUFFICES ASSUME Hidden(n) PROVE Hidden(n)'
    OBVIOUS
  <2>1. PICK i \in DOMAIN saved : /\ saved[i].k = n /\ saved[i].old # None
                                 /\ saved[i].lift /\ saved[i].old.ex
    BY DEF Hidden
  <2>2. i # Newest
    BY <1>1, <1>2, <1>4, <2>1
  <2>3. PICK j \in DOMAIN saved' : saved'[j] = saved[i]
    BY <2>2, PutBackRest
  <2>4. QED
    BY <2>1, <2>3 DEF Hidden
<1>5. Matches(k)
  BY EnvMatchesIs
<1>6. CASE r.old = None
  <2>1. Del(k)
    BY <1>1, <1>2, <1>6 DEF PutBack
  <2>2. QED
    BY <1>4, <1>6, <2>1, DelMatches
<1>7. CASE r.old # None /\ r.lift
  <2>1. Back(k, r.old) /\ r.old \in Var
    BY <1>1, <1>2, <1>3, <1>7 DEF PutBack
  <2>2. QED
    BY <1>4, <2>1, BackMatches
<1>8. CASE r.old # None /\ ~r.lift
  <2>1. \A n \in Name : Hidden(n) => Hidden(n)'
    BY <1>4, <1>8
  <2>2. CASE Fixed(k)
    <3>1. tab' = tab /\ env' = env
      BY <1>1, <1>2, <1>8, <2>2 DEF PutBack
    <3>2. Matches(k)'
      BY <1>5, <2>1, <3>1 DEF Matches, Exported, IsArray
    <3>3. QED
      BY <2>1, <3>1, <3>2, OneName
  <2>3. CASE ~Fixed(k)
    <3>1. SetValue(k, r.old.v.s, r.old.ex)
      BY <1>1, <1>2, <1>8, <2>3 DEF PutBack
    <3>2. r.old.v.s \in Text /\ r.old.ex \in BOOLEAN
      BY <1>3, <1>8 DEF Var, Value
    <3>3. QED
      BY <2>1, <3>1, <3>2, SetValueMatches
  <2>4. QED
    BY <2>2, <2>3
<1>9. QED
  BY <1>6, <1>7, <1>8

\* At every depth the environment has every string that is exported, and of the
\* names that are not exported none but one a function hides, as long as no
\* readonly name is given a result with :=, whose string is refused while its
\* elements are replaced.
THEOREM EnvMatchesCorrect ==
  ASSUME "fixed_bind" \notin Exceptions
  PROVE  Spec => []EnvMatches
<1>1. Init => EnvMatches
  <2> SUFFICES ASSUME Init PROVE EnvMatches
    OBVIOUS
  <2>1. PICK given \in [Name -> Text \cup {None}] :
          /\ env = given
          /\ tab = [k \in Name |-> IF given[k] = None THEN None
                                   ELSE [v |-> Scalar(given[k]), ex |-> TRUE, ro |-> FALSE]]
    BY DEF Init
  <2>2. ASSUME NEW k \in Name PROVE Matches(k)
    <3>1. CASE given[k] = None
      BY <2>1, <3>1 DEF Matches, Exported
    <3>2. CASE given[k] # None
      <4>1. /\ tab[k] = [v |-> Scalar(given[k]), ex |-> TRUE, ro |-> FALSE]
            /\ given[k] \in Text
        BY <2>1, <3>2
      <4>2. tab[k].v.s = given[k] /\ tab[k].ex
        BY <4>1, StringType
      <4>3. tab[k] \in Var
        BY <4>1, StringType DEF Var
      <4>4. tab[k] # None
        BY <4>3, NotNone
      <4>5. QED
        BY <2>1, <4>2, <4>4 DEF Matches, Exported
    <3>3. QED
      BY <3>1, <3>2
  <2>3. QED
    BY <2>2, EnvMatchesIs
<1>2. TypeOK /\ EnvMatches /\ [Next]_vars => EnvMatches'
  <2> SUFFICES ASSUME TypeOK, EnvMatches, [Next]_vars PROVE EnvMatches'
    OBVIOUS
  <2>1. ASSUME UNCHANGED <<tab, env, saved>> PROVE EnvMatches'
    BY <2>1 DEF EnvMatches, Exported, IsArray
  <2>2. ASSUME NEW fn \in BOOLEAN, Begin(fn) PROVE EnvMatches'
    BY <2>1, <2>2 DEF Begin
  <2>3. CASE Start \/ Leave \/ End \/ UNCHANGED vars
    BY <2>1, <2>3 DEF Start, Leave, End, vars
  <2>4. QED
    BY <2>2, <2>3, ScriptMatches, ShadowMatches, PutBackMatches DEF Next
<1>3. QED
  BY <1>1, <1>2, TypeCorrect, PTL DEF Spec

-----------------------------------------------------------------------------
(***************************************************************************)
(* The shell's variables are the dynamic scopes it promises                *)
(***************************************************************************)

\* As long as no `eval' with assignments declares a local, the records are
\* those of the calls under way, the outer ones' first; and only a command has
\* a copy of what it covers.
Tidy ==
  /\ \A i, j \in DOMAIN saved : i <= j => saved[i].by <= saved[j].by
  /\ \A i \in DOMAIN saved : /\ saved[i].by \in DOMAIN calls
                             /\ saved[i].old # None /\ ~saved[i].lift => ~calls[saved[i].by]
  /\ phase # "run" => calls # <<>>

\* A new record is the innermost call's, and so belongs behind the others.
LEMMA SaveTidy ==
  ASSUME TypeOK, Tidy, NEW k \in Name, NEW lift \in BOOLEAN, Save(k, lift, Depth),
         calls # <<>>, tab[k] # None /\ ~lift => ~calls[Depth],
         calls' = calls, phase' = phase
  PROVE  Tidy'
<1> DEFINE r == [k |-> k, old |-> tab[k], lift |-> lift, by |-> Depth]
<1>1. /\ Len(saved) \in Nat /\ DOMAIN saved = 1 .. Len(saved)
      /\ Depth \in Nat \ {0} /\ DOMAIN calls = 1 .. Depth
  BY DEF TypeOK, Depth
<1>2. /\ DOMAIN saved' = 1 .. Len(saved) + 1
      /\ \A i \in DOMAIN saved : saved'[i] = saved[i]
      /\ saved'[Len(saved) + 1] = r
  BY <1>1 DEF Save, TypeOK
<1>3. r.by = Depth /\ r.old = tab[k] /\ r.lift = lift
  OBVIOUS
<1> HIDE DEF r
<1>4. ASSUME NEW i \in DOMAIN saved' PROVE i \in DOMAIN saved \/ saved'[i] = r
  BY <1>1, <1>2
<1>5. \A i \in DOMAIN saved : saved[i].by <= Depth /\ saved[i].by \in Nat
  BY <1>1 DEF Tidy
<1>6. \A i, j \in DOMAIN saved' : i <= j => saved'[i].by <= saved'[j].by
  <2> SUFFICES ASSUME NEW i \in DOMAIN saved', NEW j \in DOMAIN saved', i <= j
               PROVE  saved'[i].by <= saved'[j].by
    OBVIOUS
  <2>1. CASE i \in DOMAIN saved /\ j \in DOMAIN saved
    BY <1>2, <2>1 DEF Tidy
  <2>2. CASE i \in DOMAIN saved /\ j \notin DOMAIN saved
    BY <1>2, <1>3, <1>4, <1>5, <2>2
  <2>3. CASE i \notin DOMAIN saved
    <3>1. i = Len(saved) + 1 /\ j = Len(saved) + 1
      BY <1>1, <1>2, <2>3
    <3>2. QED
      BY <1>1, <1>2, <1>3, <3>1
  <2>4. QED
    BY <2>1, <2>2, <2>3
<1>7. \A i \in DOMAIN saved' :
        /\ saved'[i].by \in DOMAIN calls
        /\ saved'[i].old # None /\ ~saved'[i].lift => ~calls[saved'[i].by]
  BY <1>1, <1>2, <1>3, <1>4 DEF Tidy
<1>8. QED
  BY <1>6, <1>7 DEF Tidy

\* The innermost call's records are the last.
LEMMA NewestIsLast ==
  ASSUME TypeOK, Tidy, phase = "leave", Own # {}
  PROVE  /\ Newest = Len(saved) /\ Newest \in DOMAIN saved
         /\ saved[Newest].by = Depth
<1>1. /\ Len(saved) \in Nat /\ DOMAIN saved = 1 .. Len(saved)
      /\ Depth \in Nat /\ DOMAIN calls = 1 .. Depth
  BY DEF TypeOK, Depth
<1>2. PICK i \in DOMAIN saved : saved[i].by = Depth
  BY DEF Own
<1>3. Len(saved) \in DOMAIN saved /\ i <= Len(saved)
  BY <1>1
<1>4. saved[Len(saved)].by <= Depth /\ Depth <= saved[Len(saved)].by
      /\ saved[Len(saved)].by \in Nat
  BY <1>1, <1>2, <1>3 DEF Tidy
<1>5. Len(saved) \in Own /\ \A j \in Own : j <= Len(saved)
  BY <1>1, <1>3, <1>4 DEF Own
<1>6. Newest \in Own /\ \A j \in Own : j <= Newest
  BY <1>5 DEF Newest
<1>7. QED
  BY <1>1, <1>5, <1>6 DEF Own

\* So giving the newest back takes the last record.
LEMMA PutBackTidy ==
  ASSUME TypeOK, Tidy, PutBack
  PROVE  /\ DOMAIN saved' = 1 .. Len(saved) - 1
         /\ \A j \in DOMAIN saved' : j \in DOMAIN saved /\ saved'[j] = saved[j]
         /\ Tidy'
<1>1. Len(saved) \in Nat /\ DOMAIN saved = 1 .. Len(saved) /\ Newest = Len(saved)
  BY NewestIsLast DEF TypeOK, PutBack
<1>2. saved' = [j \in 1 .. Len(saved) - 1 |->
                  IF j < Newest THEN saved[j] ELSE saved[j + 1]]
  BY DEF PutBack
<1>3. /\ DOMAIN saved' = 1 .. Len(saved) - 1
      /\ \A j \in DOMAIN saved' : j \in DOMAIN saved /\ saved'[j] = saved[j]
  BY <1>1, <1>2
<1>4. calls' = calls /\ phase' = phase
  BY DEF PutBack
<1>5. Tidy'
  BY <1>3, <1>4 DEF Tidy
<1>6. QED
  BY <1>3, <1>5

LEMMA ShadowTidy ==
  ASSUME TypeOK, Tidy, "eval_local" \notin Exceptions, NEW k \in Name, Shadow(k)
  PROVE  Tidy'
<1>1. /\ calls \in Seq(BOOLEAN) /\ DOMAIN calls = 1 .. Depth /\ Depth \in Nat
      /\ (tab[k] # None) \in BOOLEAN
  BY DEF TypeOK, Depth
<1>2. ASSUME InFunction PROVE Function = Depth /\ calls # <<>>
  <2>1. Function = Depth /\ Functions # {}
    BY <1>2 DEF InFunction
  <2>2. QED
    BY <1>1, <2>1 DEF Functions
<1>3. ASSUME NEW v \in Value, Param(k, v) PROVE Tidy'
  <2>1. calls # <<>>
    BY <1>3 DEF Tidy, Param
  <2>2. QED
    BY <1>1, <1>3, <2>1, SaveTidy DEF Param
<1>4. ASSUME NEW x \in Text, Prefix(k, x) PROVE Tidy'
  <2>1. calls # <<>>
    BY <1>4 DEF Tidy, Prefix
  <2>2. /\ IsArray(k) \in BOOLEAN /\ Save(k, IsArray(k), Depth) /\ ~calls[Depth]
        /\ calls' = calls /\ phase' = phase
    BY <1>4, HeldType DEF Prefix
  <2>3. QED
    BY <2>1, <2>2, SaveTidy
<1>5. CASE Local(k)
  BY <1>1, <1>2, <1>5, SaveTidy DEF Local
<1>6. ASSUME NEW x \in Text \cup {None}, NEW a \in Array \cup {None},
             NEW ex \in BOOLEAN, NEW ro \in BOOLEAN, Declare(k, x, a, ex, ro)
      PROVE  Tidy'
  BY <1>1, <1>2, <1>6, SaveTidy DEF Declare
<1>7. QED
  BY <1>3, <1>4, <1>5, <1>6 DEF Shadow

LEMMA TidyInvariant ==
  ASSUME "eval_local" \notin Exceptions
  PROVE  Spec => []Tidy
<1>1. Init => Tidy
  BY DEF Init, Tidy
<1>2. TypeOK /\ Tidy /\ [Next]_vars => Tidy'
  <2> SUFFICES ASSUME TypeOK, Tidy, [Next]_vars PROVE Tidy'
    OBVIOUS
  <2>1. calls \in Seq(BOOLEAN) /\ DOMAIN calls = 1 .. Depth /\ Depth \in Nat
    BY DEF TypeOK, Depth
  <2>2. ASSUME NEW k \in Name, Script(k) PROVE Tidy'
    <3>1. calls' = calls /\ saved' = saved /\ phase' = phase
      BY <2>2, ScriptKeeps
    <3>2. QED
      BY <3>1 DEF Tidy
  <2>3. ASSUME NEW fn \in BOOLEAN, Begin(fn) PROVE Tidy'
    <3>1. calls' = Append(calls, fn) /\ saved' = saved /\ phase' = "bind"
      BY <2>3 DEF Begin
    <3>2. DOMAIN calls' = 1 .. Depth + 1 /\ \A d \in DOMAIN calls : calls'[d] = calls[d]
      BY <2>1, <3>1 DEF Depth
    <3>3. calls' # <<>> /\ DOMAIN calls \subseteq DOMAIN calls'
      BY <2>1, <3>2
    <3>4. QED
      BY <2>1, <3>1, <3>2, <3>3 DEF Tidy
  <2>4. CASE Start \/ Leave \/ UNCHANGED vars
    BY <2>4 DEF Tidy, Start, Leave, vars
  <2>5. CASE End
    <3>1. calls' = SubSeq(calls, 1, Depth - 1) /\ saved' = saved /\ phase' = "run"
      BY <2>5 DEF End
    <3>2. \A i \in DOMAIN saved : saved[i].by \in 1 .. Depth /\ saved[i].by # Depth
      BY <2>1, <2>5 DEF End, Own, Tidy
    <3>3. Depth # 0
      BY <2>5 DEF End, Tidy, Depth, TypeOK
    <3>4. DOMAIN calls' = 1 .. Depth - 1 /\ \A d \in 1 .. Depth - 1 : calls'[d] = calls[d]
      BY <2>1, <3>1, <3>3 DEF Depth
    <3>5. \A i \in DOMAIN saved : saved[i].by \in 1 .. Depth - 1
      BY <2>1, <3>2
    <3>6. QED
      BY <3>1, <3>4, <3>5 DEF Tidy
  <2>6. QED
    BY <2>2, <2>3, <2>4, <2>5, ShadowTidy, PutBackTidy DEF Next
<1>3. QED
  BY <1>1, <1>2, TypeCorrect, PTL DEF Spec

\* What a command keeps a copy of is a string, and so is what will be seen of
\* the name when the copy is assigned back: what the next record of the name
\* has, or the variable if there is none.
StringsCopied ==
  \A i \in DOMAIN saved : saved[i].old # None /\ ~saved[i].lift =>
    /\ saved[i].old.v.map = None
    /\ \A j \in i + 1 .. Len(saved) :
         saved[j].k = saved[i].k /\ (\A m \in i + 1 .. j - 1 : saved[m].k # saved[i].k) =>
           saved[j].old = None \/ saved[j].old.v.map = None
    /\ (\A j \in i + 1 .. Len(saved) : saved[j].k # saved[i].k) => ~IsArray(saved[i].k)

\* A record is of a name.
LEMMA RecordType ==
  ASSUME TypeOK, NEW i \in DOMAIN saved
  PROVE  /\ saved[i].k \in Name /\ saved[i].old \in Var \cup {None}
         /\ saved[i].lift \in BOOLEAN
<1>1. saved[i] \in Saved
  BY DEF TypeOK
<1>2. QED
  BY <1>1 DEF Saved

\* A step that changes one name, and makes no array of one whose last record
\* is a copy.
LEMMA ChangeKeepsStrings ==
  ASSUME TypeOK, StringsCopied, NEW k \in Name, saved' = saved,
         \A n \in Name \ {k} : tab'[n] = tab[n],
         Copied(k) /\ ~IsArray(k) => ~IsArray(k)'
  PROVE  StringsCopied'
<1>1. ASSUME NEW i \in DOMAIN saved, saved[i].old # None, ~saved[i].lift,
             \A j \in i + 1 .. Len(saved) : saved[j].k # saved[i].k
      PROVE  ~IsArray(saved[i].k)'
  <2>1. saved[i].k \in Name /\ ~IsArray(saved[i].k)
    BY <1>1, RecordType DEF StringsCopied
  <2>2. CASE saved[i].k = k
    <3>1. Copied(k)
      BY <1>1, <2>2 DEF Copied
    <3>2. QED
      BY <2>1, <2>2, <3>1
  <2>3. CASE saved[i].k # k
    BY <2>1, <2>3 DEF IsArray
  <2>4. QED
    BY <2>2, <2>3
<1>2. \A i \in DOMAIN saved : saved[i].old # None /\ ~saved[i].lift =>
        /\ saved[i].old.v.map = None
        /\ \A j \in i + 1 .. Len(saved) :
             saved[j].k = saved[i].k /\ (\A m \in i + 1 .. j - 1 : saved[m].k # saved[i].k) =>
               saved[j].old = None \/ saved[j].old.v.map = None
  BY DEF StringsCopied
<1>3. QED
  BY <1>1, <1>2 DEF StringsCopied

\* A step that sets a name aside: a copy is of a string, and leaves one.
LEMMA SaveKeepsStrings ==
  ASSUME TypeOK, StringsCopied, NEW k \in Name, NEW lift \in BOOLEAN, NEW d \in Nat,
         Save(k, lift, d), \A n \in Name \ {k} : tab'[n] = tab[n],
         ~lift => ~IsArray(k) /\ (tab[k] # None => ~IsArray(k)')
  PROVE  StringsCopied'
<1> DEFINE L == Len(saved)
<1>1. /\ Len(saved') = L + 1 /\ L \in Nat /\ DOMAIN saved = 1 .. L
      /\ DOMAIN saved' = 1 .. L + 1
      /\ \A i \in 1 .. L : saved'[i] = saved[i] /\ saved[i].k \in Name
      /\ saved'[L + 1] = [k |-> k, old |-> tab[k], lift |-> lift, by |-> d]
  <2>1. L \in Nat /\ DOMAIN saved = 1 .. L
    BY DEF TypeOK
  <2>2. \A i \in 1 .. L : saved[i].k \in Name
    BY <2>1, RecordType
  <2>3. /\ Len(saved') = L + 1
        /\ \A i \in DOMAIN saved : i \in DOMAIN saved' /\ saved'[i] = saved[i]
        /\ saved'[L + 1] = [k |-> k, old |-> tab[k], lift |-> lift, by |-> d]
        /\ DOMAIN saved' = DOMAIN saved \cup {L + 1}
    BY SaveType
  <2>4. DOMAIN saved' = 1 .. L + 1
    BY <2>1, <2>3
  <2>5. QED
    BY <2>1, <2>2, <2>3, <2>4
<1>2. ASSUME NEW i \in 1 .. L, saved[i].old # None, ~saved[i].lift
      PROVE  /\ saved[i].old.v.map = None
             /\ \A j \in i + 1 .. L + 1 :
                  saved'[j].k = saved[i].k
                  /\ (\A m \in i + 1 .. j - 1 : saved'[m].k # saved[i].k) =>
                    saved'[j].old = None \/ saved'[j].old.v.map = None
             /\ (\A j \in i + 1 .. L + 1 : saved'[j].k # saved[i].k) => ~IsArray(saved[i].k)'
  <2>1. /\ saved[i].old.v.map = None
        /\ \A j \in i + 1 .. L :
             saved[j].k = saved[i].k /\ (\A m \in i + 1 .. j - 1 : saved[m].k # saved[i].k) =>
               saved[j].old = None \/ saved[j].old.v.map = None
        /\ (\A j \in i + 1 .. L : saved[j].k # saved[i].k) => ~IsArray(saved[i].k)
    BY <1>1, <1>2 DEF StringsCopied
  <2>2. ASSUME NEW j \in i + 1 .. L + 1, saved'[j].k = saved[i].k,
               \A m \in i + 1 .. j - 1 : saved'[m].k # saved[i].k
        PROVE  saved'[j].old = None \/ saved'[j].old.v.map = None
    <3>1. \A m \in i + 1 .. j - 1 : m \in 1 .. L /\ saved[m].k # saved[i].k
      BY <1>1, <2>2
    <3>2. CASE j \in i + 1 .. L
      <4>1. saved'[j] = saved[j] /\ saved[j].k = saved[i].k
        BY <1>1, <2>2, <3>2
      <4>2. QED
        BY <2>1, <3>1, <3>2, <4>1
    <3>3. CASE j = L + 1
      <4>1. saved'[j].old = tab[k] /\ saved[i].k = k
        BY <1>1, <2>2, <3>3
      <4>2. \A m \in i + 1 .. L : saved[m].k # saved[i].k
        BY <1>1, <3>1, <3>3
      <4>3. ~IsArray(k)
        BY <2>1, <4>1, <4>2
      <4>4. QED
        BY <4>1, <4>3 DEF IsArray
    <3>4. QED
      BY <1>1, <3>2, <3>3
  <2>3. ASSUME \A j \in i + 1 .. L + 1 : saved'[j].k # saved[i].k
        PROVE  ~IsArray(saved[i].k)'
    <3>1. \A j \in i + 1 .. L : j \in i + 1 .. L + 1 /\ saved'[j] = saved[j]
      BY <1>1
    <3>2. ~IsArray(saved[i].k)
      BY <2>1, <2>3, <3>1
    <3>3. L + 1 \in i + 1 .. L + 1
      BY <1>1
    <3>4. saved[i].k \in Name \ {k}
      BY <1>1, <2>3, <3>3
    <3>5. saved'[i] = saved[i]
      BY <1>1
    <3>6. QED
      BY <3>2, <3>4, <3>5 DEF IsArray
  <2>4. QED
    BY <2>1, <2>2, <2>3
<1>3. ASSUME tab[k] # None, ~lift
      PROVE  tab[k].v.map = None /\ ~IsArray(k)'
  BY <1>3 DEF IsArray
<1>4. ASSUME NEW i \in DOMAIN saved', saved'[i].old # None, ~saved'[i].lift
      PROVE  /\ saved'[i].old.v.map = None
             /\ \A j \in i + 1 .. Len(saved') :
                  saved'[j].k = saved'[i].k
                  /\ (\A m \in i + 1 .. j - 1 : saved'[m].k # saved'[i].k) =>
                    saved'[j].old = None \/ saved'[j].old.v.map = None
             /\ (\A j \in i + 1 .. Len(saved') : saved'[j].k # saved'[i].k) =>
                  ~IsArray(saved[i].k)'
  <2>1. CASE i \in 1 .. L
    <3>1. saved'[i] = saved[i]
      BY <1>1, <2>1
    <3>2. QED
      BY <1>1, <1>2, <1>4, <2>1, <3>1 DEF IsArray
  <2>2. CASE i = L + 1
    <3>1. saved'[i].old = tab[k] /\ saved'[i].k = k /\ saved'[i].lift = lift
      BY <1>1, <2>2
    <3>2. tab[k].v.map = None /\ ~IsArray(k)'
      BY <1>3, <1>4, <3>1
    <3>3. i + 1 .. Len(saved') = {}
      BY <1>1, <2>2
    <3>4. QED
      BY <3>1, <3>2, <3>3 DEF IsArray
  <2>3. QED
    BY <1>1, <2>1, <2>2
<1>5. QED
  BY <1>4 DEF StringsCopied

LEMMA ShadowKeepsStrings ==
  ASSUME TypeOK, Tidy, StringsCopied, NEW k \in Name, Shadow(k)
  PROVE  StringsCopied'
<1>0. /\ Depth \in Nat /\ (tab[k] # None) \in BOOLEAN
      /\ InFunction => Function \in Nat
      /\ IsArray(k) => tab[k] # None
  <2>1. DOMAIN calls = 1 .. Len(calls) /\ Len(calls) \in Nat
    BY DEF TypeOK
  <2>2. ASSUME InFunction PROVE Function \in Nat
    <3>1. Functions \in SUBSET (1 .. Len(calls)) /\ Functions # {}
      BY <2>1, <2>2 DEF Functions, InFunction
    <3>2. \E d \in Functions : \A e \in Functions : e <= d
      BY <2>1, <3>1, LastExists
    <3>3. Function \in Functions
      BY <3>2 DEF Function
    <3>4. QED
      BY <2>1, <3>1, <3>3
  <2>3. QED
    BY <2>1, <2>2 DEF Depth, IsArray
<1>1. ASSUME NEW b \in Var \cup {None}, NEW d \in Nat,
             Save(k, tab[k] # None, d), tab' = [tab EXCEPT ![k] = b]
      PROVE  StringsCopied'
  <2>1. \A n \in Name \ {k} : tab'[n] = tab[n]
    BY <1>1 DEF TypeOK
  <2>2. QED
    BY <1>0, <1>1, <2>1, SaveKeepsStrings
<1>2. ASSUME NEW v \in Value, Param(k, v) PROVE StringsCopied'
  <2>1. [v |-> v, ex |-> FALSE, ro |-> FALSE] \in Var
    BY DEF Var
  <2>2. QED
    BY <1>0, <1>1, <1>2, <2>1 DEF Param
<1>3. ASSUME NEW x \in Text, Prefix(k, x) PROVE StringsCopied'
  <2>1. PICK b \in Var : Set(k, b) /\ (~IsArray(k) => b.v.map = None)
    <3>1. CASE IsArray(k)
      <4>1. [v |-> Scalar(x), ex |-> TRUE, ro |-> FALSE] \in Var
        BY StringType DEF Var
      <4>2. QED
        BY <1>3, <3>1, <4>1 DEF Prefix
    <3>2. CASE ~IsArray(k)
      <4>1. SetValue(k, x, TRUE)
        BY <1>3, <3>2 DEF Prefix
      <4>2. QED
        <5>1. PICK b \in Var : /\ Set(k, b)
                               /\ b.ex = (Exported(k) \/ TRUE) /\ b.ro = Fixed(k)
                               /\ b.v.s = x
                               /\ ~IsArray(k) => b.v = Scalar(x)
          BY <4>1, SetValueIs, Zenon
        <5>2. b.v.map = None
          BY <3>2, <5>1, StringType
        <5>3. QED
          BY <5>1, <5>2
    <3>3. QED
      BY <3>1, <3>2
  <2>2. tab'[k] = b /\ \A n \in Name \ {k} : tab'[n] = tab[n]
    BY <2>1 DEF Set, TypeOK
  <2>3. IsArray(k) \in BOOLEAN /\ Save(k, IsArray(k), Depth)
    BY <1>3, HeldType DEF Prefix
  <2>4. ~IsArray(k) => ~IsArray(k)'
    BY <2>1, <2>2 DEF IsArray
  <2>5. QED
    BY <1>0, <2>2, <2>3, <2>4, SaveKeepsStrings
<1>4. CASE Local(k)
  BY <1>0, <1>1, <1>4 DEF Local
<1>5. ASSUME NEW x \in Text \cup {None}, NEW a \in Array \cup {None},
             NEW ex \in BOOLEAN, NEW ro \in BOOLEAN, Declare(k, x, a, ex, ro)
      PROVE  StringsCopied'
  <2>1. PICK b \in Var : tab' = [tab EXCEPT ![k] = b]
    BY <1>5, DeclareIs DEF Set
  <2>2. Save(k, tab[k] # None, Function) /\ InFunction
    BY <1>5 DEF Declare
  <2>3. QED
    BY <1>0, <1>1, <2>1, <2>2
<1>6. QED
  BY <1>2, <1>3, <1>4, <1>5 DEF Shadow

\* What is put back from the last record is a string if what the record before
\* it of that name kept was copied.
LEMMA PutBackKeepsStrings ==
  ASSUME TypeOK, Tidy, StringsCopied, PutBack
  PROVE  StringsCopied'
<1>1. PICK n \in Nat : /\ Newest = n /\ n = Len(saved) /\ n # 0
                      /\ DOMAIN saved = 1 .. n
  BY NewestIsLast DEF TypeOK, PutBack
<1>2. DOMAIN saved' = 1 .. n - 1 /\ \A j \in 1 .. n - 1 : saved'[j] = saved[j]
  BY <1>1, PutBackTidy
<1>3. Len(saved') = n - 1
  BY <1>1, PutBackRest DEF TypeOK
<1>4. PICK r \in Saved : r = saved[n]
  BY <1>1 DEF TypeOK
<1>5. r.k \in Name /\ r.old \in Var \cup {None} /\ r.lift \in BOOLEAN
  BY <1>4 DEF Saved
<1>6. ASSUME r.old = None \/ r.old.v.map = None
      PROVE  ~IsArray(r.k)'
  <2>1. CASE r.old = None \/ r.lift
    <3>1. tab' = [tab EXCEPT ![r.k] = r.old]
      BY <1>1, <1>4, <2>1 DEF PutBack, Del, Back
    <3>2. QED
      BY <1>5, <1>6, <3>1 DEF TypeOK, IsArray
  <2>2. CASE r.old # None /\ ~r.lift
    <3>1. ~IsArray(r.k)
      BY <1>1, <1>4, <2>2 DEF StringsCopied
    <3>2. CASE Fixed(r.k)
      <4>1. tab' = tab
        BY <1>1, <1>4, <2>2, <3>2 DEF PutBack
      <4>2. QED
        BY <3>1, <4>1 DEF IsArray
    <3>3. CASE ~Fixed(r.k)
      <4>1. SetValue(r.k, r.old.v.s, r.old.ex)
        BY <1>1, <1>4, <2>2, <3>3 DEF PutBack
      <4>2. r.old.v.s \in Text /\ r.old.ex \in BOOLEAN
        BY <1>5, <2>2 DEF Var, Value
      <4>3. PICK b \in Var : Set(r.k, b) /\ b.v = Scalar(r.old.v.s)
        BY <1>5, <3>1, <4>1, <4>2, SetValueIs
      <4>4. tab'[r.k] = b /\ b.v.map = None
        BY <1>5, <4>2, <4>3, StringType DEF Set, TypeOK
      <4>5. QED
        BY <4>4 DEF IsArray
    <3>4. QED
      BY <3>2, <3>3
  <2>3. QED
    BY <2>1, <2>2
<1>7. \A m \in Name \ {r.k} : tab'[m] = tab[m]
  BY <1>1, <1>4, <1>5 DEF PutBack, Del, Back, SetValue, Set, TypeOK
<1>8. ASSUME NEW i \in 1 .. n - 1, saved[i].old # None, ~saved[i].lift
      PROVE  /\ saved[i].old.v.map = None
             /\ \A j \in i + 1 .. n - 1 :
                  saved[j].k = saved[i].k /\ (\A m \in i + 1 .. j - 1 : saved[m].k # saved[i].k) =>
                    saved[j].old = None \/ saved[j].old.v.map = None
             /\ (\A j \in i + 1 .. n - 1 : saved[j].k # saved[i].k) => ~IsArray(saved[i].k)'
  <2>1. /\ saved[i].old.v.map = None /\ i \in DOMAIN saved /\ saved[i].k \in Name
        /\ \A j \in i + 1 .. n :
             saved[j].k = saved[i].k /\ (\A m \in i + 1 .. j - 1 : saved[m].k # saved[i].k) =>
               saved[j].old = None \/ saved[j].old.v.map = None
        /\ (\A j \in i + 1 .. n : saved[j].k # saved[i].k) => ~IsArray(saved[i].k)
    <3>1. i \in DOMAIN saved /\ Len(saved) = n
      BY <1>1
    <3>2. QED
      BY <1>8, <3>1, RecordType DEF StringsCopied
  <2>2. ASSUME \A j \in i + 1 .. n - 1 : saved[j].k # saved[i].k
        PROVE  ~IsArray(saved[i].k)'
    <3>0. saved'[i] = saved[i] /\ n \in i + 1 .. n
      BY <1>1, <1>2
    <3>1. CASE saved[i].k = r.k
      <4>1. r.old = None \/ r.old.v.map = None
        BY <1>4, <2>1, <2>2, <3>0, <3>1
      <4>2. QED
        BY <1>6, <3>0, <3>1, <4>1 DEF IsArray
    <3>2. CASE saved[i].k # r.k
      <4>1. \A j \in i + 1 .. n : saved[j].k # saved[i].k
        <5> SUFFICES ASSUME NEW j \in i + 1 .. n PROVE saved[j].k # saved[i].k
          OBVIOUS
        <5>1. j = n \/ j \in i + 1 .. n - 1
          BY <1>1
        <5>2. QED
          BY <1>4, <2>2, <3>2, <5>1
      <4>2. QED
        BY <1>7, <2>1, <3>0, <3>2, <4>1 DEF IsArray
    <3>3. QED
      BY <3>1, <3>2
  <2>3. \A j \in i + 1 .. n - 1 : j \in i + 1 .. n
    BY <1>1
  <2>4. QED
    BY <2>1, <2>2, <2>3
<1>9. ASSUME NEW i \in DOMAIN saved', saved'[i].old # None, ~saved'[i].lift
      PROVE  /\ saved'[i].old.v.map = None
             /\ \A j \in i + 1 .. Len(saved') :
                  saved'[j].k = saved'[i].k
                  /\ (\A m \in i + 1 .. j - 1 : saved'[m].k # saved'[i].k) =>
                    saved'[j].old = None \/ saved'[j].old.v.map = None
             /\ (\A j \in i + 1 .. Len(saved') : saved'[j].k # saved'[i].k) =>
                  ~IsArray(saved[i].k)'
  <2>1. i \in 1 .. n - 1 /\ saved'[i] = saved[i]
    BY <1>2
  <2>2. \A j \in i + 1 .. n - 1 : /\ saved'[j] = saved[j]
                                  /\ \A m \in i + 1 .. j - 1 : saved'[m] = saved[m]
    BY <1>1, <1>2, <2>1
  <2>3. /\ saved[i].old.v.map = None
        /\ \A j \in i + 1 .. n - 1 :
             saved[j].k = saved[i].k /\ (\A m \in i + 1 .. j - 1 : saved[m].k # saved[i].k) =>
               saved[j].old = None \/ saved[j].old.v.map = None
        /\ (\A j \in i + 1 .. n - 1 : saved[j].k # saved[i].k) => ~IsArray(saved[i].k)'
    BY <1>8, <1>9, <2>1
  <2>4. \A j \in i + 1 .. n - 1 :
          saved'[j].k = saved'[i].k
          /\ (\A m \in i + 1 .. j - 1 : saved'[m].k # saved'[i].k) =>
            saved'[j].old = None \/ saved'[j].old.v.map = None
    BY <2>1, <2>2, <2>3
  <2>5. (\A j \in i + 1 .. n - 1 : saved'[j].k # saved'[i].k) => ~IsArray(saved[i].k)'
    BY <2>1, <2>2, <2>3
  <2>6. QED
    BY <1>3, <2>1, <2>3, <2>4, <2>5
<1>10. QED
  BY <1>9 DEF StringsCopied

LEMMA StringsInvariant ==
  ASSUME "eval_local" \notin Exceptions, "copied_array" \notin Exceptions
  PROVE  Spec => []StringsCopied
<1>1. Init => StringsCopied
  BY DEF Init, StringsCopied
<1>2. TypeOK /\ Tidy /\ StringsCopied /\ [Next]_vars => StringsCopied'
  <2> SUFFICES ASSUME TypeOK, Tidy, StringsCopied, [Next]_vars PROVE StringsCopied'
    OBVIOUS
  <2>1. ASSUME NEW k \in Name, Script(k) PROVE StringsCopied'
    <3>1. PICK b \in Var \cup {None} : Changed(k, b)
      BY <2>1, ScriptIs
    <3>2. /\ tab'[k] = b /\ saved' = saved
          /\ \A n \in Name \ {k} : tab'[n] = tab[n]
          /\ Copied(k) /\ ~IsArray(k) => b = None \/ b.v.map = None
      BY <2>1, <3>1, ScriptKeeps DEF Changed, TypeOK
    <3>3. Copied(k) /\ ~IsArray(k) => ~IsArray(k)'
      BY <3>2 DEF IsArray
    <3>4. QED
      BY <3>2, <3>3, ChangeKeepsStrings
  <2>2. ASSUME UNCHANGED <<tab, saved>> PROVE StringsCopied'
    BY <2>2 DEF StringsCopied, IsArray
  <2>3. ASSUME NEW fn \in BOOLEAN, Begin(fn) PROVE StringsCopied'
    BY <2>2, <2>3 DEF Begin
  <2>4. CASE Start \/ Leave \/ End \/ UNCHANGED vars
    BY <2>2, <2>4 DEF Start, Leave, End, vars
  <2>5. QED
    BY <2>1, <2>3, <2>4, ShadowKeepsStrings, PutBackKeepsStrings DEF Next
<1>3. QED
  BY <1>1, <1>2, TypeCorrect, TidyInvariant, PTL DEF Spec

\* What is covered, as the abstract specification sees it.
Covered == [i \in DOMAIN saved |->
              [k |-> saved[i].k, b |-> saved[i].old, by |-> saved[i].by]]

\* A script changes what is seen and covers nothing.
LEMMA ScriptChanges ==
  ASSUME Exceptions = {}, TypeOK, NEW k \in Name, Script(k)
  PROVE  Promised!Change(k)
<1>1. PICK b \in Var \cup {None} : Changed(k, b)
  BY ScriptIs
<1>2. calls' = calls /\ saved' = saved
  BY ScriptKeeps
<1>3. Promised!Binding = Var /\ Promised!Fixed(k) = Fixed(k)
  BY DEF Promised!Binding, Promised!Fixed, Var, Fixed
<1>4. /\ tab' = [tab EXCEPT ![k] = b]
      /\ Fixed(k) => b # None /\ b.ro /\ b.v = tab[k].v
  BY <1>1 DEF Changed
<1>5. QED
  BY <1>2, <1>3, <1>4 DEF Promised!Change

\* A parameter, a local and an assignment before a command cover a name.
LEMMA ShadowCovers ==
  ASSUME TypeOK, Tidy, "eval_local" \notin Exceptions, NEW k \in Name, Shadow(k)
  PROVE  \E d \in DOMAIN calls : Promised!Cover(k, d)
<1>1. /\ calls \in Seq(BOOLEAN) /\ DOMAIN calls = 1 .. Depth /\ Depth \in Nat
      /\ saved \in Seq(Saved) /\ Len(saved) \in Nat /\ DOMAIN saved = 1 .. Len(saved)
      /\ (tab[k] # None) \in BOOLEAN /\ Exported(k) \in BOOLEAN
      /\ tab[k] # None => tab[k] \in Var
  BY HeldType DEF TypeOK, Depth
<1>2. Promised!Binding = Var /\ Promised!Fixed(k) = Fixed(k)
  BY DEF Promised!Binding, Promised!Fixed, Var, Fixed
<1>3. ASSUME NEW b \in Var \cup {None}, NEW lift \in BOOLEAN, NEW d \in DOMAIN calls,
             Save(k, lift, d), tab' = [tab EXCEPT ![k] = b], ~Fixed(k), calls' = calls
      PROVE  \E e \in DOMAIN calls : Promised!Cover(k, e)
  <2>1. Covered' = Append(Covered, [k |-> k, b |-> tab[k], by |-> d])
    <3> DEFINE c == [k |-> k, b |-> tab[k], by |-> d]
               R(r) == [k |-> r.k, b |-> r.old, by |-> r.by]
    <3>1. d \in Nat
      BY <1>1
    <3>2. /\ DOMAIN saved' = DOMAIN saved \cup {Len(saved) + 1}
          /\ \A i \in DOMAIN saved : saved'[i] = saved[i]
          /\ saved'[Len(saved) + 1] = [k |-> k, old |-> tab[k], lift |-> lift, by |-> d]
      BY <1>3, <3>1, SaveType
    <3>3. R(saved'[Len(saved) + 1]) = c
      BY <3>2
    <3>4. /\ Len(Covered) = Len(saved) /\ DOMAIN Covered = DOMAIN saved
          /\ \A i \in DOMAIN saved : Covered[i] = R(saved[i])
          /\ Covered \in Seq({R(r) : r \in Saved})
      BY <1>1 DEF Covered
    <3> DEFINE A == Append(Covered, c)
    <3>5. /\ A = [i \in 1 .. Len(Covered) + 1 |-> IF i = Len(Covered) + 1 THEN c ELSE Covered[i]]
      BY <3>4
    <3>6. Covered' = [i \in DOMAIN saved' |-> R(saved'[i])]
      BY DEF Covered
    <3> HIDE DEF c, R
    <3>7. QED
      BY <1>1, <3>2, <3>3, <3>4, <3>5, <3>6 DEF c
  <2>2. QED
    BY <1>2, <1>3, <2>1 DEF Promised!Cover, Covered
<1>4. ASSUME InFunction PROVE Function = Depth /\ Depth \in DOMAIN calls
  <2>1. Function = Depth /\ Functions # {}
    BY <1>4 DEF InFunction
  <2>2. QED
    BY <1>1, <2>1 DEF Functions
<1>5. phase = "bind" => Depth \in DOMAIN calls
  BY <1>1 DEF Tidy, Depth
<1>6. ASSUME NEW v \in Value, Param(k, v)
      PROVE  \E e \in DOMAIN calls : Promised!Cover(k, e)
  <2>1. [v |-> v, ex |-> FALSE, ro |-> FALSE] \in Var
    BY DEF Var
  <2>2. QED
    BY <1>1, <1>3, <1>5, <1>6, <2>1 DEF Param
<1>7. ASSUME NEW x \in Text, Prefix(k, x)
      PROVE  \E e \in DOMAIN calls : Promised!Cover(k, e)
  <2>1. PICK b \in Var : Set(k, b)
    <3>1. [v |-> Scalar(x), ex |-> TRUE, ro |-> FALSE] \in Var
      BY StringType DEF Var
    <3>2. IsArray(k) \/ SetValue(k, x, TRUE)
      BY <1>7 DEF Prefix
    <3>3. QED
      BY <1>7, <3>1, <3>2, SetValueIs DEF Prefix
  <2>2. tab' = [tab EXCEPT ![k] = b]
    BY <2>1 DEF Set
  <2>3. /\ IsArray(k) \in BOOLEAN /\ Save(k, IsArray(k), Depth)
        /\ ~Fixed(k) /\ calls' = calls /\ phase = "bind"
    BY <1>7, HeldType DEF Prefix
  <2>4. QED
    BY <1>3, <1>5, <2>2, <2>3
<1>8. CASE Local(k)
  BY <1>1, <1>3, <1>4, <1>8 DEF Local
<1>9. ASSUME NEW x \in Text \cup {None}, NEW a \in Array \cup {None},
             NEW ex \in BOOLEAN, NEW ro \in BOOLEAN, Declare(k, x, a, ex, ro)
      PROVE  \E e \in DOMAIN calls : Promised!Cover(k, e)
  <2>1. PICK b \in Var : tab' = [tab EXCEPT ![k] = b]
    BY <1>9, DeclareIs DEF Set
  <2>2. QED
    BY <1>1, <1>3, <1>4, <1>9, <2>1 DEF Declare
<1>10. QED
  BY <1>6, <1>7, <1>8, <1>9 DEF Shadow

\* asg_pop uncovers what the record covered: the last one has none above it.
LEMMA PutBackUncovers ==
  ASSUME TypeOK, Tidy, StringsCopied, PutBack
  PROVE  \E i \in DOMAIN Covered : Promised!Uncover(i)
<1>1. PICK i \in DOMAIN saved : /\ Newest = i /\ i = Len(saved)
                               /\ i \in Nat /\ DOMAIN saved = 1 .. i
                               /\ saved[i].by = Depth
  BY NewestIsLast DEF TypeOK, PutBack
<1>2. PICK r \in Saved : r = saved[i]
  BY <1>1 DEF TypeOK
<1>3. r.k \in Name /\ r.old \in Var \cup {None} /\ r.lift \in BOOLEAN /\ r.by = Depth
  BY <1>1, <1>2 DEF Saved
<1>4. /\ DOMAIN Covered = 1 .. i /\ Len(Covered) = i
      /\ Covered[i] = [k |-> r.k, b |-> r.old, by |-> r.by]
  BY <1>1, <1>2 DEF Covered
<1>5. Covered' = [j \in 1 .. i - 1 |-> Covered[j]]
  <2>1. DOMAIN saved' = 1 .. i - 1 /\ \A j \in 1 .. i - 1 : saved'[j] = saved[j]
    BY <1>1, PutBackTidy
  <2>2. QED
    BY <1>1, <2>1 DEF Covered
<1>6. Promised!Above(i) = {}
  BY <1>1, <1>4 DEF Promised!Above, Covered
<1>7. Promised!Gone(i) = [j \in 1 .. i - 1 |-> Covered[j]]
  BY <1>1, <1>4, <1>6 DEF Promised!Gone, Covered
<1>8. Promised!Binding = Var /\ Promised!Fixed(r.k) = Fixed(r.k)
  BY DEF Promised!Binding, Promised!Fixed, Var, Fixed
<1>9. PICK b \in Var \cup {None} :
        /\ tab' = [tab EXCEPT ![r.k] = b]
        /\ Promised!Shown(Covered[i], b)
  <2>1. CASE r.old = None \/ r.lift
    <3>1. tab' = [tab EXCEPT ![r.k] = r.old]
      BY <1>1, <1>2, <2>1 DEF PutBack, Del, Back
    <3>2. Promised!Shown(Covered[i], r.old)
      BY <1>4 DEF Promised!Shown
    <3>3. QED
      BY <1>3, <3>1, <3>2
  <2>2. CASE r.old # None /\ ~r.lift
    <3>1. ~calls[r.by]
      BY <1>1, <1>2, <2>2 DEF Tidy
    <3>2. CASE Fixed(r.k)
      <4>1. tab' = tab
        BY <1>1, <1>2, <2>2, <3>2 DEF PutBack
      <4>2. tab' = [tab EXCEPT ![r.k] = tab[r.k]] /\ tab[r.k] \in Var \cup {None}
        BY <1>3, <4>1 DEF TypeOK
      <4>3. Promised!Shown(Covered[i], tab[r.k])
        BY <1>4, <2>2, <3>1, <3>2 DEF Promised!Shown, Promised!Fixed, Fixed
      <4>4. QED
        BY <4>2, <4>3
    <3>3. CASE ~Fixed(r.k)
      <4>1. r.old \in Var /\ r.old.v.s \in Text /\ r.old.ex \in BOOLEAN
        BY <1>3, <2>2 DEF Var, Value
      <4>2. SetValue(r.k, r.old.v.s, r.old.ex)
        BY <1>1, <1>2, <2>2, <3>3 DEF PutBack
      <4>3. PICK b \in Var : /\ Set(r.k, b) /\ b.ex = (Exported(r.k) \/ r.old.ex)
                             /\ b.ro = Fixed(r.k)
                             /\ ~IsArray(r.k) => b.v = Scalar(r.old.v.s)
        BY <1>3, <4>1, <4>2, SetValueIs
      <4>4. /\ tab' = [tab EXCEPT ![r.k] = b] /\ b # None
            /\ ~b.ro /\ (r.old.ex => b.ex) /\ b.v = r.old.v
        <5>1. r.old.v.map = None /\ ~IsArray(r.k)
          BY <1>1, <1>2, <2>2 DEF StringsCopied
        <5>2. r.old.v \in Value
          BY <4>1 DEF Var
        <5>3. r.old.v = Scalar(r.old.v.s)
          BY <5>1, <5>2 DEF Value, Scalar
        <5>4. QED
          BY <3>3, <4>3, <5>1, <5>3, NotNone DEF Set
      <4>5. Promised!Shown(Covered[i], b)
        BY <1>4, <2>2, <3>1, <4>4 DEF Promised!Shown
      <4>6. QED
        BY <4>4, <4>5
    <3>4. QED
      BY <3>2, <3>3
  <2>3. QED
    BY <1>3, <2>1, <2>2
<1>10. calls' = calls
  BY DEF PutBack
<1>11. Promised!Uncover(i)
  BY <1>1, <1>3, <1>4, <1>5, <1>6, <1>7, <1>8, <1>9, <1>10
     DEF Promised!Uncover, Covered, Depth
<1>12. i \in DOMAIN Covered
  BY <1>1, <1>4
<1>13. QED
  BY <1>11, <1>12

\* Every binding is restored on return: the shell's table is the abstract
\* one's, and each step of the shell one of its steps, or none of them.
THEOREM ScopesCorrect ==
  ASSUME Exceptions = {}
  PROVE  Spec => ImplementsScopes
<1>1. Init => Promised!Init
  <2> SUFFICES ASSUME Init PROVE Promised!Init
    OBVIOUS
  <2>1. tab \in [Name -> Var \cup {None}]
    BY StringType DEF Init, Var
  <2>2. QED
    BY <2>1 DEF Init, Promised!Init, Promised!Binding, Var
<1>2. TypeOK /\ Tidy /\ StringsCopied /\ [Next]_vars => [Promised!Next]_(Promised!vars)
  <2> SUFFICES ASSUME TypeOK, Tidy, StringsCopied, [Next]_vars
               PROVE  Promised!Next \/ UNCHANGED Promised!vars
    OBVIOUS
  <2>1. ASSUME NEW k \in Name, Script(k) PROVE Promised!Next
    BY <2>1, ScriptChanges DEF Promised!Next
  <2>2. ASSUME NEW k \in Name, Shadow(k) PROVE Promised!Next
    BY <2>2, ShadowCovers DEF Promised!Next
  <2>3. ASSUME NEW fn \in BOOLEAN, Begin(fn) PROVE Promised!Next
    BY <2>3 DEF Begin, Promised!Next, Promised!Begin
  <2>4. CASE PutBack
    BY <2>4, PutBackUncovers DEF Promised!Next, Covered
  <2>5. CASE End
    <3>1. calls # <<>>
      BY <2>5 DEF End, Tidy
    <3>2. \A i \in DOMAIN Covered : Covered[i].by # Len(calls)
      BY <2>5 DEF End, Own, Covered, Depth
    <3>3. Promised!End
      BY <2>5, <3>1, <3>2 DEF End, Promised!End, Covered, Depth
    <3>4. QED
      BY <3>3 DEF Promised!Next
  <2>6. CASE Start \/ Leave \/ UNCHANGED vars
    BY <2>6 DEF Start, Leave, vars, Promised!vars
  <2>7. QED
    BY <2>1, <2>2, <2>3, <2>4, <2>5, <2>6 DEF Next
<1>3. "eval_local" \notin Exceptions /\ "copied_array" \notin Exceptions
  OBVIOUS
<1>4. Spec => []Tidy /\ []StringsCopied
  BY <1>3, TidyInvariant, StringsInvariant
<1>5. QED
  BY <1>1, <1>2, <1>4, TypeCorrect, PTL DEF Spec, ImplementsScopes, Promised!Spec
=============================================================================
