----------------------------- MODULE HoldServer -----------------------------
(***************************************************************************)
(* The server of a held session (src/mods/hold/srv.c): the displays that   *)
(* are attached, which of them is the primary, where each sits in the one  *)
(* screen the program draws on, what is remembered of a display that went, *)
(* and the terminals that join, ask, fall silent and come back.            *)
(*                                                                         *)
(* The server is one thread, and a pass of its loop is the unit: it polls, *)
(* reads one message from each client that was ready, puts right what a    *)
(* display that went left behind, takes one connection, and draws.  Each   *)
(* of those is a phase here (`pc').  A terminal joins in steps, as         *)
(* programs/desktop/wm/hold.hibr does: it asks, with up to three requests, *)
(* and then attaches with the answers, and anything may happen in between. *)
(*                                                                         *)
(* A place is one number.  The code treats rows and columns alike, line by *)
(* line, so the second coordinate would repeat the first.                  *)
(***************************************************************************)
EXTENDS Integers, Sequences, FiniteSets

CONSTANTS
  Term,      \* the terminals that may attach
  Machine,   \* the names they go by, without what follows a #
  Base,      \* Base[t]: the name terminal t goes by
  None,      \* no terminal, no name, no slot
  Lost,      \* whose role it is has been forgotten
  Widths,    \* the sizes a terminal may have
  Offsets,   \* the places `hold move' is asked for, from the primary's
  MaxAt,     \* bound: the furthest edge of the arrangement
  MaxShift,  \* bound: how far the origin is ever normalised
  MaxTwin,   \* bound: terminals attached under one name
  MaxHere,   \* bound: displays attached at once
  MaxAsk     \* bound: terminals between asking and joining

ASSUME HoldAssumption ==
  /\ Base \in [Term -> Machine]
  /\ None \notin Term /\ {None, Lost} \cap Machine = {} /\ None # Lost
  /\ None \notin [at: Int, w: Widths, prim: BOOLEAN]
  /\ Widths \subseteq Nat \ {0}
  /\ Offsets \subseteq Int
  /\ {MaxAt, MaxShift, MaxHere, MaxAsk} \subseteq Nat /\ MaxTwin \in Nat \ {0}

VARIABLES
  srv,    \* the server: clients, slots, origin, and what the program was told
  pc,     \* the phase of the pass
  ready,  \* the clients there were at poll that are still to be looked at
  plan,   \* what each terminal was told when it asked where to join
  did,    \* the request answered in this pass, for the properties
  owner,  \* the display whose role the primary is, for the properties
  left    \* where each display was when it last went, for the properties

vars == <<srv, pc, ready, plan, did, owner, left>>

Phase == {"poll", "clients", "accept", "draw", "ended"}
NoFront == <<>>

\* struct hd_cli.  `k' numbers the clients of one name, `wait' is set until the
\* client has said what its terminal draws, and `front' is the part of the
\* screen the cells last sent were of.
Client == [t: Term, k: 1..MaxTwin, at: Int, w: Widths, prim: BOOLEAN,
           autop: BOOLEAN, wait: BOOLEAN,
           front: {NoFront} \cup (Int \X Widths)]
Slot   == [at: Int, w: Widths, prim: BOOLEAN]
\* What a terminal knows from the requests answered so far, the last of which
\* is `asked'.
Plan   == [multi: BOOLEAN, k: 1..MaxTwin, at: Int, w: Widths,
           asked: {"info", "clients", "slot"}]
Nothing == [op |-> "none", t |-> None, off |-> 0, fresh |-> FALSE]

(***************************************************************************)
(* The server's own operations, from one state of it to the next           *)
(***************************************************************************)

Attached(s) == {s.cls[i].t : i \in DOMAIN s.cls}
At(s, t)    == CHOOSE i \in DOMAIN s.cls : s.cls[i].t = t
Of(s, t)    == s.cls[At(s, t)]
Primaries(s) == {i \in DOMAIN s.cls : s.cls[i].prim}

\* hd_ubox: the furthest edge any client reaches.
Ubox(s) ==
  LET edge == {s.cls[i].at + s.cls[i].w : i \in DOMAIN s.cls} \cup {0}
  IN  CHOOSE m \in edge : \A e \in edge : e <= m

\* The smallest place, or 0: only a negative one is taken out.
Lowest(s) ==
  LET place == {s.cls[i].at : i \in DOMAIN s.cls} \cup {0}
  IN  CHOOSE m \in place : \A p \in place : m <= p

\* A mutant: the origin moves and is not counted.
MutUnorm(s) ==
  [s EXCEPT !.cls = [i \in DOMAIN s.cls |->
     [s.cls[i] EXCEPT !.at = @ - Lowest(s), !.front = NoFront]]]
\* A mutant: places left of the corner stay there.
MutLeft(s) == s
\* hd_unorm: every client moves by the same amount, and what each was sent is
\* no longer what it shows.
Unorm(s) ==
  LET m == Lowest(s)
  IN  IF m = 0 THEN s
      ELSE [s EXCEPT !.cls = [i \in DOMAIN s.cls |->
                                [s.cls[i] EXCEPT !.at = @ - m, !.front = NoFront]],
                     !.shift = @ - m]

\* hd_union: the program's terminal is sized to the union.  A size that differs
\* from the last one sends the program SIGWINCH, and it reads the displays.
Union(s) ==
  IF s.cls = <<>> THEN s
  ELSE LET n == Unorm(s)
       IN  [n EXCEPT !.size = Ubox(n), !.told = s.told \/ Ubox(n) # s.size]
Moved(s) == s.cls # <<>> /\ Lowest(s) # 0

\* hd_poke: SIGWINCH whatever the size.
Poke(s) == [s EXCEPT !.told = TRUE]

\* A mutant: kept in the frame of the moment.
MutFrame(s, i) ==
  LET c == s.cls[i]
  IN  [s.slots EXCEPT ![Base[c.t]] =
         [at |-> c.at, w |-> c.w, prim |-> c.prim /\ ~c.autop]]
\* A mutant: a stand-in is remembered as the primary.
MutStand(s, i) ==
  LET c == s.cls[i]
  IN  [s.slots EXCEPT ![Base[c.t]] =
         [at |-> c.at - s.shift, w |-> c.w, prim |-> c.prim]]

\* hd_slotkeep: by name, in the frame of the origin the session began with.
SlotKeep(s, i) ==
  LET c == s.cls[i]
  IN  [s.slots EXCEPT ![Base[c.t]] =
         [at |-> c.at - s.shift, w |-> c.w, prim |-> c.prim /\ ~c.autop]]

\* hd_cdrop: the last client takes the place of the one that goes.
Drop(s, i) ==
  LET n == Len(s.cls)
  IN  [s EXCEPT !.cls = [j \in 1..(n - 1) |-> IF j = i THEN s.cls[n] ELSE s.cls[j]],
                !.slots = SlotKeep(s, i),
                !.gone = TRUE,
                !.told = FALSE]

\* hd_slotprim: a display other than this one is remembered as the primary.
SlotPrim(s, b) ==
  \E o \in Machine \ {b} : s.slots[o] # None /\ s.slots[o].prim

\* A display takes the role because the one that has it went.
StandIn(s) ==
  [s EXCEPT !.cls[1].prim = TRUE, !.cls[1].autop = TRUE]

\* hd_rensend1 for the clients of D: one that has not said what it draws is
\* sent nothing.
Sent(s, D) ==
  [s EXCEPT !.cls = [i \in DOMAIN s.cls |->
     LET c == s.cls[i]
     IN  IF c.t \in D /\ ~c.wait THEN [c EXCEPT !.front = <<c.at, c.w>>] ELSE c]]

\* hd_rensend and hd_rensend1, the send to f failing: f is dropped.
Draw(s, D, f) ==
  IF f \in D \cap Attached(s) /\ ~Of(s, f).wait
  THEN Drop(Sent(s, D), At(s, f))
  ELSE Sent(s, D)

Bounded(s) ==
  /\ Len(s.cls) <= MaxHere
  /\ s.shift <= MaxShift
  /\ \A i \in DOMAIN s.cls : s.cls[i].at + s.cls[i].w <= MaxAt

\* A terminal whose send may fail, or none.
Fails == Term \cup {None}

(***************************************************************************)
(* What the properties remember.  A display is the one whose role the      *)
(* primary is when it takes the role with nobody remembered as having it,  *)
(* or when a person chooses it.  The memory is lost when all are detached  *)
(* at once, when the server is replaced, and when two clients of one name  *)
(* share a slot.                                                           *)
(***************************************************************************)

Twins(s) == \E i, j \in DOMAIN s.cls :
              i # j /\ Base[s.cls[i].t] = Base[s.cls[j].t]

\* Where the displays that a step drops were.
Went(s, n) ==
  [b \in Machine |->
     IF \E t \in Attached(s) \ Attached(n) : Base[t] = b
     THEN LET t == CHOOSE u \in Attached(s) \ Attached(n) : Base[u] = b
          IN  Of(s, t).at - s.shift
     ELSE IF n.slots[b] = None THEN 0 ELSE left[b]]

\* The server reaches n, and from s to n it only drops displays, if any.
Through(s, n, o) ==
  /\ srv' = n
  /\ Bounded(srv')
  /\ left' = Went(s, srv')
  /\ owner' = IF Twins(srv') THEN Lost ELSE o
Step(n) == Through(srv, n, owner) /\ UNCHANGED plan

(***************************************************************************)
(* A pass of hd_loop                                                       *)
(***************************************************************************)

\* A mutant: it is drawn and still waited for.
MutDue(t, f) ==
  /\ pc = "poll"
  /\ t \in Attached(srv) /\ Of(srv, t).wait
  /\ Step(Draw(Poke(srv), {t}, f))
  /\ UNCHANGED <<pc, ready, did>>

\* hd_gfxdue: a client that has said nothing in time is taken as unasked, and
\* drawn for the first time.
Due(t, f) ==
  LET i == At(srv, t)
      s == [srv EXCEPT !.cls[i].wait = FALSE]
  IN  /\ pc = "poll"
      /\ t \in Attached(srv) /\ srv.cls[i].wait
      /\ Step(Draw(Poke(s), {t}, f))
      /\ UNCHANGED <<pc, ready, did>>

\* poll answers for the clients there were before it, and what the program
\* wrote for the terminals themselves has gone to each (hd_passsend), failing
\* for f.
Poll(f) ==
  /\ pc = "poll"
  /\ Step(IF f \in Attached(srv) THEN Drop(srv, At(srv, f)) ELSE srv)
  /\ ready' = [i \in DOMAIN srv.cls |-> srv.cls[i].t]
  /\ pc' = "clients"
  /\ UNCHANGED did

\* The next client, which was ready, unless it has been dropped since.
Reading(t) ==
  /\ pc = "clients" /\ ready # <<>> /\ t = Head(ready)
  /\ t \in Attached(srv)
  /\ ready' = Tail(ready)
  /\ UNCHANGED <<pc, did>>

\* It was not ready or has been dropped, or it sent the person's input
\* (HD_DATA), which goes to the program.
Skip ==
  /\ pc = "clients" /\ ready # <<>>
  /\ ready' = Tail(ready)
  /\ UNCHANGED <<srv, pc, plan, did, owner, left>>

\* The connection closed, or HD_DETACH.
Hangup(t) == Reading(t) /\ Step(Drop(srv, At(srv, t)))

\* A mutant: the union is not measured again.
MutResize(t, w) ==
  /\ Reading(t)
  /\ Step([srv EXCEPT !.cls[At(srv, t)].front = NoFront,
                       !.cls[At(srv, t)].w = w])
\* A mutant: what the display was sent is kept.
MutFront(t, w) ==
  /\ Reading(t)
  /\ Step(Union([srv EXCEPT !.cls[At(srv, t)].w = w]))
\* A mutant: one column short.
MutShort(t, w) ==
  /\ Reading(t)
  /\ Step(Union([srv EXCEPT !.cls[At(srv, t)].front = NoFront,
                             !.cls[At(srv, t)].w = w - 1]))

\* HD_SIZE: only a real change throws away what the client was sent.
Resize(t, w) ==
  LET i == At(srv, t)
  IN  /\ Reading(t)
      /\ Step(Union([srv EXCEPT
                       !.cls[i].front = IF w = srv.cls[i].w THEN @ ELSE NoFront,
                       !.cls[i].w = w]))

\* HD_GFX: the first answer of a client is what its first frame waits for, and
\* a changed one has the program read the displays again.
Gfx(t, f, changed) ==
  LET i == At(srv, t)
      s == [srv EXCEPT !.cls[i].wait = FALSE, !.told = @ \/ changed]
  IN  /\ Reading(t)
      /\ Step(IF srv.cls[i].wait THEN Draw(s, {t}, f) ELSE s)

\* HD_DEPTH, the number of colours changed: repainted at once.
Depth(t, f) ==
  /\ Reading(t)
  /\ Step(Draw([srv EXCEPT !.cls[At(srv, t)].front = NoFront], {t}, f))

Read ==
  \/ \E t \in Term :
       \/ Hangup(t)
       \/ \E w \in Widths : Resize(t, w)
       \/ \E f \in {t, None} : Depth(t, f) \/ \E c \in BOOLEAN : Gfx(t, f, c)
  \/ Skip

\* After the clients: what a display that went left behind is put right.
Settle ==
  LET s == [srv EXCEPT !.gone = FALSE]
      r == IF s.cls # <<>> /\ Primaries(s) = {} THEN StandIn(s) ELSE s
  IN  /\ pc = "clients" /\ ready = <<>>
      /\ Step(IF srv.gone THEN Poke(Sent(Union(r), IF Moved(r) THEN Term ELSE {}))
              ELSE srv)
      /\ pc' = "accept"
      /\ UNCHANGED <<ready, did>>

(***************************************************************************)
(* One connection is taken a pass: a terminal that joins, or a request     *)
(***************************************************************************)

Answering ==
  /\ pc = "accept"
  /\ pc' = "draw"
  /\ UNCHANGED ready

\* HD_SLOT: not while a display of that name is here, and not a place another
\* one has taken since.
SlotAnswer(b, s) ==
  LET sl == s.slots[b]
      at == sl.at + s.shift
      taken(c) == \/ Base[c.t] = b
                  \/ at < c.at + c.w /\ c.at < at + sl.w
  IN  IF sl # None /\ ~\E i \in DOMAIN s.cls : taken(s.cls[i]) THEN sl ELSE None

\* dt_dispfree: the first name of this machine no client has.
FreeName(b, s) ==
  LET used == {s.cls[i].k : i \in {j \in DOMAIN s.cls : Base[s.cls[j].t] = b}}
  IN  CHOOSE k \in 1..(Len(s.cls) + 1) :
        k \notin used /\ \A j \in 1..(k - 1) : j \in used

\* A terminal asks, each request on a connection of its own and with anything
\* in between, and is told p in all.
Told(t, p) ==
  /\ Answering
  /\ t \notin Attached(srv)
  /\ plan' = [plan EXCEPT ![t] = p]
  /\ UNCHANGED <<srv, did, owner, left>>
Begins(t) ==
  /\ plan[t] = None
  /\ Cardinality({u \in Term : plan[u] # None}) < MaxAsk
Knows(t, asked) == plan[t] # None /\ plan[t].asked = asked

\* Where a terminal joins: where it was, or at the place given.
Place(t, at) ==
  LET sl == SlotAnswer(Base[t], srv)
  IN  IF sl # None THEN sl.at + srv.shift ELSE at

\* HD_INFO: how wide the session is, for one that joins beside the others.
AskWidth(t, w) ==
  /\ Begins(t)
  /\ Told(t, [multi |-> TRUE, k |-> 1, at |-> Ubox(srv), w |-> w,
              asked |-> "info"])

\* HD_CLIENTS: a name nobody has.
AskNames(t) ==
  /\ Knows(t, "info")
  /\ FreeName(Base[t], srv) <= MaxTwin
  /\ Told(t, [plan[t] EXCEPT !.k = FreeName(Base[t], srv), !.asked = "clients"])

\* HD_SLOT: where it was when it last went, if the session remembers.
AskPlace(t) ==
  /\ Knows(t, "clients")
  /\ Told(t, [plan[t] EXCEPT !.at = Place(t, @), !.asked = "slot"])

\* One that takes over asks for its place only.
AskTakeOver(t, w) ==
  /\ Begins(t)
  /\ Told(t, [multi |-> FALSE, k |-> 1, at |-> Place(t, 0), w |-> w,
              asked |-> "slot"])

\* hd_cclear: everyone is let go, and nobody's place is kept.
Clear(s) == [s EXCEPT !.cls = <<>>, !.told = @ /\ s.cls = <<>>]

\* A mutant: the role is given back and not taken away.
MutJoin(s, c) ==
  LET sl    == s.slots[Base[c.t]]
      back  == /\ sl # None /\ sl.prim
               /\ \E i \in Primaries(s) : s.cls[i].autop
      first == Primaries(s) = {}
  IN  [s EXCEPT !.told = FALSE,
         !.cls = Append(@, [c EXCEPT !.prim = back \/ first,
                              !.autop = first /\ SlotPrim(s, Base[c.t])])]

\* The client HD_ATTACH and HD_MATTACH make: the primary that went takes the
\* role back from a display that is only standing in for it.
Join(s, c) ==
  LET sl    == s.slots[Base[c.t]]
      back  == /\ sl # None /\ sl.prim
               /\ \E i \in Primaries(s) : s.cls[i].autop
      first == Primaries(s) = {}
      new   == [c EXCEPT !.prim = back \/ first,
                         !.autop = first /\ SlotPrim(s, Base[c.t])]
      old   == [i \in DOMAIN s.cls |->
                  IF back /\ s.cls[i].prim
                  THEN [s.cls[i] EXCEPT !.prim = FALSE, !.autop = FALSE]
                  ELSE s.cls[i]]
  IN  [s EXCEPT !.cls = Append(old, new), !.told = FALSE]

\* HD_ATTACH (takes over) and HD_MATTACH (joins), at the place it was told.
Attach(t, f) ==
  LET p == plan[t]
      Still(q, sl) == sl # None /\ q.at = sl.at + srv.shift
      s == IF p.multi THEN srv ELSE Clear(srv)
      c == [t |-> t, k |-> p.k, at |-> p.at, w |-> p.w, prim |-> FALSE,
            autop |-> FALSE, wait |-> TRUE, front |-> NoFront]
      j == Join(s, c)
      n == Poke(Draw(Union(j), IF Moved(j) THEN Term ELSE {t}, f))
  IN  /\ Answering
      /\ Knows(t, "slot") /\ t \notin Attached(srv)
      /\ Through(Union(j), n,
           IF owner = Lost \/ (~p.multi /\ srv.cls # <<>>) THEN Lost
           ELSE IF Primaries(s) = {} /\ ~SlotPrim(s, Base[t]) THEN Base[t]
           ELSE owner)
      /\ plan' = [plan EXCEPT ![t] = None]
      /\ did' = [op |-> "attach", t |-> t, off |-> 0,
                 fresh |-> Still(p, SlotAnswer(Base[t], srv))]

\* hd_cfindname: the first client of that name.
Named(t) ==
  /\ t \in Attached(srv)
  /\ \A i \in 1..(At(srv, t) - 1) :
       ~(Base[srv.cls[i].t] = Base[t] /\ srv.cls[i].k = Of(srv, t).k)

\* A mutant: counted from the corner.
MutMove(t, off, f) ==
  LET i == At(srv, t)
      s == [srv EXCEPT !.cls[i].at = off, !.cls[i].front = NoFront,
                       !.told = FALSE]
  IN  /\ Answering /\ Named(t)
      /\ Through(Union(s), Poke(Draw(Union(s), Term, f)), owner)
      /\ UNCHANGED plan
      /\ did' = [op |-> IF srv.cls[i].prim THEN "moveprim" ELSE "move",
                 t |-> t, off |-> off, fresh |-> TRUE]

\* HD_MOVE: from where the primary is, or from the corner if there is none.
Move(t, off, f) ==
  LET i == At(srv, t)
      o == IF Primaries(srv) = {} THEN 0
           ELSE srv.cls[CHOOSE p \in Primaries(srv) : TRUE].at
      s == [srv EXCEPT !.cls[i].at = o + off, !.cls[i].front = NoFront,
                       !.told = FALSE]
  IN  /\ Answering /\ Named(t)
      /\ Through(Union(s),
                 Poke(Draw(Union(s), IF Moved(s) THEN Term ELSE {t}, f)), owner)
      /\ UNCHANGED plan
      /\ did' = [op |-> IF srv.cls[i].prim THEN "moveprim" ELSE "move",
                 t |-> t, off |-> off, fresh |-> TRUE]

\* HD_DROP: switched off from the panel.
SwitchOff(t) ==
  LET d == Union(Drop(srv, At(srv, t)))
  IN  /\ Answering /\ Named(t)
      /\ Step(Poke(IF Of(srv, t).prim /\ d.cls # <<>> THEN StandIn(d) ELSE d))
      /\ UNCHANGED did

\* HD_PRIMARY: a person chooses, and no one else is remembered as primary.
Choose(t) ==
  LET i == At(srv, t)
      n == [srv EXCEPT
              !.cls = [j \in DOMAIN srv.cls |->
                         [srv.cls[j] EXCEPT !.prim = (j = i), !.autop = FALSE]],
              !.slots = [b \in Machine |->
                           IF srv.slots[b] = None THEN None
                           ELSE [srv.slots[b] EXCEPT !.prim = FALSE]],
              !.told = FALSE]
  IN  /\ Answering /\ Named(t)
      /\ Through(srv, Poke(n), Base[t]) /\ UNCHANGED plan
      /\ UNCHANGED did

\* HD_DETACH from outside: everyone at once.
DetachAll ==
  /\ Answering
  /\ Through(Clear(srv), Clear(srv), IF srv.cls = <<>> THEN owner ELSE Lost)
  /\ UNCHANGED <<plan, did>>

\* HD_COLOURS: every display is repainted when the program next draws.
Colours ==
  /\ Answering
  /\ Step([srv EXCEPT !.cls = [i \in DOMAIN srv.cls |->
                                 [srv.cls[i] EXCEPT !.front = NoFront]]])
  /\ UNCHANGED did

\* No connection, a question that changes nothing, or an upgrade whose exec
\* did not happen.
Quiet == Answering /\ UNCHANGED <<srv, plan, did, owner, left>>

\* HD_UPGRADE, hd_upgrade and hd_resume: the server is replaced, and what the
\* file it leaves does not name is gone.
Upgrade(f) ==
  LET s == [srv EXCEPT
              !.cls = [i \in DOMAIN srv.cls |->
                         [srv.cls[i] EXCEPT !.autop = FALSE, !.wait = FALSE,
                                            !.front = NoFront]],
              !.slots = [b \in Machine |-> None]]
  IN  /\ pc = "accept"
      /\ Through(Union(s), Draw(Union(s), Term, f), Lost)
      /\ pc' = "poll"
      /\ UNCHANGED <<ready, plan, did>>

\* HD_KILL, SIGTERM, or the program has ended: everyone is told and let go.
End ==
  /\ pc \in {"poll", "accept"}
  /\ Through(Clear(srv), Clear(srv), Lost)
  /\ pc' = "ended" /\ ready' = <<>>
  /\ UNCHANGED <<plan, did>>
Ended == pc = "ended" /\ UNCHANGED vars

Accept ==
  \/ \E t \in Term :
       \/ \E w \in Widths : AskWidth(t, w) \/ AskTakeOver(t, w)
       \/ AskNames(t) \/ AskPlace(t)
       \/ \E f \in Fails : Attach(t, f) \/ \E off \in Offsets : Move(t, off, f)
       \/ SwitchOff(t)
       \/ Choose(t)
  \/ DetachAll
  \/ Colours
  \/ Quiet
  \/ \E f \in Fails : Upgrade(f)

\* The end of the pass: everyone is drawn, if the program wrote something and
\* is not in the middle of a frame.
Render ==
  /\ pc = "draw" /\ pc' = "poll"
  /\ \E D \in {{}, Term}, f \in Fails : Step(Draw(srv, D, f))
  /\ did' = Nothing
  /\ UNCHANGED ready

Init ==
  /\ srv = [cls |-> <<>>, slots |-> [b \in Machine |-> None], shift |-> 0,
            gone |-> FALSE, size |-> 0, told |-> TRUE]
  /\ pc = "poll" /\ ready = <<>>
  /\ plan = [t \in Term |-> None]
  /\ did = Nothing
  /\ owner = None
  /\ left = [b \in Machine |-> 0]

Wait(t) == \E f \in {t, None} : Due(t, f)
Polled == \E f \in Fails : Poll(f)
Next ==
  \/ \E t \in Term : Wait(t)
  \/ Polled
  \/ Read
  \/ Settle
  \/ Accept
  \/ Render
  \/ End
  \/ Ended

Spec == Init /\ [][Next]_vars

-----------------------------------------------------------------------------
(***************************************************************************)
(* Properties                                                              *)
(***************************************************************************)

\* Types.
TypeOK ==
  /\ srv.cls \in Seq(Client)
  /\ srv.slots \in [Machine -> Slot \cup {None}]
  /\ srv.shift \in Int /\ srv.size \in Int
  /\ srv.gone \in BOOLEAN /\ srv.told \in BOOLEAN
  /\ pc \in Phase
  /\ ready \in Seq(Term)
  /\ plan \in [Term -> Plan \cup {None}]
  /\ owner \in Machine \cup {None, Lost}
  /\ left \in [Machine -> Int]

\* The arrangement has one primary whenever the server waits with somebody
\* attached and no departure still to put right, and never two, however
\* displays come, go, are chosen and return (hd_conn, hd_loop's gone block).
OnePrimary ==
  /\ \A i, j \in Primaries(srv) : i = j
  /\ pc = "poll" /\ ~srv.gone /\ srv.cls # <<>> => Primaries(srv) # {}

\* The primary's role stays with the display it belongs to through any number
\* of hangups and returns: while that display is attached it is the primary,
\* and while it is away whoever has the role is only standing in (autop).
RoleKept ==
  owner # Lost => \A i \in Primaries(srv) :
            IF \E c \in DOMAIN srv.cls : Base[srv.cls[c].t] = owner
            THEN Base[srv.cls[i].t] = owner
            ELSE srv.cls[i].autop

\* No display is off the edge of the union (Gitea #257), and no place a
\* display is told it was at is, however far the origin was normalised since
\* it went: what is remembered is in the frame the session began with.
OnScreen ==
  /\ \A i \in DOMAIN srv.cls : srv.cls[i].at >= 0
  /\ \A b \in Machine : srv.slots[b] # None => srv.slots[b].at + srv.shift >= 0

\* What was last sent to a display is what its part of the screen was: the
\* next frame is a difference from it, so a display that moved, was moved by
\* a normalisation, or changed its size must start afresh (hd_render).
FrontTrue ==
  \A i \in DOMAIN srv.cls :
    LET c == srv.cls[i] IN c.front # NoFront => c.front = <<c.at, c.w>>

\* While the server waits, the program's terminal is as large as the union of
\* the displays that are attached, and the program has been told, by SIGWINCH,
\* since the last time one came, went, moved or became the primary (hd_union,
\* hd_poke after every change).
Sized ==
  pc = "poll" /\ ~srv.gone /\ srv.cls # <<>> => srv.size = Ubox(srv) /\ srv.told

\* A display that joins with the place it was told, while that is still what
\* it would be told, is where it was when it last went, in the session's own frame.
Returned ==
  did.op = "attach" /\ did.fresh /\ did.t \in Attached(srv)
    => Of(srv, did.t).at - srv.shift = left[Base[did.t]]

\* hold move means the same place whenever it is sent: the display is where
\* it was asked to be, counted from the primary, after any normalisation.
MoveMeans ==
  did.op = "move" /\ did.t \in Attached(srv) /\ Primaries(srv) # {}
    => Of(srv, did.t).at
         = srv.cls[CHOOSE p \in Primaries(srv) : TRUE].at + did.off

\* The displays a step moves, in the frame of the origin the session began with.
Displaced ==
  {t \in Attached(srv) \cap Attached(srv') :
     Of(srv, t).at - srv.shift # Of(srv', t).at - srv'.shift}

\* No display moves relative to the program's content, or to another display,
\* except the one a request moved: normalising shifts them all and the
\* content together (hd_unorm, hd_tm->shift), and an upgrade carries it.
Anchored ==
  [][/\ Cardinality(Displaced) <= 1
     /\ Displaced # {} => pc = "accept" /\ did'.t \in Displaced]_vars

\* The comment at srv.c:88: the arrangement is put right once a pass is over,
\* however a display went.  hd_loop looks at hd_gone before it draws, so one
\* whose send fails while drawing leaves the next poll waiting over it.
Settled == pc = "poll" => ~srv.gone
=============================================================================
