----------------------------- MODULE HoldStalls -----------------------------
(***************************************************************************)
(* The server of a held session and the peers that make it wait.  It is    *)
(* one thread that reads and writes whole messages (src/mods/hold/wire.c): *)
(* hd_recv reads on until the message it has begun is complete, and hd_wr  *)
(* writes on until its peer has taken all of it.  Neither has a limit, so  *)
(* a peer that sent half a message, or that reads no more, holds up the    *)
(* pass for everyone.  `stalled' is the server in such a call: no step of  *)
(* it happens until that peer goes on or hangs up.                         *)
(***************************************************************************)
EXTENDS HoldServer

VARIABLE stalled   \* the server is in a call its peer has not let it finish

\* A message of a client or of a connection that was accepted, a frame, an
\* answer, or what the program is sent: any phase makes such calls.
Stall == ~stalled /\ pc # "ended" /\ stalled' = TRUE /\ UNCHANGED vars

\* The peer goes on, or hangs up, which is a failed call of the step.
GoOn == stalled /\ stalled' = FALSE /\ UNCHANGED vars

StallInit == Init /\ stalled = FALSE
StallNext ==
  \/ ~stalled /\ Next /\ UNCHANGED stalled
  \/ Stall
  \/ GoOn

\* A pass that has begun goes on, as far as its peers let it.
Goes ==
  /\ ~stalled
  /\ \/ /\ pc = "clients" /\ ready # <<>>
        /\ pc' = pc /\ ready' = Tail(ready)
     \/ /\ \/ pc = "clients" /\ ready = <<>> /\ pc' = "accept"
           \/ pc = "accept" /\ pc' = "draw"
           \/ pc = "draw" /\ pc' = "poll"
        /\ ready' = ready

\* Fairness is strong, because a message is finite: a step that is let go on
\* again and again gets to its end.  Nothing says that a peer does go on.
\* Each pass looks at the deadlines, and the poll does not sleep past one.
Fairness ==
  /\ SF_<<pc, ready>>(Goes)
  /\ \A t \in Term : SF_vars(~stalled /\ Wait(t))

StallSpec == StallInit /\ [][StallNext]_<<vars, stalled>> /\ Fairness

-----------------------------------------------------------------------------
\* A display that joins is not left without a first frame: it says what it
\* draws, or is taken as unasked when it has not said so in time (hd_gfxdue).
Shown ==
  \A t \in Term :
    (t \in Attached(srv) /\ Of(srv, t).wait)
      ~> (t \notin Attached(srv) \/ ~Of(srv, t).wait)

\* However often and however long other peers make the server wait, every
\* display gets its first frame, as long as none of them does so for ever:
\* the deadline is not lost in a pass that was held up (hd_gfxdue).
ShownWhenHeard == []<>~stalled => Shown
=============================================================================
