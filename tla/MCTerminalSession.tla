------------------------- MODULE MCTerminalSession -------------------------
(***************************************************************************)
(* Small instances of what stands between the terminal and the gateway:    *)
(* the session with its sockets, and the reads.  They share no state here  *)
(* (what a refused read does to the session is an action of                *)
(* TerminalSession), so one of the two moves in a behaviour.               *)
(***************************************************************************)
EXTENDS TerminalSession, HttpReads

VARIABLE reading

\* Three names are enough for the tokens held at a time.
MCTokens == 1..3

MCInit ==
  /\ reading \in BOOLEAN /\ Init /\ ReadInit
  /\ reading => sound /\ cookie   \* one initial state of the session will do

MCNext ==
  /\ UNCHANGED reading
  /\ IF reading THEN ReadNext /\ UNCHANGED vars ELSE Next /\ UNCHANGED readVars

MCSpec == MCInit /\ [][MCNext]_<<reading, vars, readVars>> /\ (reading \/ Fairness) /\ ReadFairness
=============================================================================
