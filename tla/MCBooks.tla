------------------------------- MODULE MCBooks -------------------------------
(***************************************************************************)
(* Small instances of the saved book: a store of whole snapshots, or the   *)
(* tables.                                                                 *)
(***************************************************************************)
EXTENDS BookTables

CONSTANT MaxShared   \* bound: the next ticket once the second account is in use

ASSUME MCAssumption == MaxShared \in Nat

VARIABLE store

rows == <<tables, persisted, resets, tie>>

MCInit == store \in {"file", "tables"} /\ TablesInit

MCNext ==
  /\ UNCHANGED store
  \* One account is enough for whole snapshots.
  /\ IF store = "file" THEN Next /\ UNCHANGED rows /\ DOMAIN book'.acc \subseteq Resettable
     ELSE TablesNext /\ (DOMAIN book'.acc \subseteq Resettable \/ book'.next <= MaxShared)

\* The store takes a snapshot, and says so.
Accepts ==
  /\ UNCHANGED store
  /\ IF store = "file" THEN SaveDone /\ UNCHANGED rows
     ELSE tie # "broken" /\ Commit /\ disk' = Loaded'

MCSpec ==
  /\ MCInit /\ [][MCNext]_<<store, tablesVars>>
  /\ WF_fileVars(BeginSave) /\ SF_<<store, tablesVars>>(Accepts)
=============================================================================
