------------------------------ MODULE BookFile ------------------------------
(***************************************************************************)
(* The book with a store that keeps whole snapshots: fileBrokerStore       *)
(* (store.go), which replaces the state file by a rename, and the promise  *)
(* BookTables' relational store is held to.                                *)
(***************************************************************************)
EXTENDS BookMemory

CONSTANT LoadMayFail   \* Load may return an error: the engine starts empty

ASSUME FileAssumption == LoadMayFail \in BOOLEAN

VARIABLE disk          \* the snapshot stored, EmptyBook when there is none

fileVars == <<memory, disk>>

ChangeBook == Change /\ UNCHANGED disk
BeginSave == SaveBegin /\ UNCHANGED disk

\* The rename happened, and Save says so.
SaveDone ==
  /\ SaveReturns
  /\ disk' = saving

\* Nothing was written.
SaveFailed == SaveErrs /\ UNCHANGED disk

\* The snapshot is in place although Save reports an error: a commit whose answer
\* was lost.  Only a remote store does this.
SaveUnheard ==
  /\ AnswersLost
  /\ SaveErrs
  /\ disk' = saving

\* A write under way when the process dies is in place or it is not.
Crash ==
  /\ Stop
  /\ disk' = disk \/ (writing /\ disk' = saving)

Restart == Start(disk) /\ UNCHANGED disk

\* load(): "starting empty".
RestartEmpty ==
  /\ LoadMayFail
  /\ Start(EmptyBook)
  /\ UNCHANGED disk

Init == MemoryInit /\ disk = EmptyBook

Next ==
  \/ ChangeBook \/ BeginSave \/ SaveDone \/ SaveFailed \/ SaveUnheard
  \/ Crash \/ Restart \/ RestartEmpty

Spec == Init /\ [][Next]_fileVars

\* The save ticker fires every second; a store that is asked again and again
\* accepts a snapshot some time.
FairSpec == Spec /\ WF_fileVars(BeginSave) /\ SF_fileVars(SaveDone)

-----------------------------------------------------------------------------
BookOK(b) == b.next \in Nat \ {0} /\ DOMAIN b.acc \subseteq Logins

\* Types of the memory side and the store (demoBroker, fileBrokerStore).
TypeOK ==
  /\ BookOK(book) /\ BookOK(saving) /\ BookOK(disk)
  /\ dirty \in BOOLEAN /\ up \in BOOLEAN /\ writing \in BOOLEAN
  /\ era \in Nat /\ issued \in Nat

\* A book that is not marked changed and not on its way to the store is the book
\* the store would hand back: no change made while a save was writing, or before
\* one that failed, is forgotten (save's dirty flag).  Only an engine that could
\* not load, and has not been used, stands for a store it knows nothing of.
ChangesKept ==
  up /\ ~dirty /\ ~writing => disk = book \/ (LoadMayFail /\ book = EmptyBook)

\* ChangesKept made inductive: what is being written is the book unless it
\* changed meanwhile, and a process that is down is not writing.
SaveInv ==
  /\ ChangesKept
  /\ up /\ ~dirty /\ writing => saving = book
  /\ ~up => ~dirty /\ ~writing

=============================================================================
