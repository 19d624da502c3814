----------------------------- MODULE ReplacedFile -----------------------------
(* A replace as its callers and the boot after a cut know it: one step, whose   *)
(* outcomes TwoPhase lists.  AttendLog writes cursor.bin and boot.bin this way; *)
(* AtomicFile, with one step for each file operation, is shown to implement it. *)
EXTENDS Naturals, TwoPhase

VARIABLES
  held,   \* what a reader finds once the file's lock is free
  tried,  \* replaces that have ended, well or badly
  told    \* the last one its caller was told is kept

fileVars == <<held, tried, told>>

ReplaceInit == held = NoFile(0) /\ tried = 0 /\ told = 0

Replaced ==
  /\ tried' = tried + 1 /\ told' = tried'
  /\ held' = Finished(tried')

NotReplaced ==
  /\ tried' = tried + 1 /\ UNCHANGED told
  /\ held' \in Failed(held, 0)

(* The power goes: the new version may stand all the same, and nobody is told. *)
CutShort ==
  /\ tried' = tried + 1 /\ UNCHANGED told
  /\ held' \in Cut(held, tried', 0)

ReplaceSpec == ReplaceInit /\ [][Replaced \/ NotReplaced \/ CutShort]_fileVars
=============================================================================
