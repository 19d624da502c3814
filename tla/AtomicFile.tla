----------------------------- MODULE AtomicFile -----------------------------
(* replace_locked of sys_storage.c, one action per file operation, with a      *)
(* failing call or a power cut possible at every one of them.  The contents    *)
(* are versions: the n-th replace writes version n, and 0 means no such file.  *)
EXTENDS Naturals, TwoPhase

CONSTANT MaxWrites     \* bound on the replaces a behaviour asks for

ASSUME MaxWritesAssumption == MaxWrites \in Nat

VARIABLES
  main,    \* the version under the file's own name
  bak,     \* the version under the .bak name
  tmp,     \* the version whole under the .tmp name; a torn one counts as 0
  pc,      \* where the running replace stands
  asked,   \* the version of the last replace asked for
  acked,   \* the last version whose replace answered ESP_OK
  base,    \* what a reader would have found when that replace began
  answer   \* what it told its caller: nothing while it runs, or once it is cut

vars == <<main, bak, tmp, pc, asked, acked, base, answer>>

Versions == 0..MaxWrites
Steps == {"idle", "written", "unlinked", "aside", "placed"}
Answers == {"nothing", "ok", "failed"}

TypeOK ==
  /\ main \in Versions /\ bak \in Versions /\ tmp \in Versions
  /\ pc \in Steps
  /\ asked \in Versions /\ acked \in Versions
  /\ base \in Registers(Versions)
  /\ answer \in Answers

(* What a reader finds now: the main name first, then the .bak name. *)
\* Faulty form, for trying the properties: The .bak name is read first.
BakFirst ==
  IF bak # 0 THEN [at |-> "bak", val |-> bak]
  ELSE IF main # 0 THEN Finished(main)
  ELSE NoFile(0)
Register ==
  IF main # 0 THEN Finished(main)
  ELSE IF bak # 0 THEN [at |-> "bak", val |-> bak]
  ELSE NoFile(0)

Init ==
  /\ main = 0 /\ bak = 0 /\ tmp = 0
  /\ pc = "idle"
  /\ asked = 0 /\ acked = 0
  /\ base = NoFile(0)
  /\ answer = "nothing"

(* write_whole puts the new version, synced, under the .tmp name.              *)
WriteScratch ==
  /\ pc = "idle" /\ asked < MaxWrites
  /\ asked' = asked + 1 /\ tmp' = asked'
  /\ base' = Register
  /\ pc' = "written" /\ answer' = "nothing"
  /\ UNCHANGED <<main, bak, acked>>

(* It fails and the scratch file is unlinked, or the power goes before the     *)
(* sync: the .tmp name holds nothing that a later replace would keep.          *)
WriteScratchFails ==
  /\ pc = "idle" /\ asked < MaxWrites
  /\ asked' = asked + 1 /\ tmp' = 0
  /\ base' = Register
  /\ answer' \in {"failed", "nothing"}
  /\ UNCHANGED <<main, bak, pc, acked>>

UnlinkPrevious ==
  /\ pc = "written" /\ pc' = "unlinked"
  /\ bak' = 0
  /\ UNCHANGED <<main, tmp, asked, acked, base, answer>>

(* The answer of this rename is not looked at: with no file under the main     *)
(* name it fails, and it may fail for a reason of its own.                     *)
StepAside ==
  /\ pc = "unlinked" /\ pc' = "aside"
  /\ \/ main # 0 /\ bak' = main /\ main' = 0
     \/ UNCHANGED <<main, bak>>
  /\ UNCHANGED <<tmp, asked, acked, base, answer>>

TakePlace ==
  /\ pc = "aside" /\ pc' = "placed"
  /\ main' = tmp /\ tmp' = 0
  /\ UNCHANGED <<bak, asked, acked, base, answer>>

AnswerOk ==
  /\ pc = "placed" /\ pc' = "idle"
  /\ acked' = asked /\ answer' = "ok"
  /\ UNCHANGED <<main, bak, tmp, asked, base>>

(* The last rename fails: the scratch file is unlinked and the caller told. *)
TakePlaceFails ==
  /\ pc = "aside" /\ pc' = "idle"
  /\ tmp' = 0 /\ answer' = "failed"
  /\ UNCHANGED <<main, bak, asked, acked, base>>

(* The power goes in the middle of a replace; what the names hold stays. *)
PowerCut ==
  /\ pc # "idle" /\ pc' = "idle"
  /\ UNCHANGED <<main, bak, tmp, asked, acked, base, answer>>

Next ==
  \/ WriteScratch \/ WriteScratchFails \/ UnlinkPrevious \/ StepAside
  \/ TakePlace \/ AnswerOk \/ TakePlaceFails \/ PowerCut

Spec == Init /\ [][Next]_vars

-----------------------------------------------------------------------------
(* A reader never finds a version older than one a writer was told is kept: an *)
(* unfinished replace may lose the file, but it never rolls it back.           *)
NeverRolledBack == Register.at # "none" => Register.val >= acked

(* One unfinished replace, cut or failing at any point, leaves a whole version *)
(* to read; losing it takes a second one before any replace has gone through.  *)
OneUnfinishedReplaceKeepsACopy ==
  acked # 0 /\ Register.at = "none" => asked - acked >= 2

(* At every moment of a replace, and however it is cut short, a reader finds   *)
(* one of the outcomes TwoPhase lists for what stood there when it began.      *)
OutcomesCovered ==
  /\ Register \in Cut(base, asked, 0)
  /\ answer = "ok" => Register = Finished(asked)
  /\ answer = "failed" => Register \in Failed(base, 0)

(* A reader that holds the lock (load_cursor) meets no replace under way: for  *)
(* it a replace is one step, at the end or at the cut, with such an outcome.   *)
Whole == INSTANCE ReplacedFile WITH
  held <- IF pc = "idle" THEN Register ELSE base,
  tried <- IF pc = "idle" THEN asked ELSE asked - 1,
  told <- acked
ReplacesInOneStep == Whole!ReplaceSpec
=============================================================================
