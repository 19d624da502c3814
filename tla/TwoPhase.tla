------------------------------ MODULE TwoPhase ------------------------------
(* What replace_locked of sys_storage.c leaves behind, as a set of outcomes.   *)
(* A file written in two phases is a register: whole under its own name        *)
(* ("main"), whole under the .bak name only ("bak"), or whole under neither    *)
(* ("none").  A reader takes the main name first and the .bak name second.     *)
(* AtomicFile checks, step by step, that these are all the outcomes there are. *)

Places == {"main", "bak", "none"}

Registers(V) == [at : Places, val : V]

(* Both renames went through. *)
Finished(v) == [at |-> "main", val |-> v]

(* A reader that finds no whole file under either name falls back to "blank".  *)
NoFile(blank) == [at |-> "none", val |-> blank]

(* The replace answered an error: the scratch file never came whole, or the    *)
(* last rename failed after the old copy had stepped aside or been unlinked.   *)
Failed(r, blank) ==
  {r, IF r.at = "main" THEN [at |-> "bak", val |-> r.val] ELSE NoFile(blank)}

(* The power went at some moment of the replace. *)
Cut(r, v, blank) == Failed(r, blank) \cup {Finished(v)}
=============================================================================
