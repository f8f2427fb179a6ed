----------------------------- MODULE DiskWrite ------------------------------
(***************************************************************************)
(* What a backup writer promises of one pass over a disk: its context ends *)
(* normally only when every chunk is on the disk, and nothing reaches the  *)
(* disk after that.  A pass which fails may have written anything.         *)
(***************************************************************************)
CONSTANT Chunks

VARIABLES
  disk,    \* the chunks on the disk
  outcome  \* "open", "done" or "failed"

Init == disk = {} /\ outcome = "open"

Store(c) ==
  /\ outcome # "done"
  /\ disk' = disk \cup {c}
  /\ UNCHANGED outcome

Finish ==
  /\ outcome = "open"
  /\ disk = Chunks
  /\ outcome' = "done"
  /\ UNCHANGED disk

Fail ==
  /\ outcome = "open"
  /\ outcome' = "failed"
  /\ UNCHANGED disk

Next == Finish \/ Fail \/ \E c \in Chunks : Store(c)

Spec == Init /\ [][Next]_<<disk, outcome>>
=============================================================================
