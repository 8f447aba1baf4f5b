------------------------------ MODULE URLStore ------------------------------
(***************************************************************************)
(* What the URL shortener promises about its links when it is given a file *)
(* (internal/shortener): a link lives in memory with its click count; at   *)
(* any time a checkpoint may bring the file nearer to the memory, and a    *)
(* restart of the server falls back to the file.  A checkpoint is not a    *)
(* snapshot: each link may be saved as it was at a moment of its own, but  *)
(* never as it was before the previous checkpoint, never ahead of memory,  *)
(* and a link in memory that the file knows stays in the file.             *)
(***************************************************************************)
EXTENDS Integers

CONSTANT Ids        \* the links

VARIABLES
    mem,    \* click count of each link in memory, or Absent
    disk    \* click count of each link in the file, or Absent

vars == <<mem, disk>>

Absent == -1

Counts == Nat \cup {Absent}

Init ==
    /\ mem = [i \in Ids |-> Absent]
    /\ disk = [i \in Ids |-> Absent]

Create(i) ==
    /\ mem[i] = Absent /\ disk[i] = Absent
    /\ mem' = [mem EXCEPT ![i] = 0]
    /\ UNCHANGED disk

Click(i) ==
    /\ mem[i] /= Absent
    /\ mem' = [mem EXCEPT ![i] = @ + 1]
    /\ UNCHANGED disk

Forget(gone) ==
    /\ mem' = [i \in Ids |-> IF i \in gone THEN Absent ELSE mem[i]]
    /\ UNCHANGED disk

\* The counts the file may hold for link i after a checkpoint.
MaySave(i, n) ==
    IF mem[i] = Absent
    THEN n = Absent \/ disk[i] <= n
    ELSE disk[i] <= n /\ n <= mem[i]

Checkpoint ==
    /\ disk' \in [Ids -> Counts]
    /\ \A i \in Ids : MaySave(i, disk'[i])
    /\ UNCHANGED mem

Restart == mem' = disk /\ UNCHANGED disk

Next ==
    \/ \E i \in Ids : Create(i)
    \/ \E i \in Ids : Click(i)
    \/ \E gone \in SUBSET Ids : Forget(gone)
    \/ Checkpoint
    \/ Restart

Spec == Init /\ [][Next]_vars
=============================================================================
