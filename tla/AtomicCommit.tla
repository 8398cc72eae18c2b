---------------------------- MODULE AtomicCommit ----------------------------
(***************************************************************************)
(* What the container promises to its users: operations are applied to     *)
(* memory one at a time, a checkpoint saves all of them at once, a crash   *)
(* goes back to the latest checkpoint, and after an error nothing is saved *)
(* again until the container is mounted anew.                              *)
(***************************************************************************)
CONSTANT Ops

VARIABLES
    mem,        \* operations applied in memory
    disk,       \* operations that survive a crash
    frozen      \* the container is read-only after an abort

vars == <<mem, disk, frozen>>

TypeOK == mem \subseteq Ops /\ disk \subseteq Ops /\ frozen \in BOOLEAN

Init == mem = {} /\ disk = {} /\ frozen = FALSE

Apply(o) ==
    /\ ~frozen
    /\ o \notin mem
    /\ mem' = mem \cup {o}
    /\ UNCHANGED <<disk, frozen>>

Commit ==
    /\ ~frozen
    /\ disk' = mem
    /\ UNCHANGED <<mem, frozen>>

Abort ==
    /\ frozen' = TRUE
    /\ mem' = disk
    /\ UNCHANGED disk

Crash ==
    /\ mem' = disk
    /\ frozen' = FALSE
    /\ UNCHANGED disk

Next == (\E o \in Ops : Apply(o)) \/ Commit \/ Abort \/ Crash

Spec == Init /\ [][Next]_vars
=============================================================================
