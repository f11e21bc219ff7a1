----------------------------- MODULE AtomicFile -----------------------------
(***************************************************************************)
(* What an atomically published file looks like to a reader: at every       *)
(* instant the path holds either nothing or one complete build, and after a *)
(* crash it holds the last build the disk was told of.  There are no temp   *)
(* files, no partial writes and no page cache here.                         *)
(***************************************************************************)
CONSTANTS
    Complete,      \* complete, verified builds
    Old,           \* what may have stood at the path before
    None           \* the path does not exist

VARIABLES
    visible,       \* what opening the path yields
    durable        \* what opening it would yield after a crash

vars == <<visible, durable>>

Init ==
    /\ visible \in Old \cup {None}
    /\ durable = visible

Replace ==
    /\ visible' \in Complete
    /\ UNCHANGED durable

Flush ==
    /\ durable' = visible
    /\ UNCHANGED visible

Crash ==
    /\ visible' = durable
    /\ UNCHANGED durable

Next == Replace \/ Flush \/ Crash

Spec == Init /\ [][Next]_vars
=============================================================================
