------------------------------- MODULE HotSwap -------------------------------
(***************************************************************************)
(* What the Service promises its callers, with no handles, mutex or timers: *)
(* "the file can be hot-swapped without dropping in-flight lookups".  There *)
(* is one current database; a lookup is answered from the database that was *)
(* current at one instant between its call and its return.  It fails only   *)
(* if that database has a record that does not decode, or if the service    *)
(* has been closed: a swap never makes a lookup fail.                       *)
(***************************************************************************)
CONSTANTS
    Client,        \* request goroutines
    Version,       \* the files the databases were opened from
    None,          \* no lookup, no answer yet
    Failed,        \* an error
    Crashed        \* a fault

VARIABLES
    current,       \* the database being served
    open,          \* FALSE once the service is closed
    bound,         \* the database a lookup in flight will be answered from
    answer         \* what each client's last lookup returned

vars == <<current, open, bound, answer>>

\* A database is sound when each of its records decodes.
Database == [version : Version, sound : BOOLEAN]

Init ==
    /\ current \in Database
    /\ open = TRUE
    /\ bound = [l \in Client |-> None]
    /\ answer = [l \in Client |-> None]

Install ==
    /\ open
    /\ current' \in Database
    /\ UNCHANGED <<open, bound, answer>>

Shut ==
    /\ open' = FALSE
    /\ UNCHANGED <<current, bound, answer>>

Bind(l) ==
    /\ bound[l] = None
    /\ bound' = [bound EXCEPT ![l] = current]
    /\ UNCHANGED <<current, open, answer>>

\* What a lookup bound to d may return.
Replies(d) ==
    {d.version} \cup (IF d.sound THEN {} ELSE {Failed})
                \cup (IF open THEN {} ELSE {Failed, Crashed})

Reply(l) ==
    /\ bound[l] # None
    /\ \E a \in Replies(bound[l]) : answer' = [answer EXCEPT ![l] = a]
    /\ bound' = [bound EXCEPT ![l] = None]
    /\ UNCHANGED <<current, open>>

Next ==
    \/ Install
    \/ Shut
    \/ \E l \in Client : Bind(l) \/ Reply(l)

(***************************************************************************)
(* A lookup that has begun returns.                                         *)
(***************************************************************************)
Spec == Init /\ [][Next]_vars
FairSpec == Spec /\ \A l \in Client : WF_vars(Reply(l))
=============================================================================
