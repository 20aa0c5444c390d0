---------------------------- MODULE FileLifecycle ----------------------------
(***************************************************************************)
(* What the file store promises about the body of a file, with one store   *)
(* and one step per change: a body becomes readable at once, stays so      *)
(* until it is removed, and is removed for good; its client is told later, *)
(* or never, and never of a body that nobody could read; what a removal    *)
(* leaves in the bucket stays there.  FileStore implements this with two   *)
(* stores and requests that fail in between.                               *)
(***************************************************************************)
CONSTANT Files

VARIABLES
    status,     \* status[f]: "none", "pending", "readable", and once it is
                \* deleted "removed", or "dropped" if it never was readable
    told,       \* the files a client was told of
    stranded    \* deleted files that left an object nobody will delete

vars == <<status, told, stranded>>

Init ==
    /\ status = [f \in Files |-> "none"]
    /\ told = {} /\ stranded = {}

Begin(f) ==
    /\ status[f] = "none"
    /\ status' = [status EXCEPT ![f] = "pending"]
    /\ UNCHANGED <<told, stranded>>

\* At once for a small body, after Begin for an offloaded one.
Publish(f) ==
    /\ status[f] \in {"none", "pending"}
    /\ status' = [status EXCEPT ![f] = "readable"]
    /\ UNCHANGED <<told, stranded>>

\* Others may have removed it since.
Tell(f) ==
    /\ status[f] \in {"readable", "removed"}
    /\ told' = told \cup {f}
    /\ UNCHANGED <<status, stranded>>

Remove(f) ==
    /\ status[f] \in {"pending", "readable"}
    /\ status' = [status EXCEPT ![f] = IF @ = "pending" THEN "dropped" ELSE "removed"]
    /\ stranded' \in {stranded, stranded \cup {f}}
    /\ UNCHANGED told

\* The object's deletion failed, or the upload came after the removal.  A
\* restart does this to several files.
Strand(F) ==
    /\ \A f \in F : status[f] \in {"removed", "dropped"}
    /\ stranded' = stranded \cup F
    /\ UNCHANGED <<status, told>>

Next ==
    \/ \E f \in Files : Begin(f) \/ Publish(f) \/ Tell(f) \/ Remove(f)
    \/ \E F \in SUBSET Files : Strand(F)

Spec == Init /\ [][Next]_vars
=============================================================================
