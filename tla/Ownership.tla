------------------------------ MODULE Ownership ------------------------------
(***************************************************************************)
(* What the backend promises about accounts and the rows they own, with    *)
(* every operation in one step: an account is opened, a row is created for *)
(* it or removed, and converting an anonymous account hands its rows over  *)
(* to a signed-in one and closes it.  Workspace implements this with       *)
(* requests that interleave between their database calls.                  *)
(***************************************************************************)
CONSTANTS
    Users,      \* account ids
    Rows,       \* ids of chat sessions and files
    Nobody,     \* owner of a row that has not been created yet
    Removed     \* owner of a row that has been deleted

VARIABLES
    account,    \* account[u]: "none", "anonymous", "identified" or "deleted"
    owner       \* owner[r]: the account whose row it is, Nobody or Removed

vars == <<account, owner>>

Init ==
    /\ account = [u \in Users |-> "none"]
    /\ owner = [r \in Rows |-> Nobody]

Open(u, kind) ==
    /\ account[u] = "none"
    /\ account' = [account EXCEPT ![u] = kind]
    /\ UNCHANGED owner

Create(r, u) ==
    /\ owner[r] = Nobody
    /\ account[u] \in {"anonymous", "identified"}
    /\ owner' = [owner EXCEPT ![r] = u]
    /\ UNCHANGED account

Remove(r) ==
    /\ owner[r] \in Users
    /\ owner' = [owner EXCEPT ![r] = Removed]
    /\ UNCHANGED account

\* The rows in kept go to target; any other row of source goes with it.
Convert(source, target, kept) ==
    /\ account[source] = "anonymous"
    /\ account[target] = "identified"
    /\ kept \subseteq {r \in Rows : owner[r] = source}
    /\ owner' = [r \in Rows |-> IF r \in kept THEN target
                                ELSE IF owner[r] = source THEN Removed
                                ELSE owner[r]]
    /\ account' = [account EXCEPT ![source] = "deleted"]

Next ==
    \/ \E u \in Users, kind \in {"anonymous", "identified"} : Open(u, kind)
    \/ \E r \in Rows, u \in Users : Create(r, u)
    \/ \E r \in Rows : Remove(r)
    \/ \E source, target \in Users, kept \in SUBSET Rows :
          Convert(source, target, kept)

Spec == Init /\ [][Next]_vars
=============================================================================
