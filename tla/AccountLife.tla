---------------------------- MODULE AccountLife ----------------------------
(***************************************************************************)
(* One account, as its own requests meet it: what kind of account it is,   *)
(* and whose its sessions and files are.  This is what the requests of an  *)
(* account may rely on whatever other requests and accounts do: AccountView*)
(* shows it of every account of Workspace, and Answers follows a request   *)
(* with it as the environment.                                             *)
(***************************************************************************)
CONSTANTS
    Sessions, Files     \* row ids

VARIABLES
    kind,       \* "none" (yet), "anonymous", "signed_in" or "closed"
    session,    \* session[s], see RowStates
    file        \* file[f], likewise

vars == <<kind, session, file>>

\* "free" has never been the account's, "other" no longer is.
RowStates == {"free", "own", "other", "deleted"}

Open == {"anonymous", "signed_in"}

Init ==
    /\ kind \in {"none"} \cup Open
    /\ session = [s \in Sessions |-> "free"]
    /\ file = [f \in Files |-> "free"]

SignUp(k) ==
    /\ kind = "none" /\ kind' = k
    /\ UNCHANGED <<session, file>>

CreateSession(s) ==
    /\ kind \in Open /\ session[s] = "free"
    /\ session' = [session EXCEPT ![s] = "own"]
    /\ UNCHANGED <<kind, file>>

CreateFile(f) ==
    /\ kind \in Open /\ file[f] = "free"
    /\ file' = [file EXCEPT ![f] = "own"]
    /\ UNCHANGED <<kind, session>>

\* By the account itself or, later, the one that has taken over its rows.
DeleteSession(s) ==
    /\ session[s] \in {"own", "other"}
    /\ session' = [session EXCEPT ![s] = "deleted"]
    /\ UNCHANGED <<kind, file>>

DeleteFile(f) ==
    /\ file[f] \in {"own", "other"}
    /\ file' = [file EXCEPT ![f] = "deleted"]
    /\ UNCHANGED <<kind, session>>

Those(state) ==
    {s \in Sessions : session[s] = state} \cup {f \in Files : file[f] = state}

Gained(rows, moved) ==
    [r \in DOMAIN rows |-> IF rows[r] = "free" /\ r \in moved THEN "own" ELSE rows[r]]

Handed(rows, moved) ==
    [r \in DOMAIN rows |-> IF rows[r] # "own" THEN rows[r]
                           ELSE IF r \in moved THEN "other" ELSE "deleted"]

\* migrateAnonymousAccount, committed: another account's rows come over.
TakeOver(moved) ==
    /\ kind = "signed_in" /\ moved \subseteq Those("free") /\ moved # {}
    /\ session' = Gained(session, moved) /\ file' = Gained(file, moved)
    /\ UNCHANGED kind

\* The same seen from the other side: late rows go with the account.
Close(moved) ==
    /\ kind = "anonymous" /\ moved \subseteq Those("own")
    /\ kind' = "closed"
    /\ session' = Handed(session, moved) /\ file' = Handed(file, moved)

Next ==
    \/ \E k \in Open : SignUp(k)
    \/ \E s \in Sessions : CreateSession(s) \/ DeleteSession(s)
    \/ \E f \in Files : CreateFile(f) \/ DeleteFile(f)
    \/ \E moved \in SUBSET (Sessions \cup Files) : TakeOver(moved) \/ Close(moved)

Spec == Init /\ [][Next]_vars
=============================================================================
