----------------------------- MODULE AccountView -----------------------------
(***************************************************************************)
(* Workspace as a single account meets it.  All requests of all accounts   *)
(* run as before; a history variable remembers which rows have ever been   *)
(* an account's, and what the account can tell from the tables is then one *)
(* AccountLife, the environment Answers assumes for its request.           *)
(***************************************************************************)
EXTENDS Workspace

VARIABLE once   \* history: the rows each account has owned so far

ViewInit == Init /\ once = [u \in Users |-> {}]

Remember == once' = [u \in Users |-> once[u] \cup {r \in Rows : owner'[r] = u}]

ViewNext == Next /\ Remember

ViewSpec == ViewInit /\ [][ViewNext]_<<vars, once>>

-----------------------------------------------------------------------------
KindSeen(u) ==
    CASE account[u] = "identified" -> "signed_in"
      [] account[u] = "deleted"    -> "closed"
      [] OTHER                     -> account[u]

RowSeen(u, r) ==
    IF r \notin once[u] THEN "free"
    ELSE IF owner[r] = u THEN "own"
    ELSE IF owner[r] = Removed THEN "deleted"
    ELSE "other"

Life(u) == INSTANCE AccountLife
    WITH kind <- KindSeen(u),
         session <- [s \in Sessions |-> RowSeen(u, s)],
         file <- [f \in Files |-> RowSeen(u, f)]

(* Whatever the requests of all accounts do, each account meets no more    *)
(* than an AccountLife: no row comes back once it is deleted or handed     *)
(* over, none turns up with a closed account, and what an account gains    *)
(* that it has not created comes by a conversion into it.                  *)
EveryAccountLives ==
    /\ \A u \in Users : Life(u)!Init
    /\ [][\A u \in Users :
              UNCHANGED Life(u)!vars \/ Life(u)!Next]_<<account, owner, once>>

-----------------------------------------------------------------------------
\* A row that was an account's is not created again; it stays the account's,
\* is deleted, or is a signed-in account's.
ViewInv ==
    \A u \in Users, r \in Rows :
        /\ owner[r] = u => r \in once[u]
        /\ r \in once[u] =>
              /\ owner[r] # Nobody
              /\ owner[r] \in Users \ {u} => account[owner[r]] = "identified"
=============================================================================
