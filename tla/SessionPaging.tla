---------------------------- MODULE SessionPaging ----------------------------
(***************************************************************************)
(* A client reads the history list page by page, each page a request with  *)
(* the cursor of the one before, while sessions are created and deleted    *)
(* and the anonymous account it may be reading is converted.  The pages    *)
(* are sets; the order inside one is Above.                                *)
(*                                                                         *)
(* Left out: message counts and last messages; other accounts' lists.      *)
(***************************************************************************)
EXTENDS Naturals, FiniteSets

CONSTANTS
    MaxId,       \* bound: sessions ever created; ids are handed out in order
    MaxTime,     \* bound: the clock
    SESSIONS_PAGE_SIZE, MAX_SESSIONS_PAGE_SIZE,
    Limits       \* ?limit= values; 0 is missing, non-numeric or below 1

Sessions == 1..MaxId

ASSUME ConstantsOK ==
    /\ MaxId \in Nat /\ MaxTime \in Nat /\ Limits \subseteq Nat
    /\ SESSIONS_PAGE_SIZE \in 1..MAX_SESSIONS_PAGE_SIZE
    /\ MAX_SESSIONS_PAGE_SIZE \in Nat

VARIABLES
    owner,      \* an id not given out, a deleted row, or the owner's account
    updatedAt,  \* of every row; only the conversion updates one
    clock,      \* in milliseconds: rows may share one
    converted,  \* whether the anonymous account has been migrated
    user,       \* whose token the client holds
    cursor,     \* of the next page; 0 is none
    scan,       \* "no" list read yet, "open" with a nextCursor, "ended"
    seen, page, \* the sessions of the earlier pages and of the last one
    start,      \* history: the sessions in the list when the scan began
    cut         \* history: a page was asked for behind a deleted session

vars == <<owner, updatedAt, clock, converted,
          user, cursor, scan, seen, page, start, cut>>
client == <<user, cursor, scan, seen, page, start, cut>>

-----------------------------------------------------------------------------
Accounts == {"anonymous", "identified"}
Listed(u) == {s \in Sessions : owner[s] = u}

\* orderBy: [{ updatedAt: 'desc' }, { id: 'desc' }]
Above(r, s) == updatedAt[r] > updatedAt[s] \/ (updatedAt[r] = updatedAt[s] /\ r > s)

\* The first n rows of S in this order.
First(S, n) == {s \in S : Cardinality({r \in S : Above(r, s)}) < n}

\* Mutant: the page size is taken as it comes.
TakeAsked(limit) == IF limit >= 1 THEN limit ELSE SESSIONS_PAGE_SIZE

Take(limit) ==
    IF limit < 1 THEN SESSIONS_PAGE_SIZE
    ELSE IF limit > MAX_SESSIONS_PAGE_SIZE THEN MAX_SESSIONS_PAGE_SIZE
    ELSE limit

\* Mutant: cursor without skip: the cursor's row comes again.
FindManyAtCursor(u, n) ==
    First({s \in Listed(u) : cursor = 0
                             \/ (owner[cursor] \in Accounts /\ ~ Above(s, cursor))}, n)

\* Prisma's cursor: rows from the cursor's row on, of which skip: 1 leaves
\* out the first; none at all when the cursor's row is gone.
FindMany(u, n) ==
    First({s \in Listed(u) : cursor = 0
                             \/ (owner[cursor] \in Accounts /\ Above(cursor, s))}, n)

-----------------------------------------------------------------------------
Init ==
    /\ owner = [s \in Sessions |-> "unused"]
    /\ updatedAt = [s \in Sessions |-> 0]
    /\ clock = 0
    /\ converted = FALSE
    /\ user \in Accounts
    /\ cursor = 0 /\ scan = "no"
    /\ seen = {} /\ page = {} /\ start = {}
    /\ cut = FALSE

\* The conversion closes the anonymous account: no new session for it.
CreateSession(u) ==
    /\ u = "anonymous" => ~ converted
    /\ \E s \in Sessions :
          /\ owner[s] = "unused"
          /\ \A r \in Sessions : r < s => owner[r] # "unused"
          /\ owner' = [owner EXCEPT ![s] = u]
          /\ updatedAt' = [updatedAt EXCEPT ![s] = clock]
    /\ UNCHANGED <<clock, converted, client>>

DeleteSession(s) ==
    /\ owner[s] \in Accounts
    /\ owner' = [owner EXCEPT ![s] = "deleted"]
    /\ UNCHANGED <<updatedAt, clock, converted, client>>

\* updateMany stamps every moved row with one updatedAt.  The client that
\* held the anonymous token reads on with the other; a client of the target
\* account sees the rows come in on top.
Migrate ==
    /\ ~ converted
    /\ converted' = TRUE
    /\ owner' = [s \in Sessions |->
                   IF owner[s] = "anonymous" THEN "identified" ELSE owner[s]]
    /\ updatedAt' = [s \in Sessions |->
                       IF owner[s] = "anonymous" THEN clock ELSE updatedAt[s]]
    /\ user' = "identified"
    /\ UNCHANGED <<clock, cursor, scan, seen, page, start, cut>>

Tick ==
    /\ clock < MaxTime
    /\ clock' = clock + 1
    /\ UNCHANGED <<owner, updatedAt, converted, client>>

-----------------------------------------------------------------------------
\* Mutant: the next page starts behind the lookahead row.
AnswerBehindLookahead(limit) ==
    LET take == Take(limit)
        sessions == FindMany(user, take + 1)
        hasMore == Cardinality(sessions) > take
    IN  /\ page' = First(sessions, take)
        /\ cursor' = IF hasMore
                     THEN CHOOSE s \in sessions : \A r \in sessions \ {s} : Above(r, s)
                     ELSE 0
        /\ scan' = IF hasMore THEN "open" ELSE "ended"

Answer(limit) ==
    LET take == Take(limit)
        sessions == FindMany(user, take + 1)
        hasMore == Cardinality(sessions) > take
    IN  /\ page' = First(sessions, take)
        /\ cursor' = IF hasMore
                     THEN CHOOSE s \in page' : \A r \in page' \ {s} : Above(r, s)
                     ELSE 0
        /\ scan' = IF hasMore THEN "open" ELSE "ended"

FirstPage(limit) ==
    /\ scan = "no"
    /\ Answer(limit)
    /\ start' = Listed(user)
    /\ UNCHANGED <<owner, updatedAt, clock, converted, user, seen, cut>>

NextPage(limit) ==
    /\ scan = "open"
    /\ Answer(limit)
    /\ seen' = seen \cup page
    /\ cut' = (cut \/ owner[cursor] \notin Accounts)
    /\ UNCHANGED <<owner, updatedAt, clock, converted, user, start>>

Next ==
    \/ \E u \in Accounts : CreateSession(u)
    \/ \E s \in Sessions : DeleteSession(s)
    \/ Migrate
    \/ Tick
    \/ \E limit \in Limits : FirstPage(limit) \/ NextPage(limit)

Spec == Init /\ [][Next]_vars

-----------------------------------------------------------------------------
TypeOK ==
    /\ owner \in [Sessions -> Accounts \cup {"unused", "deleted"}]
    /\ updatedAt \in [Sessions -> 0..MaxTime]
    /\ clock \in 0..MaxTime
    /\ converted \in BOOLEAN
    /\ user \in Accounts
    /\ cursor \in Sessions \cup {0}
    /\ scan \in {"no", "open", "ended"} /\ (scan = "open" <=> cursor # 0)
    /\ seen \subseteq Sessions /\ page \subseteq Sessions /\ start \subseteq Sessions
    /\ Cardinality(page) <= MAX_SESSIONS_PAGE_SIZE
    /\ cut \in BOOLEAN

(* "One page of sessions, newest first": no page repeats a session, and    *)
(* what it shows comes behind all that earlier pages showed and that still *)
(* exists, also across a conversion that has re-stamped half of the scan.  *)
PagesDescend ==
    \A r \in seen, s \in page :
        /\ r # s
        /\ owner[r] \in Accounts /\ owner[s] \in Accounts => Above(r, s)

Missed == {s \in start \ (seen \cup page) : owner[s] \in Accounts}

(* A scan that ended has shown every session that was there all along,     *)
(* unless a page was asked for behind a session deleted in the meantime.   *)
NothingMissed == scan = "ended" /\ ~ cut => Missed = {}

(* chat.service.spec.ts: "returns a cursor when there is more".  When the  *)
(* last session of a page is deleted before the next page is asked for,    *)
(* the answer is an empty page without a cursor, whatever lies behind it.  *)
CursorWhenMore == scan = "ended" => Missed = {}

-----------------------------------------------------------------------------
(* The inductive invariant of SessionPagingProofs.                         *)

\* Ids are handed out in the order of creation; until the conversion no row
\* is younger than its followers.
CreationOrder ==
    /\ \A s \in Sessions : updatedAt[s] <= clock
    /\ \A r, s \in Sessions : r < s /\ owner[r] = "unused" => owner[s] = "unused"
    /\ ~ converted => \A r, s \in Sessions :
          r < s /\ owner[s] # "unused" => updatedAt[r] <= updatedAt[s]

\* The rows of a scan stay with the account the client reads.
ScanOwner ==
    /\ converted => user = "identified" /\ \A s \in Sessions : owner[s] # "anonymous"
    /\ \A s \in seen \cup page \cup start : owner[s] \in {user, "deleted"}

\* The cursor is the last row of its page; what was there from the start and
\* is not shown yet lies behind it.
CursorInv ==
    /\ scan = "no" => page = {} /\ seen = {}
    /\ scan = "open" =>
          /\ cursor \in page
          /\ owner[cursor] \in Accounts =>
                /\ \A r \in page \ {cursor} : owner[r] \in Accounts => Above(r, cursor)
                /\ ~ cut => \A s \in Missed : Above(cursor, s)

IInv ==
    /\ TypeOK /\ CreationOrder /\ ScanOwner /\ CursorInv
    /\ PagesDescend /\ NothingMissed
=============================================================================
