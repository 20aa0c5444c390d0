------------------------------ MODULE Workspace ------------------------------
(***************************************************************************)
(* Accounts, the chat sessions and files they own, the anonymous quotas    *)
(* and the migration of an anonymous account, as the concurrent requests   *)
(* of one Node process change them in Postgres.  A handler is cut at every *)
(* await on the database, because another request may run there.           *)
(*                                                                         *)
(* Left out: message texts (Exchange), file bodies (FileStore), API keys.  *)
(***************************************************************************)
EXTENDS Naturals, FiniteSets

CONSTANTS
    Users, Sessions, Files,          \* row ids of the three tables (cuid)
    Slots,                           \* the requests that can run at once
    MaxChatSessions, MaxFiles,       \* limitsFor(true)
    Nobody, Removed                  \* no account / a deleted row's owner

Rows == Sessions \cup Files

ASSUME ConstantsOK ==
    /\ IsFiniteSet(Sessions) /\ IsFiniteSet(Files)
    /\ IsFiniteSet(Slots) /\ Slots # {}
    /\ Sessions \cap Files = {}
    /\ Nobody \notin Users \cup Rows /\ Removed \notin Users
    /\ Nobody # Removed
    /\ MaxChatSessions \in Nat /\ MaxFiles \in Nat

VARIABLES
    account,  \* the users table: no email is anonymous, an email identified
    owner,    \* userId of every row of chat_sessions and files
    late,     \* history: rows created behind a migration's updateMany
    pc,       \* the await each request is at
    who,      \* user.id of the request (CurrentUser)
    row,      \* the session of a prompt, or the row a delete looked up
    source,   \* the anonymous account a migration empties
    moved     \* rows updated by a transaction that has not committed

vars == <<account, owner, late, pc, who, row, source, moved>>

-----------------------------------------------------------------------------
Kinds == {"chat_sessions", "files"}
Table(k) == IF k = "chat_sessions" THEN Sessions ELSE Files
Limit(k) == IF k = "chat_sessions" THEN MaxChatSessions ELSE MaxFiles
InsertPc(k) == IF k = "chat_sessions" THEN "insertSession" ELSE "insertFile"

Live == {"anonymous", "identified"}
Owned(u, k) == {r \in Table(k) : owner[r] = u}

PromptPcs == {"session", "insertSession", "ask", "answer",
              "artifacts", "insertFile"}
TxPcs == {"txSessions", "txFiles", "txDelete"}
MigratePcs == {"checkSource", "checkTarget"} \cup TxPcs
Pcs == {"idle", "delete"} \cup PromptPcs \cup MigratePcs

\* The transactions that have run updateMany on the table of kind k.
PastUpdate(k) ==
    IF k = "chat_sessions" THEN {"txFiles", "txDelete"} ELSE {"txDelete"}

\* An updated row stays locked until its transaction ends.
LockedByOther(p, r) == \E q \in Slots \ {p} : r \in moved[q]

Init ==
    /\ account = [u \in Users |-> "none"]
    /\ owner = [r \in Rows |-> Nobody]
    /\ late = {}
    /\ pc = [p \in Slots |-> "idle"]
    /\ who = [p \in Slots |-> Nobody]
    /\ row = [p \in Slots |-> Nobody]
    /\ source = [p \in Slots |-> Nobody]
    /\ moved = [p \in Slots |-> {}]

Goto(p, l) == pc' = [pc EXCEPT ![p] = l]

\* Mutant: the request leaves its source account behind.
ReleaseKeepsSource(p) ==
    /\ Goto(p, "idle")
    /\ who' = [who EXCEPT ![p] = Nobody]
    /\ row' = [row EXCEPT ![p] = Nobody]
    /\ moved' = [moved EXCEPT ![p] = {}]
    /\ UNCHANGED source

\* The request ends; a transaction it had open is rolled back.
Release(p) ==
    /\ Goto(p, "idle")
    /\ who' = [who EXCEPT ![p] = Nobody]
    /\ row' = [row EXCEPT ![p] = Nobody]
    /\ source' = [source EXCEPT ![p] = Nobody]
    /\ moved' = [moved EXCEPT ![p] = {}]

-----------------------------------------------------------------------------
(* Accounts.  login() with a known email reads only; the race of two first *)
(* sign-ins with one email ends in the unique index and changes no row.    *)

Login(u) ==
    /\ account[u] = "none"
    /\ account' = [account EXCEPT ![u] = "identified"]
    /\ UNCHANGED <<owner, late, pc, who, row, source, moved>>

CreateAnonymousUser(u) ==
    /\ account[u] = "none"
    /\ account' = [account EXCEPT ![u] = "anonymous"]
    /\ UNCHANGED <<owner, late, pc, who, row, source, moved>>

\* JwtStrategy.validate: a token works as long as its account exists.
Authenticated(p, u) ==
    /\ pc[p] = "idle"
    /\ account[u] \in Live
    /\ who' = [who EXCEPT ![p] = u]

-----------------------------------------------------------------------------
(* POST /ai/prompt and /ai/prompt/stream.                                  *)

\* resolve() keeps nothing in the tables; a request it refuses is no step.
StartPrompt(p, u) ==
    /\ Authenticated(p, u)
    /\ Goto(p, "session")
    /\ UNCHANGED <<account, owner, late, row, source, moved>>

\* Mutant: a lookup by id that does not ask whose session it is.
UseAnySession(p, s) ==
    /\ pc[p] = "session"
    /\ owner[s] \in Users
    /\ row' = [row EXCEPT ![p] = s]
    /\ Goto(p, "ask")
    /\ UNCHANGED <<account, owner, late, who, source, moved>>

\* resolveSession with a session_id: the lookup is scoped to the owner.
UseSession(p, s) ==
    /\ pc[p] = "session"
    /\ owner[s] = who[p]
    /\ row' = [row EXCEPT ![p] = s]
    /\ Goto(p, "ask")
    /\ UNCHANGED <<account, owner, late, who, source, moved>>

\* Mutant: refuses at limit + 1 (current > limit).
AssertNotAboveLimit(p, k) ==
    /\ pc[p] = IF k = "chat_sessions" THEN "session" ELSE "artifacts"
    /\ \/ account[who[p]] = "identified"
       \/ Cardinality(Owned(who[p], k)) <= Limit(k)
    /\ Goto(p, InsertPc(k))
    /\ UNCHANGED <<account, owner, late, who, row, source, moved>>

\* The check before either insert.  The two reads (is the account anonymous,
\* how many rows has it) are one step: no account ever gains or loses its
\* email, and a deleted one counts as anonymous.
AssertCanCreate(p, k) ==
    /\ pc[p] = IF k = "chat_sessions" THEN "session" ELSE "artifacts"
    /\ \/ account[who[p]] = "identified"
       \/ Cardinality(Owned(who[p], k)) < Limit(k)
    /\ Goto(p, InsertPc(k))
    /\ UNCHANGED <<account, owner, late, who, row, source, moved>>

\* An insert needs its user (foreign key) and gets a fresh id.
Insert(p, k, r) ==
    /\ pc[p] = InsertPc(k)
    /\ owner[r] = Nobody
    /\ account[who[p]] \in Live
    /\ owner' = [owner EXCEPT ![r] = who[p]]
    /\ late' = IF \E q \in Slots : source[q] = who[p] /\ pc[q] \in PastUpdate(k)
               THEN late \cup {r} ELSE late

InsertSession(p, s) ==
    /\ Insert(p, "chat_sessions", s)
    /\ row' = [row EXCEPT ![p] = s]
    /\ Goto(p, "ask")
    /\ UNCHANGED <<account, who, source, moved>>

\* addMessage needs its session (foreign key), whoever owns it by now.
RecordUserMessage(p) ==
    /\ pc[p] = "ask"
    /\ owner[row[p]] \in Users
    /\ Goto(p, "answer")
    /\ UNCHANGED <<account, owner, late, who, row, source, moved>>

RecordReply(p) ==
    /\ pc[p] = "answer"
    /\ owner[row[p]] \in Users
    /\ Goto(p, "artifacts")
    /\ UNCHANGED <<account, owner, late, who, row, source, moved>>

\* One turn of the loop in saveArtifacts; an offload that fails afterwards
\* is Fail, with the row left in place.
InsertFile(p, f) ==
    /\ Insert(p, "files", f)
    /\ Goto(p, "artifacts")
    /\ UNCHANGED <<account, who, row, source, moved>>

\* No artifact left, the storage limit reached, or a streamed answer.
FinishPrompt(p) ==
    /\ pc[p] = "artifacts"
    /\ Release(p)
    /\ UNCHANGED <<account, owner, late>>

-----------------------------------------------------------------------------
(* DELETE /chat/sessions/:id and DELETE /files/:id.                        *)

FindForDelete(p, u, r) ==
    /\ Authenticated(p, u)
    /\ owner[r] = u
    /\ row' = [row EXCEPT ![p] = r]
    /\ Goto(p, "delete")
    /\ UNCHANGED <<account, owner, late, source, moved>>

\* By id alone, after waiting for the row's lock.
DeleteRow(p) ==
    /\ pc[p] = "delete"
    /\ owner[row[p]] \in Users
    /\ ~ LockedByOther(p, row[p])
    /\ owner' = [owner EXCEPT ![row[p]] = Removed]
    /\ Release(p)
    /\ UNCHANGED <<account, late>>

-----------------------------------------------------------------------------
(* POST /auth/migrate-anonymous: u is signed in, a is the token's account. *)

StartMigrate(p, u, a) ==
    /\ Authenticated(p, u)
    /\ account[a] # "none" /\ a # u
    /\ source' = [source EXCEPT ![p] = a]
    /\ Goto(p, "checkSource")
    /\ UNCHANGED <<account, owner, late, row, moved>>

\* Mutant: any account whose token verifies is a source.
CheckSourceExists(p) ==
    /\ pc[p] = "checkSource"
    /\ account[source[p]] \in Live
    /\ Goto(p, "checkTarget")
    /\ UNCHANGED <<account, owner, late, who, row, source, moved>>

CheckSource(p) ==
    /\ pc[p] = "checkSource"
    /\ account[source[p]] = "anonymous"
    /\ Goto(p, "checkTarget")
    /\ UNCHANGED <<account, owner, late, who, row, source, moved>>

\* Mutant: the target only has to exist.
CheckTargetExists(p) ==
    /\ pc[p] = "checkTarget"
    /\ account[who[p]] \in Live
    /\ Goto(p, "txSessions")
    /\ UNCHANGED <<account, owner, late, who, row, source, moved>>

CheckTarget(p) ==
    /\ pc[p] = "checkTarget"
    /\ account[who[p]] = "identified"
    /\ Goto(p, "txSessions")
    /\ UNCHANGED <<account, owner, late, who, row, source, moved>>

\* updateMany under READ COMMITTED: it takes the rows committed by now.  One
\* that must wait for rows another transaction has updated starts anew when
\* that transaction ends (by then the rows, or the account, are gone, unless
\* the other was rolled back).
UpdateMany(p, k) ==
    /\ \A r \in Owned(source[p], k) : ~ LockedByOther(p, r)
    /\ moved' = [moved EXCEPT ![p] = @ \cup Owned(source[p], k)]
    /\ UNCHANGED <<account, owner, late, who, row, source>>

\* Mutant: a transaction that forgets the files.
TxSessionsOnly(p) ==
    /\ pc[p] = "txSessions"
    /\ UpdateMany(p, "chat_sessions")
    /\ Goto(p, "txDelete")

\* Mutant: nothing fixes which table is updated first.
TxEitherFirst(p) ==
    /\ pc[p] = "txSessions"
    /\ \/ UpdateMany(p, "chat_sessions") /\ Goto(p, "txFiles")
       \/ UpdateMany(p, "files") /\ UNCHANGED pc

TxSessions(p) ==
    /\ pc[p] = "txSessions"
    /\ UpdateMany(p, "chat_sessions")
    /\ Goto(p, "txFiles")

TxFiles(p) ==
    /\ pc[p] = "txFiles"
    /\ UpdateMany(p, "files")
    /\ Goto(p, "txDelete")

\* Mutant: a schema whose relations do not cascade.
TxDeleteWithoutCascade(p) ==
    /\ pc[p] = "txDelete"
    /\ account[source[p]] \in Live
    /\ owner' = [r \in Rows |-> IF r \in moved[p] THEN who[p] ELSE owner[r]]
    /\ account' = [account EXCEPT ![source[p]] = "deleted"]
    /\ Release(p)
    /\ UNCHANGED late

\* user.delete cascades to the rows the account still has, then COMMIT.
TxDelete(p) ==
    /\ pc[p] = "txDelete"
    /\ account[source[p]] \in Live
    /\ \A r \in Rows : owner[r] = source[p] => ~ LockedByOther(p, r)
    /\ owner' = [r \in Rows |-> IF r \in moved[p] THEN who[p]
                                ELSE IF owner[r] = source[p] THEN Removed
                                ELSE owner[r]]
    /\ account' = [account EXCEPT ![source[p]] = "deleted"]
    /\ Release(p)
    /\ UNCHANGED late

-----------------------------------------------------------------------------
(* Every refusal and every error ends a request without another write: a   *)
(* missing row, LimitExceededException, a foreign key, the provider, S3, a *)
(* lost connection, a transaction timed out or chosen as deadlock victim.  *)
Fail(p) ==
    /\ pc[p] # "idle"
    /\ Release(p)
    /\ UNCHANGED <<account, owner, late>>

\* The process dies: no request continues, open transactions roll back.
Restart ==
    /\ pc' = [p \in Slots |-> "idle"]
    /\ who' = [p \in Slots |-> Nobody]
    /\ row' = [p \in Slots |-> Nobody]
    /\ source' = [p \in Slots |-> Nobody]
    /\ moved' = [p \in Slots |-> {}]
    /\ UNCHANGED <<account, owner, late>>

Prompt(p) ==
    \/ \E u \in Users : StartPrompt(p, u)
    \/ \E s \in Sessions : UseSession(p, s) \/ InsertSession(p, s)
    \/ \E k \in Kinds : AssertCanCreate(p, k)
    \/ RecordUserMessage(p) \/ RecordReply(p)
    \/ \E f \in Files : InsertFile(p, f)
    \/ FinishPrompt(p)

Delete(p) ==
    \/ \E u \in Users, r \in Rows : FindForDelete(p, u, r)
    \/ DeleteRow(p)

Migrate(p) ==
    \/ \E u, a \in Users : StartMigrate(p, u, a)
    \/ CheckSource(p) \/ CheckTarget(p)
    \/ TxSessions(p) \/ TxFiles(p) \/ TxDelete(p)

Next ==
    \/ \E u \in Users : Login(u) \/ CreateAnonymousUser(u)
    \/ \E p \in Slots : Prompt(p) \/ Delete(p) \/ Migrate(p) \/ Fail(p)
    \/ Restart

Spec == Init /\ [][Next]_vars

-----------------------------------------------------------------------------
TypeOK ==
    /\ account \in [Users -> {"none", "deleted"} \cup Live]
    /\ owner \in [Rows -> Users \cup {Nobody, Removed}]
    /\ late \subseteq Rows
    /\ pc \in [Slots -> Pcs]
    /\ who \in [Slots -> Users \cup {Nobody}]
    /\ row \in [Slots -> Rows \cup {Nobody}]
    /\ source \in [Slots -> Users \cup {Nobody}]
    /\ moved \in [Slots -> SUBSET Rows]
    /\ \A p \in Slots :
          /\ pc[p] # "idle" => who[p] \in Users
          /\ pc[p] \in {"ask", "answer", "delete"} => row[p] \in Rows
          /\ pc[p] \in {"ask", "answer"} => row[p] \in Sessions
          /\ pc[p] \in MigratePcs <=> source[p] # Nobody
-----------------------------------------------------------------------------
(* Safety.                                                                 *)

\* The requests of u that have passed the check for k and not inserted yet.
Inserting(u, k) == {p \in Slots : who[p] = u /\ pc[p] = InsertPc(k)}

(* How far the quota can be overrun.  The check and the insert are two     *)
(* awaits, so requests of one anonymous account can pass the check         *)
(* together; what it owns and what it is about to insert exceed the limit  *)
(* by less than the number of requests that run at once, however requests, *)
(* deletions, migrations and restarts interleave.                          *)
QuotaBound ==
    \A u \in Users, k \in Kinds :
        account[u] # "identified" =>
            Cardinality(Owned(u, k)) + Cardinality(Inserting(u, k))
                < Limit(k) + Cardinality(Slots)

(* No session or file belongs to an account that is gone, whatever was     *)
(* inserted while its migration ran.                                       *)
LiveOwners == \A r \in Rows : owner[r] \in Users => account[owner[r]] \in Live

(* addMessage and both deletes address their row by id alone, after an     *)
(* earlier lookup checked the owner.  By the time they run the row is      *)
(* still the requester's, or was handed over to the signed-in account that *)
(* took over the requester's own account; it is never a third party's.     *)
RowsStayWithTheirUser ==
    \A p \in Slots :
        pc[p] \in {"ask", "answer", "delete"} /\ owner[row[p]] \in Users =>
            \/ owner[row[p]] = who[p]
            \/ /\ account[who[p]] = "deleted"
               /\ account[owner[row[p]]] = "identified"

\* A row that leaves the closing account u without reaching a signed-in one.
Lost(u, r) ==
    /\ owner[r] = u
    /\ ~ (owner'[r] \in Users /\ account'[owner'[r]] = "identified")

Closes(u) == account[u] # "deleted" /\ account'[u] = "deleted"

(* migrateAnonymousAccount: in the step that closes an account, all of its *)
(* sessions and files reach a signed-in account, except rows inserted      *)
(* between the transaction's own updateMany of that table and its commit.  *)
ConversionKeepsEarlyWork ==
    [][\A u \in Users, r \in Rows : Closes(u) /\ Lost(u, r) => r \in late]_vars

(* The comment on migrateAnonymousAccount promises more: someone who signs *)
(* in "must keep their work".  The code loses the late rows.               *)
ConversionKeepsAllWork ==
    [][\A u \in Users, r \in Rows : ~ (Closes(u) /\ Lost(u, r))]_vars

(* The documentation of POST /auth/anonymous: "limited access (3 chat      *)
(* sessions, 5 files max)".  Two concurrent prompts exceed it.             *)
AnonymousCap ==
    \A u \in Users, k \in Kinds :
        account[u] = "anonymous" => Cardinality(Owned(u, k)) <= Limit(k)

\* The rows whose locks the next statement of p takes, and who holds them.
Needs(p) ==
    CASE pc[p] = "txSessions" -> Owned(source[p], "chat_sessions")
      [] pc[p] = "txFiles"    -> Owned(source[p], "files")
      [] pc[p] = "txDelete"   -> {r \in Rows : owner[r] = source[p]}
      [] pc[p] = "delete"     -> {row[p]}
      [] OTHER                -> {}
WaitsFor(p, q) == q # p /\ Needs(p) \cap moved[q] # {}

(* Rival migrations of one account, and deletions, take row locks in the   *)
(* same order: sessions, then files, then whatever the cascade finds.  So  *)
(* requests never wait for each other in a circle, unless one of them      *)
(* holds a row that was inserted behind the other's updateMany (Postgres   *)
(* then ends one of the two: Fail).  The order in which one statement      *)
(* locks its own rows is left to Postgres.                                 *)
DeadlockNeedsLateRow ==
    \A D \in (SUBSET Slots) \ {{}} :
        (\A p \in D : \E q \in D : WaitsFor(p, q)) =>
            \E p \in D : moved[p] \cap late # {}

(* Seen from outside, the interleaved requests are Ownership's operations, *)
(* each in one step: no row is created for, moved to or left with an       *)
(* account that could not have it, and rows move only by a conversion.     *)
Abs == INSTANCE Ownership WITH account <- account, owner <- owner
ImplementsOwnership == Abs!Spec

-----------------------------------------------------------------------------
(* The inductive invariant of WorkspaceProofs.                             *)

\* What the reads before the transaction established still holds in it.
MigrationParties ==
    \A p \in Slots :
        /\ pc[p] \in {"checkTarget"} \cup TxPcs =>
               account[source[p]] \in {"anonymous", "deleted"}
        /\ pc[p] \in TxPcs => account[who[p]] = "identified"

\* The updated rows of an open transaction still are the source's.
HeldRows ==
    \A p \in Slots :
        /\ pc[p] \notin {"txFiles", "txDelete"} => moved[p] = {}
        /\ pc[p] = "txFiles" => moved[p] \subseteq Sessions
        /\ \A r \in moved[p] : owner[r] = source[p]

\* A row an updateMany did not see was inserted behind it.
UnseenRowsAreLate ==
    \A p \in Slots, k \in Kinds :
        pc[p] \in PastUpdate(k) => Owned(source[p], k) \subseteq moved[p] \cup late

\* A row is locked by one transaction.
LocksExclusive ==
    \A p, q \in Slots : p # q => moved[p] \cap moved[q] = {}

(* The facts a migration relies on while other requests run: its parties   *)
(* are an anonymous (or already closed) account and a signed-in one, the   *)
(* rows it holds are the source's, and what it missed came after it.       *)
MigrationInv == MigrationParties /\ HeldRows /\ UnseenRowsAreLate

RowsExist ==
    \A p \in Slots : pc[p] \in {"ask", "answer", "delete"} => owner[row[p]] # Nobody

IInv ==
    /\ TypeOK /\ LiveOwners /\ QuotaBound
    /\ MigrationInv /\ RowsExist /\ RowsStayWithTheirUser /\ LocksExclusive
=============================================================================
