------------------------------- MODULE Accounts -------------------------------
(***************************************************************************)
(* Who somebody is: sign-in with an e-mail address, anonymous accounts,    *)
(* the tokens both are given, the profile a token shows, and the limits an *)
(* anonymous account has under whatever the environment says.  Handlers    *)
(* are cut at every await; the process dies and starts with other          *)
(* settings.                                                               *)
(*                                                                         *)
(* Left out: names of OAuth providers (both sign in by e-mail), and the    *)
(* steps of a conversion (Workspace), which commits here in one.           *)
(***************************************************************************)
EXTENDS Integers, FiniteSets

CONSTANTS
    Users,          \* row ids
    Emails,
    Slots,          \* the requests that can run at once
    Settings,       \* what a limit's environment variable may hold
    DefaultLimit,   \* the fallback of each limit (3 sessions and 5 files)
    MaxRows,        \* bound: sessions, and files, of one account
    None            \* no e-mail / no user

Kinds == {"chat_sessions", "files"}

\* kind "number": Number() of the text is this integer.  "blank" becomes 0,
\* "text" (also Infinity) and "unset" are no finite number.
Setting == [kind : {"number", "blank", "text", "unset"}, value : Int]

ASSUME ConstantsOK ==
    /\ None \notin Users \cup Emails
    /\ IsFiniteSet(Slots) /\ Settings \subseteq Setting
    /\ DefaultLimit \in [Kinds -> Nat] /\ MaxRows \in Nat

VARIABLES
    users,      \* ids of the users table
    used,       \* every id ever created
    email,      \* users.email; None is null
    count,      \* the sessions and files each account owns
    env,        \* the two limits in the environment
    tokens,     \* the tokens clients hold: id and e-mail of the payload
    conflicts,  \* history: e-mails whose sign-in was answered 409
    pc, who,    \* the await a request is at, and its user's id
    claim,      \* the e-mail it signs in with, or its token's
    shown       \* the profile as far as it has been read

vars == <<users, used, email, count, env, tokens, conflicts, pc, who, claim, shown>>

-----------------------------------------------------------------------------
UNLIMITED == -1

\* Mutant: any finite number is a limit, also the -1 that means unlimited.
ReadLimitAnyNumber(k) ==
    CASE env[k].kind = "number" -> env[k].value
      [] env[k].kind = "blank"  -> 0
      [] OTHER                  -> DefaultLimit[k]

readLimit(k) ==
    CASE env[k].kind = "number" /\ env[k].value >= 0 -> env[k].value
      [] env[k].kind = "blank"                       -> 0
      [] OTHER                                       -> DefaultLimit[k]

limitsFor(isAnonymous) ==
    [k \in Kinds |-> IF isAnonymous THEN readLimit(k) ELSE UNLIMITED]

\* Mutant: user?.email === null, which a missing user does not satisfy.
IsAnonymousStrict(u) == u \in users /\ email[u] = None

\* !user?.email, in UsersService for the profile.
isAnonymous(u) == ~ (u \in users /\ email[u] # None)

\* The same question asked by LimitsService.
limitsForUser(u) == limitsFor(~ (u \in users /\ email[u] # None))

NoProfile == [found |-> FALSE, isAnonymous |-> FALSE,
              count |-> [k \in Kinds |-> 0], limits |-> [k \in Kinds |-> 0]]

InsertPc(k) == IF k = "chat_sessions" THEN "insertSession" ELSE "insertFile"
Pcs == {"idle", "create", "sign", "row", "anonymous", "sessions", "files",
        "shown", "work"} \cup {InsertPc(k) : k \in Kinds}

Init ==
    /\ users = {} /\ used = {} /\ tokens = {} /\ conflicts = {}
    /\ email = [u \in Users |-> None]
    /\ count = [u \in Users |-> [k \in Kinds |-> 0]]
    /\ env \in [Kinds -> Settings]
    /\ pc = [p \in Slots |-> "idle"]
    /\ who = [p \in Slots |-> None]
    /\ claim = [p \in Slots |-> None]
    /\ shown = [p \in Slots |-> NoProfile]

tables == <<users, used, email, count>>
request == <<who, claim, shown>>

Goto(p, l) == pc' = [pc EXCEPT ![p] = l]

\* Mutant: the answered request keeps its user.
EndWithUser(p) ==
    /\ Goto(p, "idle")
    /\ claim' = [claim EXCEPT ![p] = None]
    /\ shown' = [shown EXCEPT ![p] = NoProfile]
    /\ UNCHANGED who

End(p) ==
    /\ Goto(p, "idle")
    /\ who' = [who EXCEPT ![p] = None]
    /\ claim' = [claim EXCEPT ![p] = None]
    /\ shown' = [shown EXCEPT ![p] = NoProfile]

-----------------------------------------------------------------------------
(* The OAuth callbacks (login) and POST /auth/anonymous.                   *)

\* findByEmail: a known address goes on to its account, a new one to create.
FindByEmail(p, e) ==
    /\ pc[p] = "idle"
    /\ claim' = [claim EXCEPT ![p] = e]
    /\ \/ \E u \in users :
             /\ email[u] = e
             /\ who' = [who EXCEPT ![p] = u]
             /\ Goto(p, "sign")
       \/ /\ \A u \in users : email[u] # e
          /\ Goto(p, "create")
          /\ UNCHANGED who
    /\ UNCHANGED <<tables, env, tokens, conflicts, shown>>

CreateAnonymousUser(p) ==
    /\ pc[p] = "idle"
    /\ Goto(p, "create")
    /\ UNCHANGED <<tables, env, tokens, conflicts, request>>

\* Mutant: a schema without the unique index on users.email.
CreateAnyway(p, u) ==
    /\ pc[p] = "create" /\ u \notin used
    /\ users' = users \cup {u} /\ used' = used \cup {u}
    /\ email' = [email EXCEPT ![u] = claim[p]]
    /\ who' = [who EXCEPT ![p] = u]
    /\ Goto(p, "sign")
    /\ UNCHANGED <<count, env, tokens, conflicts, claim, shown>>

Create(p, u) ==
    /\ pc[p] = "create" /\ u \notin used
    /\ claim[p] # None => \A v \in users : email[v] # claim[p]
    /\ users' = users \cup {u} /\ used' = used \cup {u}
    /\ email' = [email EXCEPT ![u] = claim[p]]
    /\ who' = [who EXCEPT ![p] = u]
    /\ Goto(p, "sign")
    /\ UNCHANGED <<count, env, tokens, conflicts, claim, shown>>

\* P2002: a rival sign-in came first.  The client gets a 409.
CreateConflict(p) ==
    /\ pc[p] = "create"
    /\ \E v \in users : email[v] = claim[p] /\ claim[p] # None
    /\ conflicts' = conflicts \cup {claim[p]}
    /\ End(p)
    /\ UNCHANGED <<tables, env, tokens>>

\* The payload is the row that was found or created.
Sign(p) ==
    /\ pc[p] = "sign"
    /\ tokens' = tokens \cup {[id |-> who[p], email |-> claim[p]]}
    /\ End(p)
    /\ UNCHANGED <<tables, env, conflicts>>

-----------------------------------------------------------------------------
(* Requests with a token.                                                  *)

\* JwtStrategy.validate: the account must exist; the payload is the user.
Authenticate(p, t, l) ==
    /\ pc[p] = "idle" /\ t \in tokens
    /\ t.id \in users
    /\ Goto(p, l)
    /\ who' = [who EXCEPT ![p] = t.id]
    /\ claim' = [claim EXCEPT ![p] = t.email]

GetProfile(p, t) ==
    /\ Authenticate(p, t, "row")
    /\ UNCHANGED <<tables, env, tokens, conflicts, shown>>

\* A missing row spreads to nothing: the answer then has no id.
ReadRow(p) ==
    /\ pc[p] = "row"
    /\ shown' = [shown EXCEPT ![p].found = who[p] \in users]
    /\ Goto(p, "anonymous")
    /\ UNCHANGED <<tables, env, tokens, conflicts, who, claim>>

ReadKind(p) ==
    /\ pc[p] = "anonymous"
    /\ shown' = [shown EXCEPT ![p].isAnonymous = isAnonymous(who[p])]
    /\ Goto(p, "sessions")
    /\ UNCHANGED <<tables, env, tokens, conflicts, who, claim>>

CountSessions(p) ==
    /\ pc[p] = "sessions"
    /\ shown' = [shown EXCEPT ![p].count["chat_sessions"] =
                    count[who[p]]["chat_sessions"]]
    /\ Goto(p, "files")
    /\ UNCHANGED <<tables, env, tokens, conflicts, who, claim>>

\* The last count, and the answer put together behind it.
CountFiles(p) ==
    /\ pc[p] = "files"
    /\ shown' = [shown EXCEPT ![p].count["files"] = count[who[p]]["files"],
                              ![p].limits = limitsFor(shown[p].isAnonymous)]
    /\ Goto(p, "shown")
    /\ UNCHANGED <<tables, env, tokens, conflicts, who, claim>>

AnswerProfile(p) ==
    /\ pc[p] = "shown"
    /\ End(p)
    /\ UNCHANGED <<tables, env, tokens, conflicts>>

StartWork(p, t) ==
    /\ Authenticate(p, t, "work")
    /\ UNCHANGED <<tables, env, tokens, conflicts, shown>>

\* The check in front of an insert.
AssertCanCreate(p, k) ==
    /\ pc[p] = "work"
    /\ LET limit == limitsForUser(who[p])[k]
       IN  limit = UNLIMITED \/ count[who[p]][k] < limit
    /\ Goto(p, InsertPc(k))
    /\ UNCHANGED <<tables, env, tokens, conflicts, request>>

Insert(p, k) ==
    /\ pc[p] = InsertPc(k)
    /\ who[p] \in users /\ count[who[p]][k] < MaxRows
    /\ count' = [count EXCEPT ![who[p]][k] = @ + 1]
    /\ End(p)
    /\ UNCHANGED <<users, used, email, env, tokens, conflicts>>

DeleteRow(t, k) ==
    /\ t \in tokens /\ t.id \in users /\ count[t.id][k] > 0
    /\ count' = [count EXCEPT ![t.id][k] = @ - 1]
    /\ UNCHANGED <<users, used, email, env, tokens, conflicts, pc, request>>

\* Mutant: any account whose token verifies can be converted.
ConvertAny(a, t) ==
    /\ a \in tokens /\ t \in tokens /\ {a.id, t.id} \subseteq users
    /\ a.id # t.id /\ email[t.id] # None
    /\ \A k \in Kinds : count[a.id][k] + count[t.id][k] <= MaxRows
    /\ users' = users \ {a.id}
    /\ count' = [count EXCEPT
           ![t.id] = [k \in Kinds |-> count[a.id][k] + count[t.id][k]],
           ![a.id] = [k \in Kinds |-> 0]]
    /\ UNCHANGED <<used, email, env, tokens, conflicts, pc, request>>

\* The commit of migrateAnonymousAccount.
Convert(a, t) ==
    /\ a \in tokens /\ t \in tokens /\ {a.id, t.id} \subseteq users
    /\ a.id # t.id /\ email[a.id] = None /\ email[t.id] # None
    /\ \A k \in Kinds : count[a.id][k] + count[t.id][k] <= MaxRows
    /\ users' = users \ {a.id}
    /\ count' = [count EXCEPT
           ![t.id] = [k \in Kinds |-> count[a.id][k] + count[t.id][k]],
           ![a.id] = [k \in Kinds |-> 0]]
    /\ UNCHANGED <<used, email, env, tokens, conflicts, pc, request>>

-----------------------------------------------------------------------------
\* Any await may reject, an insert also because its user is gone.
Fail(p) ==
    /\ pc[p] # "idle"
    /\ End(p)
    /\ UNCHANGED <<tables, env, tokens, conflicts>>

\* The process dies and starts with what its environment then holds.
Restart(settings) ==
    /\ env' = settings
    /\ pc' = [p \in Slots |-> "idle"]
    /\ who' = [p \in Slots |-> None]
    /\ claim' = [p \in Slots |-> None]
    /\ shown' = [p \in Slots |-> NoProfile]
    /\ UNCHANGED <<tables, tokens, conflicts>>

SignIn(p) ==
    \/ \E e \in Emails : FindByEmail(p, e)
    \/ CreateAnonymousUser(p)
    \/ \E u \in Users : Create(p, u)
    \/ CreateConflict(p) \/ Sign(p)
Profile(p) ==
    \/ \E t \in tokens : GetProfile(p, t)
    \/ ReadRow(p) \/ ReadKind(p) \/ CountSessions(p) \/ CountFiles(p)
    \/ AnswerProfile(p)
Work(p) ==
    \/ \E t \in tokens : StartWork(p, t)
    \/ \E k \in Kinds : AssertCanCreate(p, k) \/ Insert(p, k)

Next ==
    \/ \E p \in Slots : SignIn(p) \/ Profile(p) \/ Work(p) \/ Fail(p)
    \/ \E t \in tokens, k \in Kinds : DeleteRow(t, k)
    \/ \E a, t \in tokens : Convert(a, t)
    \/ \E settings \in [Kinds -> Settings] : Restart(settings)

Spec == Init /\ [][Next]_vars

-----------------------------------------------------------------------------
ProfileRecord ==
    [found : BOOLEAN, isAnonymous : BOOLEAN,
     count : [Kinds -> 0..MaxRows], limits : [Kinds -> Int]]

TypeOK ==
    /\ users \subseteq used /\ used \subseteq Users
    /\ email \in [Users -> Emails \cup {None}]
    /\ count \in [Users -> [Kinds -> 0..MaxRows]]
    /\ env \in [Kinds -> Settings]
    /\ tokens \subseteq [id : Users, email : Emails \cup {None}]
    /\ conflicts \subseteq Emails
    /\ pc \in [Slots -> Pcs]
    /\ who \in [Slots -> Users \cup {None}]
    /\ claim \in [Slots -> Emails \cup {None}]
    /\ shown \in [Slots -> ProfileRecord]
    /\ \A p \in Slots : pc[p] \notin {"idle", "create"} <=> who[p] # None

(* However sign-ins race, restart and are repeated, the tokens issued for  *)
(* an e-mail address all name one account, the one that has the address.   *)
OneAccountPerEmail ==
    \A s, t \in tokens : s.email = t.email /\ t.email # None =>
        s.id = t.id /\ email[t.id] = t.email

(* A token for an address keeps working, and a sign-in that lost the race  *)
(* (409) succeeds when repeated: the address has an account for good.      *)
SignInsLast ==
    /\ \A t \in tokens : t.email # None => t.id \in users
    /\ \A e \in conflicts : \E u \in users : email[u] = e

(* The four reads of a profile stay consistent while the account works,    *)
(* is converted and deleted: what it says of the account's kind agrees     *)
(* with the token, its limits are the ones that are enforced, and without  *)
(* a row it claims no rows either.                                         *)
ProfileIsCoherent ==
    \A p \in Slots : pc[p] = "shown" =>
        /\ shown[p].isAnonymous <=> claim[p] = None
        /\ shown[p].limits = limitsForUser(who[p])
        /\ ~ shown[p].found =>
              claim[p] = None /\ \A k \in Kinds : shown[p].count[k] = 0

\* Requests of u between the check of k and the insert.
Inserting(u, k) == {p \in Slots : who[p] = u /\ pc[p] = InsertPc(k)}

(* No value of the environment lifts the limits: an account without an     *)
(* e-mail grows only while it has less than the limit in force, or than    *)
(* the limit plus the other requests that passed the check with it.        *)
AnonymousStaysLimited ==
    \A u \in Users, k \in Kinds :
        u \in users /\ email[u] = None /\ Inserting(u, k) # {} =>
            count[u][k] + Cardinality(Inserting(u, k))
                < limitsFor(TRUE)[k] + Cardinality(Slots)

-----------------------------------------------------------------------------
(* The inductive invariant of AccountsProofs.                              *)

\* The unique index, and rows that go with their account.
TableInv ==
    /\ \A u, v \in users : email[u] = email[v] /\ email[u] # None => u = v
    /\ \A u \in Users \ users, k \in Kinds : count[u][k] = 0

\* A user and an e-mail that belong together for good.
Names(u, e) == u \in used /\ email[u] = e /\ (e # None => u \in users)

\* A token and a request in flight speak for such a pair.
NameInv ==
    /\ \A t \in tokens : Names(t.id, t.email)
    /\ \A p \in Slots : who[p] # None => Names(who[p], claim[p])
    /\ \A e \in conflicts : \E u \in users : email[u] = e

\* What each read of a profile found still holds at the later ones.
ReadBy(p) ==
    /\ pc[p] \notin {"anonymous", "sessions", "files", "shown"} =>
           shown[p] = NoProfile
    /\ pc[p] \in {"anonymous", "sessions", "files", "shown"}
       /\ ~ shown[p].found =>
           who[p] \notin users /\ \A k \in Kinds : shown[p].count[k] = 0
    /\ pc[p] \in {"sessions", "files", "shown"} =>
           (shown[p].isAnonymous <=> claim[p] = None)
    /\ pc[p] = "shown" => shown[p].limits = limitsFor(shown[p].isAnonymous)

ReadInv == \A p \in Slots : ReadBy(p)

IInv == TypeOK /\ TableInv /\ NameInv /\ ReadInv
=============================================================================
