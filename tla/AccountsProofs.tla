---------------------------- MODULE AccountsProofs ----------------------------
(* Theorems about Accounts for every number of users, addresses and        *)
(* concurrent requests and every environment.                              *)
EXTENDS Accounts, FiniteSetTheorems, TLAPS

LEMMA LimitsAreIntegers ==
    ASSUME TypeOK, NEW b \in BOOLEAN
    PROVE  limitsFor(b) \in [Kinds -> Int]
<1>1. ASSUME NEW k \in Kinds PROVE readLimit(k) \in Int
  <2>1. env[k] \in Setting
        BY ConstantsOK DEF TypeOK
  <2>2. env[k].value \in Int /\ DefaultLimit[k] \in Int
        BY <2>1, ConstantsOK DEF Setting
  <2> QED BY <2>2 DEF readLimit
<1> QED BY <1>1 DEF limitsFor, UNLIMITED

(* Ending a request clears what it held.                                   *)
LEMMA EndTypes ==
    ASSUME TypeOK, NEW p \in Slots, End(p)
    PROVE  /\ pc' \in [Slots -> Pcs]
           /\ who' \in [Slots -> Users \cup {None}]
           /\ claim' \in [Slots -> Emails \cup {None}]
           /\ shown' \in [Slots -> ProfileRecord]
           /\ \A q \in Slots : pc'[q] \notin {"idle", "create"} <=> who'[q] # None
BY ConstantsOK DEF TypeOK, End, Goto, Pcs, NoProfile, ProfileRecord

(* What the four reads and the answer make of the profile.                 *)
LEMMA ReadTypes ==
    ASSUME TypeOK, NEW p \in Slots, NEW u \in Users, NEW b \in BOOLEAN
    PROVE  /\ [shown[p] EXCEPT !.found = b] \in ProfileRecord
           /\ [shown[p] EXCEPT !.isAnonymous = b] \in ProfileRecord
           /\ \A k \in Kinds, l \in [Kinds -> Int] :
                 /\ [shown[p] EXCEPT !.count[k] = count[u][k]] \in ProfileRecord
                 /\ [shown[p] EXCEPT !.count[k] = count[u][k], !.limits = l]
                       \in ProfileRecord
<1> shown[p] \in ProfileRecord
    BY DEF TypeOK
<1>1. /\ [shown[p] EXCEPT !.found = b] \in ProfileRecord
      /\ [shown[p] EXCEPT !.isAnonymous = b] \in ProfileRecord
      BY DEF ProfileRecord
<1>2. ASSUME NEW k \in Kinds, NEW l \in [Kinds -> Int]
      PROVE  /\ [shown[p] EXCEPT !.count[k] = count[u][k]] \in ProfileRecord
             /\ [shown[p] EXCEPT !.count[k] = count[u][k], !.limits = l]
                   \in ProfileRecord
  <2>1. [shown[p].count EXCEPT ![k] = count[u][k]] \in [Kinds -> 0..MaxRows]
        BY DEF TypeOK, ProfileRecord
  <2> QED BY <2>1 DEF ProfileRecord
<1> QED BY <1>1, <1>2

LEMMA TypeStep == TypeOK /\ [Next]_vars => TypeOK'
<1> SUFFICES ASSUME TypeOK, [Next]_vars PROVE TypeOK'
    OBVIOUS
<1> USE ConstantsOK DEF TypeOK, Goto, Pcs, InsertPc, Kinds
<1>1. ASSUME NEW p \in Slots, SignIn(p) PROVE TypeOK'
  <2>1. ASSUME NEW e \in Emails, FindByEmail(p, e) PROVE TypeOK'
        BY <2>1 DEF FindByEmail, tables
  <2>2. CASE CreateAnonymousUser(p)
        BY <2>2 DEF CreateAnonymousUser, tables, request
  <2>3. ASSUME NEW u \in Users, Create(p, u) PROVE TypeOK'
        BY <2>3 DEF Create
  <2>4. CASE CreateConflict(p)
        BY <2>4, EndTypes DEF CreateConflict, tables
  <2>5. CASE Sign(p)
        BY <2>5, EndTypes DEF Sign, tables
  <2> QED BY <1>1, <2>1, <2>2, <2>3, <2>4, <2>5 DEF SignIn
<1>2. ASSUME NEW p \in Slots, Profile(p) PROVE TypeOK'
  <2>1. ASSUME NEW t \in tokens, GetProfile(p, t) PROVE TypeOK'
        BY <2>1 DEF GetProfile, Authenticate, tables
  <2>2. CASE ReadRow(p)
    <3> DEFINE b == who[p] \in users
    <3> b \in BOOLEAN
        OBVIOUS
    <3> who[p] \in Users
        BY <2>2 DEF ReadRow
    <3> HIDE DEF b
    <3>1. [shown[p] EXCEPT !.found = b] \in ProfileRecord
          BY ReadTypes
    <3> USE DEF b
    <3> QED BY <2>2, <3>1 DEF ReadRow, tables
  <2>3. CASE ReadKind(p)
    <3>1. [shown[p] EXCEPT !.isAnonymous = isAnonymous(who[p])] \in ProfileRecord
          BY ReadTypes, <2>3 DEF ReadKind, isAnonymous
    <3> QED BY <2>3, <3>1 DEF ReadKind, tables
  <2>4. CASE CountSessions(p)
    <3>1. who[p] \in Users
          BY <2>4 DEF CountSessions
    <3>2. [shown[p] EXCEPT !.count["chat_sessions"] =
              count[who[p]]["chat_sessions"]] \in ProfileRecord
          BY <3>1, ReadTypes, LimitsAreIntegers
    <3>3. shown' \in [Slots -> ProfileRecord]
          BY <2>4, <3>2 DEF CountSessions
    <3> QED BY <2>4, <3>3 DEF CountSessions, tables
  <2>5. CASE CountFiles(p)
    <3>1. limitsFor(shown[p].isAnonymous) \in [Kinds -> Int]
          BY LimitsAreIntegers DEF ProfileRecord
    <3>2. who[p] \in Users
          BY <2>5 DEF CountFiles
    <3>3. [shown[p] EXCEPT !.count["files"] = count[who[p]]["files"],
                           !.limits = limitsFor(shown[p].isAnonymous)]
              \in ProfileRecord
          BY <3>1, <3>2, ReadTypes
    <3>4. shown' \in [Slots -> ProfileRecord]
          BY <2>5, <3>3 DEF CountFiles
    <3> QED BY <2>5, <3>4 DEF CountFiles, tables
  <2>6. CASE AnswerProfile(p)
        BY <2>6, EndTypes DEF AnswerProfile, tables
  <2> QED BY <1>2, <2>1, <2>2, <2>3, <2>4, <2>5, <2>6 DEF Profile
<1>3. ASSUME NEW p \in Slots, Work(p) PROVE TypeOK'
  <2>1. ASSUME NEW t \in tokens, StartWork(p, t) PROVE TypeOK'
        BY <2>1 DEF StartWork, Authenticate, tables
  <2>2. ASSUME NEW k \in Kinds, AssertCanCreate(p, k) PROVE TypeOK'
        BY <2>2 DEF AssertCanCreate, tables, request
  <2>3. ASSUME NEW k \in Kinds, Insert(p, k) PROVE TypeOK'
    <3>1. count' \in [Users -> [Kinds -> 0..MaxRows]]
          BY <2>3 DEF Insert
    <3> QED BY <2>3, <3>1, EndTypes DEF Insert
  <2> QED BY <1>3, <2>1, <2>2, <2>3 DEF Work
<1>4. ASSUME NEW p \in Slots, Fail(p) PROVE TypeOK'
      BY <1>4, EndTypes DEF Fail, tables
<1>5. ASSUME NEW t \in tokens, NEW k \in Kinds, DeleteRow(t, k) PROVE TypeOK'
  <2>1. count' \in [Users -> [Kinds -> 0..MaxRows]]
        BY <1>5 DEF DeleteRow
  <2> QED BY <1>5, <2>1 DEF DeleteRow, request
<1>6. ASSUME NEW a \in tokens, NEW t \in tokens, Convert(a, t) PROVE TypeOK'
  <2>1. count' \in [Users -> [Kinds -> 0..MaxRows]]
        BY <1>6 DEF Convert
  <2> QED BY <1>6, <2>1 DEF Convert, request
<1>7. ASSUME NEW settings \in [Kinds -> Settings], Restart(settings) PROVE TypeOK'
      BY <1>7 DEF Restart, tables, NoProfile, ProfileRecord
<1>8. CASE UNCHANGED vars
      BY <1>8 DEF vars
<1> QED BY <1>1, <1>2, <1>3, <1>4, <1>5, <1>6, <1>7, <1>8 DEF Next

-----------------------------------------------------------------------------
(* Ids and addresses are paired once: an account with an address is never  *)
(* deleted, and no id is used twice.                                       *)
LEMMA NamesLast ==
    ASSUME IInv, [Next]_vars, NEW u, NEW e, Names(u, e)
    PROVE  Names(u, e)'
<1> USE DEF Names, IInv, TypeOK, NameInv
<1>1. ASSUME NEW p \in Slots, NEW v \in Users, Create(p, v) PROVE Names(u, e)'
      BY <1>1 DEF Create
<1>2. ASSUME NEW a \in tokens, NEW t \in tokens, Convert(a, t) PROVE Names(u, e)'
      BY <1>2 DEF Convert
<1>3. ASSUME NEW p \in Slots, SignIn(p), \A v \in Users : ~ Create(p, v)
      PROVE  Names(u, e)'
      BY <1>3 DEF SignIn, FindByEmail, CreateAnonymousUser, CreateConflict, Sign, tables
<1>4. ASSUME NEW p \in Slots, Profile(p) \/ Work(p) \/ Fail(p) PROVE Names(u, e)'
      BY <1>4
      DEF Profile, GetProfile, ReadRow, ReadKind, CountSessions, CountFiles,
          AnswerProfile, Work, StartWork, AssertCanCreate, Insert, Fail, tables
<1>5. ASSUME NEW t \in tokens, NEW k \in Kinds, DeleteRow(t, k) PROVE Names(u, e)'
      BY <1>5 DEF DeleteRow
<1>6. ASSUME NEW settings \in [Kinds -> Settings], Restart(settings)
      PROVE  Names(u, e)'
      BY <1>6 DEF Restart, tables
<1>7. CASE UNCHANGED vars
      BY <1>7 DEF vars
<1> QED BY <1>1, <1>2, <1>3, <1>4, <1>5, <1>6, <1>7 DEF Next

-----------------------------------------------------------------------------
LEMMA InvInit == Init => IInv
<1> SUFFICES ASSUME Init PROVE IInv
    OBVIOUS
<1> NoProfile \in ProfileRecord
    BY ConstantsOK DEF NoProfile, ProfileRecord
<1> QED BY ConstantsOK
        DEF Init, IInv, TypeOK, TableInv, NameInv, ReadInv, ReadBy, Pcs, Kinds

(* The unique index holds, and a row's account is in the table.            *)
LEMMA TableStep == IInv /\ [Next]_vars => TableInv'
<1> SUFFICES ASSUME IInv, [Next]_vars PROVE TableInv'
    OBVIOUS
<1> USE ConstantsOK DEF IInv, TypeOK, TableInv, Kinds
<1>1. ASSUME NEW p \in Slots, NEW u \in Users, Create(p, u) PROVE TableInv'
  <2> u \notin users
      BY <1>1 DEF Create
  <2>1. ASSUME NEW v \in users', NEW w \in users', email'[v] = email'[w],
               email'[v] # None
        PROVE  v = w
        BY <1>1, <2>1 DEF Create
  <2> QED BY <1>1, <2>1 DEF Create
<1>2. ASSUME NEW p \in Slots, NEW k \in Kinds, Insert(p, k) PROVE TableInv'
      BY <1>2 DEF Insert
<1>3. ASSUME NEW t \in tokens, NEW k \in Kinds, DeleteRow(t, k) PROVE TableInv'
      BY <1>3 DEF DeleteRow
<1>4. ASSUME NEW a \in tokens, NEW t \in tokens, Convert(a, t) PROVE TableInv'
  <2>1. ASSUME NEW u \in Users \ users', NEW k \in Kinds PROVE count'[u][k] = 0
        BY <1>4, <2>1 DEF Convert
  <2> QED BY <1>4, <2>1 DEF Convert
<1>5. ASSUME UNCHANGED tables PROVE TableInv'
      BY <1>5 DEF tables
<1>6. ASSUME NEW p \in Slots, SignIn(p), \A u \in Users : ~ Create(p, u)
      PROVE  UNCHANGED tables
      BY <1>6 DEF SignIn, FindByEmail, CreateAnonymousUser, CreateConflict, Sign, tables
<1>7. ASSUME NEW p \in Slots, Profile(p) \/ Fail(p) PROVE UNCHANGED tables
      BY <1>7
      DEF Profile, GetProfile, ReadRow, ReadKind, CountSessions, CountFiles,
          AnswerProfile, Fail, tables
<1>8. ASSUME NEW p \in Slots, Work(p), \A k \in Kinds : ~ Insert(p, k)
      PROVE  UNCHANGED tables
      BY <1>8 DEF Work, StartWork, AssertCanCreate, tables
<1>9. ASSUME NEW settings \in [Kinds -> Settings], Restart(settings)
      PROVE  UNCHANGED tables
      BY <1>9 DEF Restart, tables
<1>10. CASE UNCHANGED vars
       BY <1>10 DEF vars, tables
<1> QED
  BY <1>1, <1>2, <1>3, <1>4, <1>5, <1>6, <1>7, <1>8, <1>9, <1>10 DEF Next

(* A token is signed for the pair its request carries; a request gets its  *)
(* pair from a row or from a token.                                        *)
LEMMA NameStep == IInv /\ [Next]_vars => NameInv'
<1> SUFFICES ASSUME IInv, [Next]_vars PROVE NameInv'
    OBVIOUS
<1> USE DEF IInv, TypeOK
<1>1. \A u, e : Names(u, e) => Names(u, e)'
      BY NamesLast
<1>2. \A t \in tokens' : Names(t.id, t.email)'
  <2>1. CASE tokens' = tokens
        BY <1>1, <2>1 DEF NameInv
  <2>2. ASSUME NEW p \in Slots, Sign(p) PROVE \A t \in tokens' : Names(t.id, t.email)'
        BY <1>1, <2>2 DEF Sign, NameInv
  <2> QED BY <2>1, <2>2
      DEF Next, SignIn, FindByEmail, CreateAnonymousUser, Create, CreateConflict,
          Profile, GetProfile, ReadRow, ReadKind, CountSessions, CountFiles,
          AnswerProfile, Work, StartWork, AssertCanCreate, Insert, DeleteRow,
          Convert, Fail, Restart, vars
<1>3. (\A p \in Slots : who[p] # None => Names(who[p], claim[p]))'
  <2> SUFFICES ASSUME NEW q \in Slots, who'[q] # None
               PROVE  Names(who[q], claim[q])'
      OBVIOUS
  <2>1. CASE who'[q] = who[q] /\ claim'[q] = claim[q]
        BY <1>1, <2>1 DEF NameInv
  <2>2. ASSUME NEW p \in Slots, NEW e \in Emails, FindByEmail(p, e)
        PROVE  Names(who[q], claim[q])'
        BY <1>1, <2>1, <2>2 DEF FindByEmail, tables, Names
  <2>3. ASSUME NEW p \in Slots, NEW u \in Users, Create(p, u)
        PROVE  Names(who[q], claim[q])'
        BY <1>1, <2>1, <2>3 DEF Create, Names
  <2>4. ASSUME NEW p \in Slots, NEW t \in tokens, NEW l, Authenticate(p, t, l)
        PROVE  Names(who[q], claim[q])'
        BY <1>1, <2>1, <2>4 DEF Authenticate, NameInv
  <2>5. ASSUME NEW p \in Slots, End(p) PROVE Names(who[q], claim[q])'
        BY <2>1, <2>5 DEF End
  <2>6. ASSUME NEW settings, Restart(settings) PROVE Names(who[q], claim[q])'
        BY <2>6 DEF Restart
  <2> QED BY <2>1, <2>2, <2>3, <2>4, <2>5, <2>6
      DEF Next, SignIn, CreateAnonymousUser, CreateConflict, Sign, Profile,
          GetProfile, ReadRow, ReadKind, CountSessions, CountFiles, AnswerProfile,
          Work, StartWork, AssertCanCreate, Insert, DeleteRow, Convert, Fail,
          request, vars
<1>4. \A e \in conflicts' : \E u \in users' : email'[u] = e
  <2> SUFFICES ASSUME NEW e \in conflicts' PROVE \E u \in users' : email'[u] = e
      OBVIOUS
  <2>1. PICK u \in users : email[u] = e /\ e # None
    <3>1. CASE e \in conflicts
          BY <3>1, ConstantsOK DEF NameInv
    <3>2. CASE e \notin conflicts
          BY <3>2 DEF Next, SignIn, FindByEmail, CreateAnonymousUser, Create,
             CreateConflict, Sign, Profile, GetProfile, ReadRow, ReadKind,
             CountSessions, CountFiles, AnswerProfile, Work, StartWork,
             AssertCanCreate, Insert, DeleteRow, Convert, Fail, Restart, vars
    <3> QED BY <3>1, <3>2
  <2>2. Names(u, e)'
        BY <1>1, <2>1 DEF Names
  <2> QED BY <2>1, <2>2 DEF Names
<1> QED BY <1>2, <1>3, <1>4 DEF NameInv

(* An account without an e-mail has a token without one: the kind read     *)
(* from the row is the kind of the token.                                  *)
LEMMA KindOfToken ==
    ASSUME IInv, NEW p \in Slots, who[p] # None
    PROVE  isAnonymous(who[p]) <=> claim[p] = None
BY DEF IInv, NameInv, Names, isAnonymous

(* A deleted account stays deleted and without rows.                       *)
LEMMA DeletedLast ==
    ASSUME IInv, [Next]_vars, NEW u \in used, u \notin users
    PROVE  u \notin users'
<1> USE DEF tables
<1>1. ASSUME NEW p \in Slots, NEW v \in Users, Create(p, v) PROVE u \notin users'
      BY <1>1 DEF Create
<1>2. ASSUME NEW a \in tokens, NEW t \in tokens, Convert(a, t) PROVE u \notin users'
      BY <1>2 DEF Convert
<1>3. ASSUME NEW p \in Slots, SignIn(p), \A v \in Users : ~ Create(p, v)
      PROVE  users' = users
      BY <1>3 DEF SignIn, FindByEmail, CreateAnonymousUser, CreateConflict, Sign
<1>4. ASSUME NEW p \in Slots, Profile(p) PROVE users' = users
      BY <1>4
      DEF Profile, GetProfile, ReadRow, ReadKind, CountSessions, CountFiles,
          AnswerProfile
<1>5. ASSUME NEW p \in Slots, Work(p) \/ Fail(p) PROVE users' = users
      BY <1>5 DEF Work, StartWork, AssertCanCreate, Insert, Fail
<1>6. ASSUME NEW t \in tokens, NEW k \in Kinds, DeleteRow(t, k) PROVE users' = users
      BY <1>6 DEF DeleteRow
<1>7. ASSUME NEW settings \in [Kinds -> Settings], Restart(settings)
      PROVE  users' = users
      BY <1>7 DEF Restart
<1>8. CASE UNCHANGED vars
      BY <1>8 DEF vars
<1> QED BY <1>1, <1>2, <1>3, <1>4, <1>5, <1>6, <1>7, <1>8 DEF Next

(* One read extends the profile and leaves what the earlier ones found.    *)
LEMMA ReadStep == IInv /\ [Next]_vars => ReadInv'
<1> SUFFICES ASSUME IInv, [Next]_vars, NEW q \in Slots PROVE ReadBy(q)'
    BY DEF ReadInv
<1> USE DEF IInv, TypeOK, ReadInv, Goto
<1>1. who[q] # None /\ who[q] \notin users => who[q] \notin users'
  <2> SUFFICES ASSUME who[q] # None, who[q] \notin users PROVE who[q] \notin users'
      OBVIOUS
  <2>1. who[q] \in used
        BY DEF NameInv, Names
  <2> QED BY <2>1, DeletedLast
<1>2. CASE pc'[q] = pc[q] /\ who'[q] = who[q] /\ claim'[q] = claim[q]
           /\ shown'[q] = shown[q] /\ env' = env
      BY <1>1, <1>2 DEF ReadBy, limitsFor, readLimit
<1>3. ASSUME NEW p \in Slots, End(p), env' = env PROVE ReadBy(q)'
  <2>1. CASE p = q
        BY <1>3, <2>1 DEF End, ReadBy
  <2>2. CASE p # q
        BY <1>2, <1>3, <2>2 DEF End
  <2> QED BY <2>1, <2>2
<1>4. ASSUME NEW settings \in [Kinds -> Settings], Restart(settings)
      PROVE  ReadBy(q)'
      BY <1>4 DEF Restart, ReadBy
\* Steps that leave shown[p] empty.
<1>5. ASSUME NEW p \in Slots, shown' = shown, env' = env,
             \A r \in Slots \ {p} : pc'[r] = pc[r] /\ who'[r] = who[r] /\ claim'[r] = claim[r],
             pc[p] \notin {"anonymous", "sessions", "files", "shown"},
             pc'[p] \notin {"anonymous", "sessions", "files", "shown"}
      PROVE  ReadBy(q)'
  <2>1. CASE p = q
        BY <1>5, <2>1 DEF ReadBy
  <2>2. CASE p # q
        BY <1>2, <1>5, <2>2
  <2> QED BY <2>1, <2>2
<1>6. ASSUME NEW p \in Slots, ReadRow(p) PROVE ReadBy(q)'
  <2> DEFINE b == who[p] \in users
  <2>1. /\ pc[p] = "row" /\ pc' = [pc EXCEPT ![p] = "anonymous"]
        /\ shown' = [shown EXCEPT ![p] = [shown[p] EXCEPT !.found = b]]
        /\ users' = users /\ who' = who /\ claim' = claim /\ env' = env
        BY <1>6 DEF ReadRow, tables
  <2>2. b = (who[p] \in users) /\ b \in BOOLEAN
        OBVIOUS
  <2> HIDE DEF b
  <2>3. CASE p = q
    <3>1. shown[p] = NoProfile
          BY <2>1 DEF ReadBy
    <3>2. shown'[p].found = b /\ shown'[p].count = [k \in Kinds |-> 0]
          BY <2>1, <3>1 DEF NoProfile
    <3>3. pc'[p] = "anonymous" /\ users' = users /\ who'[p] = who[p]
          BY <2>1
    <3> QED BY <2>2, <2>3, <3>2, <3>3 DEF ReadBy
  <2>4. CASE p # q
        BY <1>2, <2>1, <2>4
  <2> QED BY <2>3, <2>4
<1>7. ASSUME NEW p \in Slots, ReadKind(p) PROVE ReadBy(q)'
  <2> DEFINE b == isAnonymous(who[p])
  <2>1. /\ pc[p] = "anonymous" /\ pc' = [pc EXCEPT ![p] = "sessions"]
        /\ shown' = [shown EXCEPT ![p] = [shown[p] EXCEPT !.isAnonymous = b]]
        /\ users' = users /\ who' = who /\ claim' = claim /\ env' = env
        BY <1>7 DEF ReadKind, tables
  <2>2. (b <=> claim[p] = None) /\ b \in BOOLEAN
        BY <2>1, KindOfToken DEF isAnonymous
  <2> HIDE DEF b
  <2>3. CASE p = q
        BY <2>1, <2>2, <2>3 DEF ReadBy, ProfileRecord
  <2>4. CASE p # q
        BY <1>2, <2>1, <2>4
  <2> QED BY <2>3, <2>4
<1>8. ASSUME NEW p \in Slots, CountSessions(p) PROVE ReadBy(q)'
  <2>1. CASE p = q
    <3>1. who[p] \in Users /\ (~ shown[p].found => count[who[p]]["chat_sessions"] = 0)
          BY <1>8 DEF CountSessions, ReadBy, TableInv, Kinds
    <3> QED BY <1>8, <2>1, <3>1 DEF CountSessions, ReadBy, ProfileRecord, tables
  <2>2. CASE p # q
        BY <1>2, <1>8, <2>2 DEF CountSessions
  <2> QED BY <2>1, <2>2
<1>9. ASSUME NEW p \in Slots, CountFiles(p) PROVE ReadBy(q)'
  <2>1. CASE p = q
    <3>1. who[p] \in Users /\ (~ shown[p].found => count[who[p]]["files"] = 0)
          BY <1>9 DEF CountFiles, ReadBy, TableInv, Kinds
    <3>2. limitsFor(shown[p].isAnonymous)' = limitsFor(shown'[p].isAnonymous)
          BY <1>9 DEF CountFiles, limitsFor, readLimit
    <3> QED BY <1>9, <2>1, <3>1, <3>2
        DEF CountFiles, ReadBy, ProfileRecord, tables, limitsFor, readLimit
  <2>2. CASE p # q
        BY <1>2, <1>9, <2>2 DEF CountFiles
  <2> QED BY <2>1, <2>2
<1>10. ASSUME NEW p \in Slots, SignIn(p) PROVE ReadBy(q)'
  <2>1. ASSUME NEW e \in Emails, FindByEmail(p, e) PROVE ReadBy(q)'
        BY <1>5, <2>1 DEF FindByEmail
  <2>2. CASE CreateAnonymousUser(p)
        BY <1>5, <2>2 DEF CreateAnonymousUser, request
  <2>3. ASSUME NEW u \in Users, Create(p, u) PROVE ReadBy(q)'
        BY <1>5, <2>3 DEF Create
  <2>4. CASE CreateConflict(p) \/ Sign(p)
        BY <1>3, <2>4 DEF CreateConflict, Sign
  <2> QED BY <1>10, <2>1, <2>2, <2>3, <2>4 DEF SignIn
<1>11. ASSUME NEW p \in Slots, Work(p) PROVE ReadBy(q)'
  <2>1. ASSUME NEW t \in tokens, StartWork(p, t) PROVE ReadBy(q)'
        BY <1>5, <2>1 DEF StartWork, Authenticate
  <2>2. ASSUME NEW k \in Kinds, AssertCanCreate(p, k) PROVE ReadBy(q)'
        BY <1>5, <2>2 DEF AssertCanCreate, request, InsertPc
  <2>3. ASSUME NEW k \in Kinds, Insert(p, k) PROVE ReadBy(q)'
        BY <1>3, <2>3 DEF Insert
  <2> QED BY <1>11, <2>1, <2>2, <2>3 DEF Work
<1>12. ASSUME NEW p \in Slots, NEW t \in tokens, GetProfile(p, t) PROVE ReadBy(q)'
       BY <1>5, <1>12 DEF GetProfile, Authenticate
<1>13. ASSUME NEW p \in Slots, AnswerProfile(p) \/ Fail(p) PROVE ReadBy(q)'
       BY <1>3, <1>13 DEF AnswerProfile, Fail
<1>14. CASE UNCHANGED <<pc, who, claim, shown, env>>
       BY <1>2, <1>14
<1> QED
  BY <1>4, <1>6, <1>7, <1>8, <1>9, <1>10, <1>11, <1>12, <1>13, <1>14
  DEF Next, Profile, DeleteRow, Convert, request, vars

-----------------------------------------------------------------------------
(* The inductive invariant.                                                *)
THEOREM Invariance == Spec => []IInv
<1>1. Init => IInv
      BY InvInit
<1>2. IInv /\ [Next]_vars => IInv'
      BY TypeStep, TableStep, NameStep, ReadStep DEF IInv
<1> QED BY <1>1, <1>2, PTL DEF Spec

(* Type correctness.                                                       *)
THEOREM TypeCorrect == Spec => []TypeOK
<1>1. IInv => TypeOK
      BY DEF IInv
<1> QED BY <1>1, Invariance, PTL

(* All tokens for an address name the one account that has it.             *)
THEOREM EmailsNameOneAccount == Spec => []OneAccountPerEmail
<1>1. IInv => OneAccountPerEmail
      BY DEF IInv, TypeOK, TableInv, NameInv, Names, OneAccountPerEmail
<1> QED BY <1>1, Invariance, PTL

(* A sign-in that lost the race succeeds when repeated.                    *)
THEOREM SignInsStay == Spec => []SignInsLast
<1>1. IInv => SignInsLast
      BY DEF IInv, NameInv, Names, SignInsLast
<1> QED BY <1>1, Invariance, PTL

(* The four reads of a profile agree with one another.                     *)
THEOREM ProfilesAgree == Spec => []ProfileIsCoherent
<1>1. ASSUME IInv, NEW p \in Slots, pc[p] = "shown"
      PROVE  /\ shown[p].isAnonymous <=> claim[p] = None
             /\ shown[p].limits = limitsForUser(who[p])
             /\ ~ shown[p].found =>
                   claim[p] = None /\ \A k \in Kinds : shown[p].count[k] = 0
  <2>1. ReadBy(p)
        BY <1>1 DEF IInv, ReadInv
  <2>2. who[p] # None /\ Names(who[p], claim[p])
        BY <1>1 DEF IInv, TypeOK, NameInv
  <2>3. isAnonymous(who[p]) <=> claim[p] = None
        BY <1>1, <2>2, KindOfToken
  <2>4. shown[p].isAnonymous \in BOOLEAN
        BY <1>1 DEF IInv, TypeOK, ProfileRecord
  <2>5. shown[p].isAnonymous = isAnonymous(who[p])
        BY <1>1, <2>1, <2>3, <2>4 DEF ReadBy, isAnonymous
  <2>6. limitsForUser(who[p]) = limitsFor(shown[p].isAnonymous)
        BY <2>5 DEF limitsForUser, isAnonymous
  <2> QED BY <1>1, <2>1, <2>2, <2>6 DEF ReadBy, Names
<1>2. IInv => ProfileIsCoherent
      BY <1>1 DEF ProfileIsCoherent
<1> QED BY <1>2, Invariance, PTL

-----------------------------------------------------------------------------
(* The quota under every environment.                                      *)

\* No value of the environment reads as unlimited.
LEMMA LimitsAreNumbers ==
    ASSUME TypeOK, NEW k \in Kinds
    PROVE  limitsFor(TRUE)[k] = readLimit(k) /\ readLimit(k) \in Nat
<1>1. env[k] \in Setting /\ DefaultLimit[k] \in Nat
      BY ConstantsOK DEF TypeOK
<1>2. env[k].value \in Int
      BY <1>1 DEF Setting
<1> QED BY <1>1, <1>2 DEF limitsFor, readLimit

\* The requests in front of an insert, and how their number can change.
LEMMA CountsOfInserts ==
    ASSUME TypeOK, NEW u \in Users, NEW k \in Kinds
    PROVE  /\ IsFiniteSet(Inserting(u, k)) /\ Cardinality(Inserting(u, k)) \in Nat
           /\ Cardinality(Inserting(u, k)) <= Cardinality(Slots)
           /\ \A T \in SUBSET Inserting(u, k) :
                 Cardinality(T) \in Nat /\ Cardinality(T) <= Cardinality(Inserting(u, k))
           /\ \A p \in Inserting(u, k) :
                 Cardinality(Inserting(u, k) \ {p}) = Cardinality(Inserting(u, k)) - 1
           /\ Cardinality(Slots) \in Nat /\ count[u][k] \in Nat
<1>1. IsFiniteSet(Slots) /\ Inserting(u, k) \in SUBSET Slots
      BY ConstantsOK DEF Inserting
<1>2. IsFiniteSet(Inserting(u, k)) /\ Cardinality(Inserting(u, k)) <= Cardinality(Slots)
      BY <1>1, FS_Subset
<1>3. Cardinality(Slots) \in Nat /\ Cardinality(Inserting(u, k)) \in Nat
      BY <1>1, <1>2, FS_CardinalityType
<1>4. ASSUME NEW T \in SUBSET Inserting(u, k)
      PROVE  Cardinality(T) \in Nat /\ Cardinality(T) <= Cardinality(Inserting(u, k))
      BY <1>2, FS_Subset, FS_CardinalityType
<1>5. ASSUME NEW p \in Inserting(u, k)
      PROVE  Cardinality(Inserting(u, k) \ {p}) = Cardinality(Inserting(u, k)) - 1
      BY <1>2, FS_RemoveElement
<1>6. count[u][k] \in Nat
      BY ConstantsOK DEF TypeOK
<1> QED BY <1>2, <1>3, <1>4, <1>5, <1>6

LEMMA LimitStep == IInv /\ AnonymousStaysLimited /\ [Next]_vars => AnonymousStaysLimited'
<1> SUFFICES ASSUME IInv, AnonymousStaysLimited, [Next]_vars,
                    NEW u \in Users, NEW k \in Kinds,
                    u \in users', email'[u] = None, Inserting(u, k)' # {}
             PROVE  count'[u][k] + Cardinality(Inserting(u, k)')
                        < limitsFor(TRUE)'[k] + Cardinality(Slots)
    BY DEF AnonymousStaysLimited
<1>0. TypeOK /\ TypeOK' /\ NameInv
      BY TypeStep DEF IInv
<1> DEFINE limit == limitsFor(TRUE)[k]
           Bounded == count'[u][k] + Cardinality(Inserting(u, k)')
                          < limit' + Cardinality(Slots)
           Was == u \in users /\ email[u] = None
           Shrinks == /\ Was /\ env' = env /\ count'[u][k] <= count[u][k]
                      /\ Inserting(u, k)' \subseteq Inserting(u, k)
<1>1. /\ IsFiniteSet(Inserting(u, k)) /\ Cardinality(Inserting(u, k)) \in Nat
      /\ Cardinality(Slots) \in Nat /\ count[u][k] \in Nat /\ count'[u][k] \in Nat
      /\ Cardinality(Inserting(u, k)') \in Nat
      /\ Cardinality(Inserting(u, k)') <= Cardinality(Slots)
  <2>1. IsFiniteSet(Slots) /\ Inserting(u, k)' \in SUBSET Slots
        BY ConstantsOK DEF Inserting
  <2>2. count'[u][k] \in Nat
        BY <1>0, ConstantsOK DEF TypeOK
  <2> QED BY <1>0, <2>1, <2>2, CountsOfInserts, FS_Subset, FS_CardinalityType
<1>2. limit = readLimit(k) /\ readLimit(k) \in Nat
      BY <1>0, LimitsAreNumbers
<1>3. env' = env => limit' = readLimit(k)
      BY <1>2 DEF limitsFor, readLimit
<1>a. Was /\ Inserting(u, k) # {} =>
          count[u][k] + Cardinality(Inserting(u, k)) < limit + Cardinality(Slots)
      BY DEF AnonymousStaysLimited
<1> HIDE DEF limit
<1>4. ASSUME Shrinks PROVE Bounded
  <2>1. Inserting(u, k) # {} /\ Cardinality(Inserting(u, k)') <= Cardinality(Inserting(u, k))
        BY <1>4, <1>0, CountsOfInserts
  <2>2. count[u][k] + Cardinality(Inserting(u, k)) < readLimit(k) + Cardinality(Slots)
        BY <1>2, <1>a, <1>4, <2>1
  <2>3. limit' = readLimit(k) /\ count'[u][k] <= count[u][k]
        BY <1>3, <1>4
  <2> QED BY <1>1, <1>2, <2>1, <2>2, <2>3
<1>5. ASSUME tables' = tables PROVE Was /\ count' = count
      BY <1>5 DEF tables
<1> HIDE DEF Bounded, Was, Shrinks
<1>6. ASSUME NEW p \in Slots, Work(p) PROVE Bounded
  <2>1. ASSUME NEW t \in tokens, StartWork(p, t) PROVE Shrinks
        BY <1>0, <1>1, <1>5, <2>1
        DEF Shrinks, StartWork, Authenticate, Goto, Inserting, InsertPc, TypeOK
  <2>2. ASSUME NEW j \in Kinds, AssertCanCreate(p, j) PROVE Bounded
    <3>1. Was /\ count' = count /\ env' = env
          BY <2>2, <1>5 DEF AssertCanCreate
    <3>2. CASE who[p] = u /\ j = k
      <4>1. limitsForUser(u)[k] = limit
            BY <3>1 DEF Was, limitsForUser, limitsFor, limit
      <4>2. count[u][k] < readLimit(k)
            BY <1>2, <2>2, <3>2, <4>1 DEF AssertCanCreate, UNLIMITED
      <4> QED BY <1>1, <1>2, <1>3, <3>1, <4>2 DEF Bounded
    <3>3. CASE ~ (who[p] = u /\ j = k)
      <4>1. Shrinks
            BY <1>0, <1>1, <2>2, <3>1, <3>3
            DEF Shrinks, AssertCanCreate, Goto, request, Inserting, InsertPc, TypeOK, Kinds
      <4> QED BY <1>4, <4>1
    <3> QED BY <3>2, <3>3
  <2>3. ASSUME NEW j \in Kinds, Insert(p, j) PROVE Bounded
    <3>1. Was /\ env' = env
          BY <2>3 DEF Insert, Was
    <3>2. CASE who[p] = u /\ j = k
      <4>1. /\ p \in Inserting(u, k) /\ Inserting(u, k)' = Inserting(u, k) \ {p}
            /\ count'[u][k] = count[u][k] + 1
            BY <1>0, <2>3, <3>2
            DEF Insert, End, Goto, Inserting, InsertPc, TypeOK, Kinds
      <4>2. /\ Cardinality(Inserting(u, k)') = Cardinality(Inserting(u, k)) - 1
            /\ Inserting(u, k) # {}
            BY <1>0, <4>1, CountsOfInserts
      <4>3. count[u][k] + Cardinality(Inserting(u, k)) < readLimit(k) + Cardinality(Slots)
            BY <1>2, <1>a, <3>1, <4>2
      <4> QED BY <1>1, <1>2, <1>3, <3>1, <4>1, <4>2, <4>3 DEF Bounded
    <3>3. CASE ~ (who[p] = u /\ j = k)
      <4>1. count'[u][k] = count[u][k]
            BY <1>0, <2>3, <3>3 DEF Insert, TypeOK
      <4>2. Inserting(u, k)' \subseteq Inserting(u, k)
            BY <1>0, <2>3, ConstantsOK DEF Insert, End, Goto, Inserting, InsertPc, TypeOK
      <4> QED BY <1>1, <1>4, <3>1, <4>1, <4>2 DEF Shrinks
    <3> QED BY <3>2, <3>3
  <2> QED BY <1>4, <1>6, <2>1, <2>2, <2>3 DEF Work
<1>7. ASSUME NEW p \in Slots, End(p), UNCHANGED <<tables, env>> PROVE Shrinks
      BY <1>0, <1>1, <1>5, <1>7 DEF Shrinks, End, Goto, Inserting, InsertPc, TypeOK
<1>8. ASSUME NEW p \in Slots, SignIn(p) PROVE Shrinks
  <2>1. ASSUME NEW e \in Emails, FindByEmail(p, e) PROVE Shrinks
        BY <1>0, <1>1, <1>5, <2>1
        DEF Shrinks, FindByEmail, Goto, Inserting, InsertPc, TypeOK
  <2>2. CASE CreateAnonymousUser(p)
        BY <1>0, <1>1, <1>5, <2>2
        DEF Shrinks, CreateAnonymousUser, Goto, request, Inserting, InsertPc, TypeOK
  <2>3. ASSUME NEW v \in Users, Create(p, v) PROVE Shrinks
    <3>1. Inserting(u, k)' \subseteq Inserting(u, k)
          BY <1>0, <2>3 DEF Create, Goto, Inserting, InsertPc, TypeOK
    <3>2. u # v
      <4>1. PICK q \in Slots : q \in Inserting(u, k)
            BY <3>1 DEF Inserting
      <4>2. who[q] = u /\ u # None
            BY <4>1, ConstantsOK DEF Inserting
      <4>3. u \in used
            BY <1>0, <4>2 DEF NameInv, Names
      <4> QED BY <2>3, <4>3 DEF Create
    <3>3. Was
          BY <1>0, <2>3, <3>2 DEF Create, Was, TypeOK
    <3> QED BY <1>1, <2>3, <3>1, <3>3 DEF Create, Shrinks
  <2>4. CASE CreateConflict(p) \/ Sign(p)
        BY <1>7, <2>4 DEF CreateConflict, Sign
  <2> QED BY <1>8, <2>1, <2>2, <2>3, <2>4 DEF SignIn
<1>9. ASSUME NEW p \in Slots, Profile(p) PROVE Shrinks
  <2>1. ASSUME NEW t \in tokens, GetProfile(p, t) PROVE Shrinks
        BY <1>0, <1>1, <1>5, <2>1
        DEF Shrinks, GetProfile, Authenticate, Goto, Inserting, InsertPc, TypeOK
  <2>2. ASSUME NEW l, l \notin {InsertPc(j) : j \in Kinds}, Goto(p, l),
               UNCHANGED <<tables, env, who>>
        PROVE  Shrinks
        BY <1>0, <1>1, <1>5, <2>2 DEF Shrinks, Goto, Inserting, TypeOK
  <2>3. CASE ReadRow(p) \/ ReadKind(p) \/ CountSessions(p) \/ CountFiles(p)
    <3>1. PICK l \in {"anonymous", "sessions", "files", "shown"} : Goto(p, l)
          BY <2>3 DEF ReadRow, ReadKind, CountSessions, CountFiles
    <3>2. UNCHANGED <<tables, env, who>>
          BY <2>3 DEF ReadRow, ReadKind, CountSessions, CountFiles
    <3> QED BY <2>2, <3>1, <3>2 DEF InsertPc
  <2>4. CASE AnswerProfile(p)
        BY <1>7, <2>4 DEF AnswerProfile
  <2> QED BY <1>9, <2>1, <2>3, <2>4 DEF Profile
<1>10. ASSUME NEW p \in Slots, Fail(p) PROVE Shrinks
       BY <1>7, <1>10 DEF Fail
<1>11. ASSUME NEW t \in tokens, NEW j \in Kinds, DeleteRow(t, j) PROVE Shrinks
  <2>1. count'[u][k] <= count[u][k]
        BY <1>0, <1>1, <1>11 DEF DeleteRow, TypeOK
  <2> QED BY <1>11, <2>1 DEF DeleteRow, request, Shrinks, Was, Inserting
<1>12. ASSUME NEW a \in tokens, NEW t \in tokens, Convert(a, t) PROVE Shrinks
  <2>1. u # a.id /\ u # t.id /\ Was
        BY <1>12 DEF Convert, Was
  <2>2. count'[u] = count[u]
        BY <1>0, <1>12, <2>1 DEF Convert, TypeOK
  <2> QED BY <1>1, <1>12, <2>1, <2>2 DEF Convert, request, Shrinks, Inserting
<1>13. ASSUME NEW settings \in [Kinds -> Settings], Restart(settings)
       PROVE  Inserting(u, k)' = {}
       BY <1>13 DEF Restart, Inserting, InsertPc
<1>14. ASSUME UNCHANGED vars PROVE Shrinks
  <2>1. Inserting(u, k)' = Inserting(u, k)
        BY <1>14 DEF vars, Inserting
  <2>2. tables' = tables /\ env' = env
        BY <1>14 DEF vars, tables
  <2> QED BY <1>1, <1>5, <2>1, <2>2 DEF Shrinks
<1>15. Bounded
  <2>1. CASE \E p \in Slots : SignIn(p) \/ Profile(p) \/ Work(p) \/ Fail(p)
        BY <1>4, <1>6, <1>8, <1>9, <1>10, <2>1
  <2>2. CASE \E t \in tokens, j \in Kinds : DeleteRow(t, j)
        BY <1>4, <1>11, <2>2
  <2>3. CASE \E a, t \in tokens : Convert(a, t)
        BY <1>4, <1>12, <2>3
  <2>4. CASE \E settings \in [Kinds -> Settings] : Restart(settings)
        BY <1>13, <2>4
  <2> QED BY <1>4, <1>14, <2>1, <2>2, <2>3, <2>4 DEF Next
<1> QED BY <1>15 DEF Bounded, limit

(* Whatever the environment holds, the limits of accounts without an       *)
(* address stay in force: such an account grows only below the limit, plus *)
(* the requests that passed the check together.                            *)
THEOREM LimitsStayInForce == Spec => []AnonymousStaysLimited
<1>1. Init => AnonymousStaysLimited
      BY DEF Init, AnonymousStaysLimited
<1> QED BY <1>1, LimitStep, Invariance, PTL DEF Spec

-----------------------------------------------------------------------------
(* The accounts of this module are those of Workspace and Answers: apart   *)
(* from its rows, which are only counted here, each is an AccountLife.     *)

KindSeen(u) ==
    CASE u \notin used -> "none"
      [] u \in used \ users -> "closed"
      [] u \in users /\ email[u] = None -> "anonymous"
      [] u \in users /\ email[u] # None -> "signed_in"

NoRows == [r \in {} |-> "free"]

Life(u) == INSTANCE AccountLife
    WITH Sessions <- {}, Files <- {}, kind <- KindSeen(u), session <- NoRows, file <- NoRows

LEMMA KindStep ==
    ASSUME IInv, [Next]_vars, NEW u \in Users
    PROVE  \/ KindSeen(u)' = KindSeen(u)
           \/ KindSeen(u) = "none" /\ KindSeen(u)' \in {"anonymous", "signed_in"}
           \/ KindSeen(u) = "anonymous" /\ KindSeen(u)' = "closed"
<1>0. users \subseteq used /\ used \subseteq Users /\ email \in [Users -> Emails \cup {None}]
      BY DEF IInv, TypeOK
<1>1. CASE users' = users /\ used' = used /\ email' = email
      BY <1>1 DEF KindSeen
<1>2. ASSUME NEW p \in Slots, NEW v \in Users, Create(p, v)
      PROVE  \/ KindSeen(u)' = KindSeen(u)
             \/ KindSeen(u) = "none" /\ KindSeen(u)' \in {"anonymous", "signed_in"}
  <2>1. /\ v \notin used /\ users' = users \cup {v} /\ used' = used \cup {v}
        /\ \A w \in Users : w # v => email'[w] = email[w]
        BY <1>0, <1>2 DEF Create
  <2>2. CASE u = v
        BY <1>0, <2>1, <2>2 DEF KindSeen
  <2>3. CASE u # v
        BY <1>0, <2>1, <2>3 DEF KindSeen
  <2> QED BY <2>2, <2>3
<1>3. ASSUME NEW a \in tokens, NEW t \in tokens, Convert(a, t)
      PROVE  \/ KindSeen(u)' = KindSeen(u)
             \/ KindSeen(u) = "anonymous" /\ KindSeen(u)' = "closed"
  <2>1. /\ a.id \in users /\ email[a.id] = None
        /\ users' = users \ {a.id} /\ used' = used /\ email' = email
        BY <1>3 DEF Convert
  <2>2. CASE u = a.id
        BY <1>0, <2>1, <2>2 DEF KindSeen
  <2>3. CASE u # a.id
        BY <1>0, <2>1, <2>3 DEF KindSeen
  <2> QED BY <2>2, <2>3
<1>4. \/ users' = users /\ used' = used /\ email' = email
      \/ \E p \in Slots, v \in Users : Create(p, v)
      \/ \E a, t \in tokens : Convert(a, t)
      BY DEF Next, vars, SignIn, Profile, Work, FindByEmail, CreateAnonymousUser,
         CreateConflict, Sign, GetProfile, ReadRow, ReadKind, CountSessions, CountFiles,
         AnswerProfile, StartWork, AssertCanCreate, Insert, DeleteRow, Fail, Restart, tables
<1> QED BY <1>1, <1>2, <1>3, <1>4

\* However sign-ins race, no account changes its kind except by a conversion,
\* and none that was closed is opened again.
THEOREM KindsLast ==
    Spec => /\ \A u \in Users : Life(u)!Init
            /\ [][\A u \in Users : UNCHANGED Life(u)!vars \/ Life(u)!Next]_vars
<1>1. Init => \A u \in Users : Life(u)!Init
      BY DEF Init, Life!Init, Life!Open, KindSeen, NoRows
<1>2. IInv /\ [Next]_vars =>
         [\A u \in Users : UNCHANGED Life(u)!vars \/ Life(u)!Next]_vars
  <2> SUFFICES ASSUME IInv, [Next]_vars, NEW u \in Users
               PROVE  UNCHANGED Life(u)!vars \/ Life(u)!Next
      OBVIOUS
  <2>0. NoRows' = NoRows
        BY DEF NoRows
  <2>1. CASE KindSeen(u)' = KindSeen(u)
        BY <2>0, <2>1 DEF Life!vars
  <2>2. CASE KindSeen(u) = "none" /\ KindSeen(u)' \in {"anonymous", "signed_in"}
    <3>1. \E k \in Life(u)!Open : Life(u)!SignUp(k)
          BY <2>0, <2>2 DEF Life!SignUp, Life!Open
    <3> QED BY <3>1 DEF Life!Next
  <2>3. CASE KindSeen(u) = "anonymous" /\ KindSeen(u)' = "closed"
    <3>1. NoRows = Life(u)!Handed(NoRows, {})
          BY DEF Life!Handed, NoRows
    <3>2. Life(u)!Close({})
          BY <2>0, <2>3, <3>1 DEF Life!Close
    <3> QED BY <3>2 DEF Life!Next
  <2> QED BY <2>1, <2>2, <2>3, KindStep
<1> QED BY <1>1, <1>2, Invariance, PTL DEF Spec
=============================================================================
