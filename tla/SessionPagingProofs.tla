------------------------- MODULE SessionPagingProofs -------------------------
(* Theorems about SessionPaging for any number of sessions, any clock and  *)
(* any page sizes.                                                         *)
EXTENDS SessionPaging, FiniteSetTheorems, TLAPS

\* A set of numbers has a least one.
LEMMA Least ==
    ASSUME NEW T, T \subseteq Nat, T # {}
    PROVE  \E x \in T : \A y \in T : x <= y
<1> DEFINE R == OpToRel(<, Nat)
<1>1. IsWellFoundedOn(R, Nat)
      BY NatLessThanWellFounded
<1>2. \A x, y \in Nat : <<y, x>> \in R <=> y < x
      BY DEF OpToRel
<1> HIDE DEF R
<1>3. PICK x \in T : \A y \in T : ~ (<<y, x>> \in R)
      BY <1>1, WFMin
<1>4. ASSUME NEW y \in T PROVE x <= y
  <2>1. x \in Nat /\ y \in Nat /\ ~ (<<y, x>> \in R)
        BY <1>3
  <2>2. ~ (y < x)
        BY <1>2, <2>1
  <2> QED BY <2>1, <2>2
<1> QED BY <1>4

-----------------------------------------------------------------------------
(* The order of the list, and the first rows of a set in it.               *)
Rank(S, s) == Cardinality({r \in S : Above(r, s)})

LEMMA AboveOrder ==
    ASSUME TypeOK
    PROVE  /\ \A r \in Sessions : ~ Above(r, r)
           /\ \A r, s \in Sessions : r # s => Above(r, s) \/ Above(s, r)
           /\ \A r, s, t \in Sessions : Above(r, s) /\ Above(s, t) => Above(r, t)
<1> USE ConstantsOK DEF TypeOK, Above, Sessions
<1>1. \A r \in Sessions : updatedAt[r] \in Nat /\ r \in Nat
      OBVIOUS
<1> QED BY <1>1

LEMMA RankOf ==
    ASSUME TypeOK, NEW S, S \subseteq Sessions
    PROVE  /\ IsFiniteSet(S)
           /\ \A s : Rank(S, s) \in Nat
           /\ \A r, s \in S : Above(r, s) => Rank(S, r) < Rank(S, s)
<1>1. IsFiniteSet(Sessions)
      BY FS_Interval, ConstantsOK DEF Sessions
<1>2. IsFiniteSet(S)
      BY <1>1, FS_Subset
<1>3. ASSUME NEW s PROVE IsFiniteSet({r \in S : Above(r, s)}) /\ Rank(S, s) \in Nat
      BY <1>2, FS_Subset, FS_CardinalityType DEF Rank
<1>4. ASSUME NEW r \in S, NEW s \in S, Above(r, s) PROVE Rank(S, r) < Rank(S, s)
  <2> DEFINE A(x) == {y \in S : Above(y, x)}
  <2>1. A(r) \subseteq A(s) /\ r \in A(s) /\ r \notin A(r)
    <3>1. r \in Sessions /\ s \in Sessions
          OBVIOUS
    <3>2. ~ Above(r, r) /\ \A y \in Sessions : Above(y, r) => Above(y, s)
          BY <1>4, <3>1, AboveOrder
    <3> QED BY <1>4, <3>2
  <2>2. IsFiniteSet(A(s)) /\ IsFiniteSet(A(r))
        BY <1>3
  <2> HIDE DEF A
  <2>3. Cardinality(A(r)) <= Cardinality(A(s)) /\ Cardinality(A(r)) # Cardinality(A(s))
        BY <2>1, <2>2, FS_Subset
  <2>4. Rank(S, r) = Cardinality(A(r)) /\ Rank(S, s) = Cardinality(A(s))
        BY DEF Rank, A
  <2>5. Rank(S, r) \in Nat /\ Rank(S, s) \in Nat
        BY <1>3
  <2> QED BY <2>3, <2>4, <2>5
<1> QED BY <1>2, <1>3, <1>4

\* Of the rows that are not among the first n, one has at most n above it.
LEMMA FirstOf ==
    ASSUME TypeOK, NEW S, S \subseteq Sessions, NEW n \in Nat
    PROVE  /\ First(S, n) \subseteq S
           /\ \A r \in First(S, n), s \in S \ First(S, n) : Above(r, s)
           /\ S # First(S, n) => Cardinality(First(S, n)) >= n
<1> USE DEF Rank
<1>1. First(S, n) = {s \in S : Rank(S, s) < n}
      BY DEF First
<1> HIDE DEF Rank
<1>2. ASSUME NEW r \in First(S, n), NEW s \in S \ First(S, n) PROVE Above(r, s)
  <2>1. Rank(S, r) < n /\ ~ (Rank(S, s) < n) /\ r \in S /\ r # s
        BY <1>1
  <2>2. Rank(S, r) \in Nat /\ Rank(S, s) \in Nat
        BY RankOf
  <2>3. ~ Above(s, r)
        BY <2>1, <2>2, RankOf
  <2> QED BY <2>1, <2>3, AboveOrder
<1>3. ASSUME S # First(S, n) PROVE Cardinality(First(S, n)) >= n
  <2> DEFINE T == {Rank(S, s) : s \in S \ First(S, n)}
  <2>1. T \subseteq Nat /\ T # {}
        BY <1>1, <1>3, RankOf
  <2>2. PICK x \in T : \A y \in T : x <= y
        BY <2>1, Least
  <2>3. PICK s \in S \ First(S, n) : x = Rank(S, s)
        BY <2>2
  <2> DEFINE A == {r \in S : Above(r, s)}
  <2>4. A \subseteq First(S, n)
    <3> SUFFICES ASSUME NEW r \in A, r \notin First(S, n) PROVE FALSE
        OBVIOUS
    <3>1. Rank(S, r) < Rank(S, s) /\ Rank(S, r) \in Nat /\ Rank(S, s) \in Nat
          BY RankOf
    <3>2. Rank(S, s) <= Rank(S, r)
          BY <2>2, <2>3
    <3> QED BY <3>1, <3>2
  <2>5. IsFiniteSet(First(S, n))
        BY <1>1, RankOf, FS_Subset
  <2>6. Cardinality(A) <= Cardinality(First(S, n)) /\ Cardinality(First(S, n)) \in Nat
        BY <2>4, <2>5, FS_Subset, FS_CardinalityType
  <2>7. Cardinality(A) = Rank(S, s) /\ Rank(S, s) \in Nat /\ ~ (Rank(S, s) < n)
        BY <1>1, RankOf DEF Rank
  <2> QED BY <2>6, <2>7
<1> QED BY <1>1, <1>2, <1>3

\* The last row of a set.
LEMMA Bottom ==
    ASSUME TypeOK, NEW S, S \subseteq Sessions, S # {}
    PROVE  \E s \in S : \A r \in S \ {s} : Above(r, s)
<1> DEFINE room(s) == Cardinality(S) - Rank(S, s)
<1> DEFINE T == {room(s) : s \in S}
<1>1. /\ Cardinality(S) \in Nat
      /\ \A s \in S : Rank(S, s) \in Nat /\ Rank(S, s) <= Cardinality(S)
  <2>1. IsFiniteSet(S)
        BY RankOf
  <2>2. \A s \in S : {r \in S : Above(r, s)} \in SUBSET S
        OBVIOUS
  <2> QED BY <2>1, <2>2, RankOf, FS_Subset, FS_CardinalityType DEF Rank
<1>2. T \subseteq Nat /\ T # {}
      BY <1>1
<1>3. PICK x \in T : \A y \in T : x <= y
      BY <1>2, Least
<1>4. PICK s \in S : x = room(s)
      BY <1>3
<1>5. ASSUME NEW r \in S \ {s} PROVE Above(r, s)
  <2>1. room(s) <= room(r)
        BY <1>3, <1>4
  <2>2. ~ (Rank(S, s) < Rank(S, r))
        BY <1>1, <2>1
  <2> QED BY <2>2, RankOf, AboveOrder
<1> QED BY <1>5

LEMMA FirstIsSmall ==
    ASSUME TypeOK, NEW S, S \subseteq Sessions, NEW n \in Nat
    PROVE  IsFiniteSet(First(S, n)) /\ Cardinality(First(S, n)) <= n
<1> DEFINE F == First(S, n)
<1>1. F \subseteq S /\ IsFiniteSet(F)
      BY FirstOf, RankOf, FS_Subset
<1>2. CASE F = {}
      BY <1>1, <1>2, FS_EmptySet
<1>3. CASE F # {}
  <2>1. PICK b \in F : \A r \in F \ {b} : Above(r, b)
        BY <1>1, <1>3, Bottom
  <2>2. Rank(S, b) < n /\ Rank(S, b) \in Nat
        BY RankOf DEF First, Rank
  <2> DEFINE A == {r \in S : Above(r, b)}
  <2>3. F \ {b} \subseteq A /\ IsFiniteSet(A)
        BY <1>1, <2>1, RankOf, FS_Subset
  <2>4. Cardinality(F \ {b}) <= Cardinality(A) /\ Cardinality(A) = Rank(S, b)
        BY <2>3, FS_Subset DEF Rank
  <2>5. Cardinality(F \ {b}) = Cardinality(F) - 1 /\ Cardinality(F) \in Nat
        BY <1>1, FS_RemoveElement, FS_CardinalityType
  <2> HIDE DEF F, A
  <2>6. Cardinality(F) <= n
        BY <2>2, <2>4, <2>5
  <2> QED BY <1>1, <2>6 DEF F
<1> QED BY <1>2, <1>3

\* The rows a request looks through.
Found ==
    {s \in Listed(user) : cursor = 0 \/ (owner[cursor] \in Accounts /\ Above(cursor, s))}

LEMMA AnswerPage ==
    ASSUME TypeOK, NEW limit \in Limits, Answer(limit)
    PROVE  /\ page' \subseteq Found
           /\ Cardinality(page') <= MAX_SESSIONS_PAGE_SIZE
           /\ \/ scan' = "ended" /\ cursor' = 0 /\ page' = Found
              \/ /\ scan' = "open" /\ cursor' \in page' /\ cursor' # 0
                 /\ \A r \in page' \ {cursor'} : Above(r, cursor')
                 /\ \A s \in Found \ page' : Above(cursor', s)
<1> DEFINE n == Take(limit)
           F == First(Found, n + 1)
<1>1. n \in Nat /\ n >= 1 /\ n <= MAX_SESSIONS_PAGE_SIZE
      BY ConstantsOK DEF Take
<1>2. F = FindMany(user, n + 1)
      BY DEF FindMany, Found
<1>3. /\ page' = First(F, n)
      /\ cursor' = IF Cardinality(F) > n
                   THEN CHOOSE s \in page' : \A r \in page' \ {s} : Above(r, s)
                   ELSE 0
      /\ scan' = IF Cardinality(F) > n THEN "open" ELSE "ended"
      BY <1>2 DEF Answer
<1>4. Found \subseteq Sessions
      BY DEF Found, Listed
<1> HIDE DEF n
<1>5. F \subseteq Found /\ F \subseteq Sessions /\ n + 1 \in Nat
      BY <1>1, <1>4, FirstOf
<1>6. IsFiniteSet(F) /\ Cardinality(F) \in Nat /\ IsFiniteSet(Found)
      BY <1>4, <1>5, RankOf, FS_CardinalityType
<1>7. page' \subseteq F /\ Cardinality(page') <= n /\ IsFiniteSet(page')
      BY <1>1, <1>3, <1>5, FirstOf, FirstIsSmall
<1>8. Cardinality(page') <= MAX_SESSIONS_PAGE_SIZE
      BY <1>1, <1>7, FS_CardinalityType, ConstantsOK
<1>9. CASE Cardinality(F) > n
  <2>1. page' # {}
    <3> SUFFICES ASSUME page' = {} PROVE FALSE
        OBVIOUS
    <3>1. Cardinality(page') = 0
          BY FS_EmptySet
    <3>2. F # page'
          BY <1>1, <1>9, <3>1
    <3> QED BY <1>1, <1>3, <1>5, <3>1, <3>2, FirstOf
  <2>2. \E s \in page' : \A r \in page' \ {s} : Above(r, s)
        BY <1>5, <1>7, <2>1, Bottom
  <2>3. cursor' \in page' /\ \A r \in page' \ {cursor'} : Above(r, cursor')
        BY <1>3, <1>9, <2>2
  <2>4. ASSUME NEW s \in Found \ page' PROVE Above(cursor', s)
    <3>1. CASE s \in F
          BY <1>1, <1>3, <1>5, <2>3, <2>4, <3>1, FirstOf
    <3>2. CASE s \notin F
          BY <1>4, <1>5, <1>7, <2>3, <2>4, <3>2, FirstOf
    <3> QED BY <3>1, <3>2
  <2>5. cursor' # 0
        BY <1>5, <1>7, <2>3 DEF Sessions
  <2> QED BY <1>3, <1>5, <1>7, <1>8, <1>9, <2>3, <2>4, <2>5
<1>10. CASE ~ (Cardinality(F) > n)
  <2>1. F = Found
    <3> SUFFICES ASSUME F # Found PROVE FALSE
        OBVIOUS
    <3>1. Cardinality(F) >= n + 1
          BY <1>4, <1>5, FirstOf
    <3> QED BY <1>1, <1>6, <1>10, <3>1
  <2>2. page' = F
    <3> SUFFICES ASSUME page' # F PROVE FALSE
        OBVIOUS
    <3>1. Cardinality(page') >= n /\ Cardinality(page') \in Nat
          BY <1>1, <1>3, <1>5, <1>7, FirstOf, FS_CardinalityType
    <3>2. Cardinality(page') <= Cardinality(F) /\ Cardinality(page') # Cardinality(F)
          BY <1>6, <1>7, FS_Subset
    <3> QED BY <1>1, <1>6, <1>10, <3>1, <3>2
  <2> QED BY <1>3, <1>5, <1>8, <1>10, <2>1, <2>2
<1> QED BY <1>9, <1>10

-----------------------------------------------------------------------------
LEMMA InvInit == Init => IInv
<1> SUFFICES ASSUME Init PROVE IInv
    OBVIOUS
<1>1. TypeOK
  <2>1. Cardinality({}) <= MAX_SESSIONS_PAGE_SIZE
        BY FS_EmptySet, ConstantsOK
  <2>2. Cardinality(page) <= MAX_SESSIONS_PAGE_SIZE
        BY <2>1 DEF Init
  <2>3. 0 \in 0..MaxTime
        BY ConstantsOK
  <2> QED BY <2>2, <2>3 DEF Init, TypeOK
<1>2. CreationOrder
      BY ConstantsOK DEF Init, CreationOrder
<1> QED
  BY <1>1, <1>2
  DEF Init, IInv, ScanOwner, CursorInv, PagesDescend, NothingMissed

LEMMA CreateStep ==
    ASSUME IInv, NEW u \in Accounts, CreateSession(u)
    PROVE  IInv'
<1> PICK s \in Sessions :
       /\ owner[s] = "unused" /\ \A r \in Sessions : r < s => owner[r] # "unused"
       /\ owner' = [owner EXCEPT ![s] = u]
       /\ updatedAt' = [updatedAt EXCEPT ![s] = clock]
    BY DEF CreateSession
<1> UNCHANGED <<clock, converted, user, cursor, scan, seen, page, start, cut>>
    BY DEF CreateSession, client
<1>1. TypeOK'
      BY ConstantsOK DEF IInv, TypeOK
<1>2. \A r \in Sessions \ {s} : owner'[r] = owner[r] /\ updatedAt'[r] = updatedAt[r]
      BY DEF IInv, TypeOK
<1>3. owner'[s] = u /\ updatedAt'[s] = clock
      BY DEF IInv, TypeOK
<1>4. CreationOrder'
      BY <1>2, <1>3 DEF IInv, TypeOK, CreationOrder, Accounts, Sessions
<1>5. s \notin seen \cup page \cup start /\ seen \cup page \cup start \subseteq Sessions
      BY DEF IInv, TypeOK, ScanOwner, Accounts
<1>6. ScanOwner'
      BY <1>2, <1>3, <1>5 DEF IInv, TypeOK, ScanOwner, CreateSession
<1>7. \A r, t \in seen \cup page \cup start : Above(r, t)' <=> Above(r, t)
      BY <1>2, <1>5 DEF Above
<1>8. Missed' = Missed /\ Missed \subseteq start
      BY <1>2, <1>5 DEF Missed
<1>9. CursorInv' /\ PagesDescend' /\ NothingMissed'
      BY <1>2, <1>5, <1>7, <1>8 DEF IInv, CursorInv, PagesDescend, NothingMissed
<1> QED BY <1>1, <1>4, <1>6, <1>9 DEF IInv

LEMMA DeleteStep ==
    ASSUME IInv, NEW s \in Sessions, DeleteSession(s)
    PROVE  IInv'
<1> USE DEF DeleteSession, client
<1>1. TypeOK'
      BY DEF IInv, TypeOK
<1>2. owner'[s] = "deleted" /\ \A r \in Sessions \ {s} : owner'[r] = owner[r]
      BY DEF IInv, TypeOK
<1>3. CreationOrder'
      BY <1>2 DEF IInv, TypeOK, CreationOrder, Accounts
<1>4. seen \cup page \cup start \subseteq Sessions
      BY DEF IInv, TypeOK
<1>5. ScanOwner'
      BY <1>2, <1>4 DEF IInv, ScanOwner
<1>6. \A r, t : Above(r, t)' <=> Above(r, t)
      BY DEF Above
<1>7. Missed' \subseteq Missed
      BY <1>2, <1>4 DEF Missed, Accounts
<1>8. \A r \in Sessions : owner'[r] \in Accounts => owner[r] \in Accounts
      BY <1>2 DEF Accounts
<1>9. CursorInv' /\ PagesDescend' /\ NothingMissed'
      BY <1>4, <1>6, <1>7, <1>8 DEF IInv, CursorInv, PagesDescend, NothingMissed
<1> QED BY <1>1, <1>3, <1>5, <1>9 DEF IInv

\* Rows of one account keep their order in the conversion.
LEMMA MigrateStep ==
    ASSUME IInv, Migrate
    PROVE  IInv'
<1> USE DEF Migrate
<1>1. TypeOK'
      BY DEF IInv, TypeOK, Accounts
<1>2. \A s \in Sessions :
         /\ owner'[s] = IF owner[s] = "anonymous" THEN "identified" ELSE owner[s]
         /\ updatedAt'[s] = IF owner[s] = "anonymous" THEN clock ELSE updatedAt[s]
      OBVIOUS
<1>3. CreationOrder'
      BY <1>2 DEF IInv, TypeOK, CreationOrder
<1>4. seen \cup page \cup start \subseteq Sessions
      BY DEF IInv, TypeOK
<1>5. ScanOwner'
      BY <1>2, <1>4 DEF IInv, TypeOK, ScanOwner, Accounts
<1>6. \A s \in Sessions : owner'[s] \in Accounts <=> owner[s] \in Accounts
      BY <1>2 DEF Accounts
<1>7. ASSUME NEW r \in seen \cup page \cup start, NEW t \in seen \cup page \cup start,
             owner[r] \in Accounts, owner[t] \in Accounts, Above(r, t)
      PROVE  Above(r, t)'
  <2>1. owner[r] = owner[t] /\ owner[r] # "unused" /\ owner[t] # "unused"
        BY <1>7 DEF IInv, ScanOwner, Accounts
  <2>2. r \in Sessions /\ t \in Sessions
        BY <1>4
  <2>3. r < t => updatedAt[r] <= updatedAt[t]
        BY <2>1, <2>2 DEF IInv, CreationOrder
  <2> QED BY <1>2, <1>7, <2>1, <2>2, <2>3 DEF Above, IInv, TypeOK, Sessions
<1>8. Missed' = Missed /\ Missed \subseteq start
      BY <1>4, <1>6 DEF Missed
<1>9. CursorInv' /\ PagesDescend' /\ NothingMissed'
  <2>1. \A s \in Missed : owner[s] \in Accounts
        BY DEF Missed
  <2> QED BY <1>4, <1>6, <1>7, <1>8, <2>1
          DEF IInv, CursorInv, PagesDescend, NothingMissed
<1> QED BY <1>1, <1>3, <1>5, <1>9 DEF IInv

LEMMA TickStep == IInv /\ Tick => IInv'
<1> SUFFICES ASSUME IInv, Tick PROVE IInv'
    OBVIOUS
<1>1. TypeOK' /\ CreationOrder'
      BY ConstantsOK DEF IInv, Tick, client, TypeOK, CreationOrder
<1>2. ScanOwner' /\ CursorInv' /\ PagesDescend' /\ NothingMissed'
      BY DEF IInv, Tick, client, ScanOwner, CursorInv, PagesDescend, NothingMissed,
             Above, Missed
<1> QED BY <1>1, <1>2 DEF IInv

LEMMA FirstPageStep ==
    ASSUME IInv, NEW limit \in Limits, FirstPage(limit)
    PROVE  IInv'
<1> UNCHANGED <<owner, updatedAt, clock, converted, user, seen, cut>>
    BY DEF FirstPage
<1>1. TypeOK /\ seen = {} /\ cursor = 0 /\ start' = Listed(user)
      BY DEF IInv, FirstPage, CursorInv, TypeOK
<1>2. Found = Listed(user) /\ Listed(user) \subseteq Sessions
      BY <1>1 DEF Found, Listed
<1>3. /\ page' \subseteq Found
      /\ Cardinality(page') <= MAX_SESSIONS_PAGE_SIZE
      /\ \/ scan' = "ended" /\ cursor' = 0 /\ page' = Found
         \/ /\ scan' = "open" /\ cursor' \in page' /\ cursor' # 0
            /\ \A r \in page' \ {cursor'} : Above(r, cursor')
            /\ \A s \in Found \ page' : Above(cursor', s)
      BY <1>1, AnswerPage DEF FirstPage
<1>4. TypeOK'
      BY <1>1, <1>2, <1>3 DEF TypeOK
<1>5. CreationOrder'
      BY DEF IInv, CreationOrder
<1>6. ScanOwner'
      BY <1>1, <1>2, <1>3 DEF IInv, ScanOwner, Listed
<1>7. \A r, t \in Sessions \cup {cursor'} : Above(r, t)' <=> Above(r, t)
      BY DEF Above
<1>8. Missed' \subseteq Found \ page'
      BY <1>1, <1>2 DEF Missed
<1>9. CursorInv'
      BY <1>2, <1>3, <1>7, <1>8 DEF CursorInv
<1>10. PagesDescend' /\ NothingMissed'
      BY <1>1, <1>3, <1>8 DEF PagesDescend, NothingMissed
<1> QED BY <1>4, <1>5, <1>6, <1>9, <1>10 DEF IInv

LEMMA NextPageStep ==
    ASSUME IInv, NEW limit \in Limits, NextPage(limit)
    PROVE  IInv'
<1> UNCHANGED <<owner, updatedAt, clock, converted, user, start>>
    BY DEF NextPage
<1>1. /\ TypeOK /\ scan = "open" /\ cursor \in page /\ cursor # 0
      /\ seen' = seen \cup page /\ cut' = (cut \/ owner[cursor] \notin Accounts)
      BY DEF IInv, NextPage, CursorInv, TypeOK
<1>2. /\ Found \subseteq {s \in Sessions : owner[s] = user /\ Above(cursor, s)}
      /\ Found # {} => owner[cursor] \in Accounts
      BY <1>1 DEF Found, Listed
<1>3. /\ page' \subseteq Found
      /\ Cardinality(page') <= MAX_SESSIONS_PAGE_SIZE
      /\ \/ scan' = "ended" /\ cursor' = 0 /\ page' = Found
         \/ /\ scan' = "open" /\ cursor' \in page' /\ cursor' # 0
            /\ \A r \in page' \ {cursor'} : Above(r, cursor')
            /\ \A s \in Found \ page' : Above(cursor', s)
      BY <1>1, AnswerPage DEF NextPage
<1>4. TypeOK'
      BY <1>1, <1>2, <1>3 DEF TypeOK
<1>5. CreationOrder'
      BY DEF IInv, CreationOrder
<1>6. ScanOwner'
      BY <1>1, <1>2, <1>3 DEF IInv, ScanOwner
<1>7. \A r, t \in Sessions \cup {cursor'} : Above(r, t)' <=> Above(r, t)
      BY DEF Above
<1>8. ~ cut' => Missed' \subseteq Found \ page'
  <2> SUFFICES ASSUME ~ cut', NEW s \in Missed' PROVE s \in Found \ page'
      OBVIOUS
  <2>1. owner[cursor] \in Accounts /\ ~ cut
        BY <1>1
  <2>2. s \in Missed /\ s \notin page' /\ s \in Sessions /\ owner[s] = user
        BY <1>1 DEF Missed, IInv, TypeOK, ScanOwner, Accounts
  <2>3. Above(cursor, s)
        BY <1>1, <2>1, <2>2 DEF IInv, CursorInv
  <2> QED BY <2>1, <2>2, <2>3 DEF Found, Listed
<1>9. CursorInv'
      BY <1>2, <1>3, <1>7, <1>8 DEF CursorInv
<1>10. NothingMissed'
      BY <1>3, <1>8 DEF NothingMissed
<1>11. ASSUME NEW r \in seen', NEW s \in page'
       PROVE  /\ r # s
              /\ owner[r] \in Accounts /\ owner[s] \in Accounts => Above(r, s)
  <2>1. /\ s \in Sessions /\ r \in Sessions /\ cursor \in Sessions
        /\ owner[s] = user /\ user \in Accounts /\ Above(cursor, s)
        /\ owner[cursor] \in Accounts
        BY <1>1, <1>2, <1>3 DEF TypeOK
  <2>2. ASSUME owner[r] \in Accounts, r # cursor PROVE Above(r, cursor)
        BY <1>1, <2>1, <2>2 DEF IInv, CursorInv, PagesDescend
  <2>3. ASSUME owner[r] \in Accounts PROVE Above(r, s)
        BY <1>1, <2>1, <2>2, <2>3, AboveOrder
  <2>4. r # s
        BY <1>1, <2>1, <2>3, AboveOrder
  <2> QED BY <2>3, <2>4
<1>12. PagesDescend'
  <2>1. seen' \subseteq Sessions /\ page' \subseteq Sessions
        BY <1>4 DEF TypeOK
  <2> QED BY <1>7, <1>11, <2>1 DEF PagesDescend
<1> QED BY <1>4, <1>5, <1>6, <1>9, <1>10, <1>12 DEF IInv

THEOREM Invariance == Spec => []IInv
<1>1. IInv /\ UNCHANGED vars => IInv'
      BY DEF vars, IInv, TypeOK, CreationOrder, ScanOwner, CursorInv, PagesDescend,
             NothingMissed, Above, Missed
<1>2. IInv /\ [Next]_vars => IInv'
      BY <1>1, CreateStep, DeleteStep, MigrateStep, TickStep, FirstPageStep,
         NextPageStep DEF Next
<1> QED BY InvInit, <1>2, PTL DEF Spec

(* Types, and no page longer than the maximum whatever limit is asked for. *)
THEOREM TypeCorrect == Spec => []TypeOK
<1>1. IInv => TypeOK
      BY DEF IInv
<1> QED BY Invariance, <1>1, PTL

(* The pages are one list in one order, also across a conversion.          *)
THEOREM PagesStayInOrder == Spec => []PagesDescend
<1>1. IInv => PagesDescend
      BY DEF IInv
<1> QED BY Invariance, <1>1, PTL

(* A scan that ended behind existing cursors has shown all that stayed.    *)
THEOREM ScanIsComplete == Spec => []NothingMissed
<1>1. IInv => NothingMissed
      BY DEF IInv
<1> QED BY Invariance, <1>1, PTL

(* Every page a client asks for adds to what it has been shown, its last   *)
(* row at least: no cursor leads back, and a scan takes at most one more   *)
(* request than it shows sessions, whatever is created or moved meanwhile. *)
THEOREM EveryPageAdvances ==
    Spec => [][\A limit \in Limits : NextPage(limit) =>
                  seen \subseteq seen' /\ cursor \in seen' \ seen]_vars
<1>1. IInv => [\A limit \in Limits : NextPage(limit) =>
                  seen \subseteq seen' /\ cursor \in seen' \ seen]_vars
  <2> SUFFICES ASSUME IInv, NEW limit \in Limits, NextPage(limit)
               PROVE  seen \subseteq seen' /\ cursor \in seen' \ seen
      OBVIOUS
  <2>1. cursor \in page /\ seen' = seen \cup page
        BY DEF IInv, CursorInv, NextPage
  <2>2. cursor \notin seen
        BY <2>1 DEF IInv, PagesDescend
  <2> QED BY <2>1, <2>2
<1> QED BY <1>1, Invariance, PTL
=============================================================================
