--------------------------- MODULE WorkspaceProofs ---------------------------
(* Theorems about Workspace for every number of users, rows and concurrent *)
(* requests and every limit.                                               *)
EXTENDS AccountView, FiniteSetTheorems, TLAPS

(* What Fail, Restart and the last step of every handler do to the         *)
(* request's own variables.                                                *)
LEMMA ReleaseTypes ==
    ASSUME TypeOK, NEW p \in Slots, Release(p)
    PROVE  /\ pc' \in [Slots -> Pcs]
           /\ who' \in [Slots -> Users \cup {Nobody}]
           /\ row' \in [Slots -> Rows \cup {Nobody}]
           /\ source' \in [Slots -> Users \cup {Nobody}]
           /\ moved' \in [Slots -> SUBSET Rows]
           /\ \A q \in Slots :
                 /\ pc'[q] # "idle" => who'[q] \in Users
                 /\ pc'[q] \in {"ask", "answer", "delete"} => row'[q] \in Rows
                 /\ pc'[q] \in {"ask", "answer"} => row'[q] \in Sessions
                 /\ pc'[q] \in MigratePcs <=> source'[q] # Nobody
BY DEF TypeOK, Release, Goto, Pcs, MigratePcs, TxPcs

(* Every step keeps the variables in their ranges, and a request holds the *)
(* user, row and source that the await it is at needs.                     *)
LEMMA TypeStep == TypeOK /\ [Next]_vars => TypeOK'
<1> SUFFICES ASSUME TypeOK, [Next]_vars PROVE TypeOK'
    OBVIOUS
<1> USE ConstantsOK DEF TypeOK, Goto, Rows, Live, Pcs, PromptPcs, MigratePcs, TxPcs
<1>1. ASSUME NEW u \in Users, Login(u) \/ CreateAnonymousUser(u) PROVE TypeOK'
      BY <1>1 DEF Login, CreateAnonymousUser
<1>2. ASSUME NEW p \in Slots, Prompt(p) PROVE TypeOK'
  <2>1. ASSUME NEW u \in Users, StartPrompt(p, u) PROVE TypeOK'
        BY <2>1 DEF StartPrompt, Authenticated
  <2>2. ASSUME NEW s \in Sessions, UseSession(p, s) PROVE TypeOK'
        BY <2>2 DEF UseSession
  <2>3. ASSUME NEW s \in Sessions, InsertSession(p, s) PROVE TypeOK'
        BY <2>3 DEF InsertSession, Insert, InsertPc, Kinds
  <2>4. ASSUME NEW k \in Kinds, AssertCanCreate(p, k) PROVE TypeOK'
        BY <2>4 DEF AssertCanCreate, InsertPc, Kinds
  <2>5. ASSUME RecordUserMessage(p) \/ RecordReply(p) PROVE TypeOK'
        BY <2>5 DEF RecordUserMessage, RecordReply
  <2>6. ASSUME NEW f \in Files, InsertFile(p, f) PROVE TypeOK'
        BY <2>6 DEF InsertFile, Insert, InsertPc, Kinds
  <2>7. CASE FinishPrompt(p)
        BY <2>7, ReleaseTypes DEF FinishPrompt
  <2> QED BY <1>2, <2>1, <2>2, <2>3, <2>4, <2>5, <2>6, <2>7 DEF Prompt
<1>3. ASSUME NEW p \in Slots, Delete(p) PROVE TypeOK'
  <2>1. ASSUME NEW u \in Users, NEW r \in Rows, FindForDelete(p, u, r)
        PROVE  TypeOK'
        BY <2>1 DEF FindForDelete, Authenticated
  <2>2. CASE DeleteRow(p)
        BY <2>2, ReleaseTypes DEF DeleteRow
  <2> QED BY <1>3, <2>1, <2>2 DEF Delete
<1>4. ASSUME NEW p \in Slots, Migrate(p) PROVE TypeOK'
  <2>1. ASSUME NEW u \in Users, NEW a \in Users, StartMigrate(p, u, a)
        PROVE  TypeOK'
        BY <2>1 DEF StartMigrate, Authenticated
  <2>2. ASSUME CheckSource(p) \/ CheckTarget(p) PROVE TypeOK'
        BY <2>2 DEF CheckSource, CheckTarget
  <2>3. ASSUME TxSessions(p) \/ TxFiles(p) PROVE TypeOK'
        BY <2>3 DEF TxSessions, TxFiles, UpdateMany, Owned, Table
  <2>4. CASE TxDelete(p)
        BY <2>4, ReleaseTypes DEF TxDelete
  <2> QED BY <1>4, <2>1, <2>2, <2>3, <2>4 DEF Migrate
<1>5. ASSUME NEW p \in Slots, Fail(p) PROVE TypeOK'
      BY <1>5, ReleaseTypes DEF Fail
<1>6. CASE Restart
      BY <1>6 DEF Restart
<1>7. CASE UNCHANGED vars
      BY <1>7 DEF vars
<1> QED BY <1>1, <1>2, <1>3, <1>4, <1>5, <1>6, <1>7 DEF Next

(* Type correctness of the workspace.                                      *)
THEOREM TypeCorrect == Spec => []TypeOK
<1>1. Init => TypeOK
      BY ConstantsOK DEF Init, TypeOK, Pcs, MigratePcs, TxPcs
<1> QED BY <1>1, TypeStep, PTL DEF Spec

-----------------------------------------------------------------------------
(* The invariant without the quota's counting.                             *)
RowInv ==
    /\ LiveOwners /\ RowsExist /\ RowsStayWithTheirUser
    /\ MigrationParties /\ HeldRows /\ UnseenRowsAreLate /\ LocksExclusive

LEMMA RowStep == TypeOK /\ RowInv /\ [Next]_vars => RowInv'
<1> SUFFICES ASSUME TypeOK, RowInv, [Next]_vars PROVE RowInv'
    OBVIOUS
<1>0. TypeOK'
      BY TypeStep
<1> USE ConstantsOK, <1>0
    DEF RowInv, TypeOK, LiveOwners, RowsExist, RowsStayWithTheirUser,
        MigrationParties, HeldRows, UnseenRowsAreLate, LocksExclusive,
        Goto, Rows, Live, Pcs, PromptPcs, MigratePcs, TxPcs, Kinds, PastUpdate,
        Owned, Table, InsertPc
<1>1. ASSUME NEW u \in Users, Login(u) \/ CreateAnonymousUser(u) PROVE RowInv'
      BY <1>1 DEF Login, CreateAnonymousUser
<1>2. ASSUME NEW p \in Slots, Prompt(p) PROVE RowInv'
  <2>1. ASSUME NEW u \in Users, StartPrompt(p, u) PROVE RowInv'
        BY <2>1 DEF StartPrompt, Authenticated
  <2>2. ASSUME NEW s \in Sessions, UseSession(p, s) PROVE RowInv'
        BY <2>2 DEF UseSession
  <2>3. ASSUME NEW s \in Sessions, InsertSession(p, s) PROVE RowInv'
        BY <2>3 DEF InsertSession, Insert
  <2>4. ASSUME NEW k \in Kinds, AssertCanCreate(p, k) PROVE RowInv'
        BY <2>4 DEF AssertCanCreate
  <2>5. ASSUME RecordUserMessage(p) \/ RecordReply(p) PROVE RowInv'
        BY <2>5 DEF RecordUserMessage, RecordReply
  <2>6. ASSUME NEW f \in Files, InsertFile(p, f) PROVE RowInv'
        BY <2>6 DEF InsertFile, Insert
  <2>7. CASE FinishPrompt(p)
        BY <2>7 DEF FinishPrompt, Release
  <2> QED BY <1>2, <2>1, <2>2, <2>3, <2>4, <2>5, <2>6, <2>7 DEF Prompt
<1>3. ASSUME NEW p \in Slots, Delete(p) PROVE RowInv'
  <2>1. ASSUME NEW u \in Users, NEW r \in Rows, FindForDelete(p, u, r)
        PROVE  RowInv'
        BY <2>1 DEF FindForDelete, Authenticated
  <2>2. CASE DeleteRow(p)
        BY <2>2 DEF DeleteRow, Release, LockedByOther
  <2> QED BY <1>3, <2>1, <2>2 DEF Delete
<1>4. ASSUME NEW p \in Slots, Migrate(p) PROVE RowInv'
  <2>1. ASSUME NEW u \in Users, NEW a \in Users, StartMigrate(p, u, a)
        PROVE  RowInv'
        BY <2>1 DEF StartMigrate, Authenticated
  <2>2. ASSUME CheckSource(p) \/ CheckTarget(p) PROVE RowInv'
        BY <2>2 DEF CheckSource, CheckTarget
  <2>3. ASSUME TxSessions(p) \/ TxFiles(p) PROVE RowInv'
        BY <2>3 DEF TxSessions, TxFiles, UpdateMany, LockedByOther
  <2>4. CASE TxDelete(p)
        BY <2>4 DEF TxDelete, Release, LockedByOther
  <2> QED BY <1>4, <2>1, <2>2, <2>3, <2>4 DEF Migrate
<1>5. ASSUME NEW p \in Slots, Fail(p) PROVE RowInv'
      BY <1>5 DEF Fail, Release
<1>6. CASE Restart
      BY <1>6 DEF Restart
<1>7. CASE UNCHANGED vars
      BY <1>7 DEF vars
<1> QED BY <1>1, <1>2, <1>3, <1>4, <1>5, <1>6, <1>7 DEF Next

-----------------------------------------------------------------------------
(* The counting of the quota.                                              *)

LEMMA SubsetsCountLess ==
    ASSUME NEW A, NEW B, IsFiniteSet(A), IsFiniteSet(B),
           NEW A1 \in SUBSET A, NEW B1 \in SUBSET B
    PROVE  Cardinality(A1) + Cardinality(B1) <= Cardinality(A) + Cardinality(B)
<1>1. /\ IsFiniteSet(A1) /\ Cardinality(A1) <= Cardinality(A)
      /\ IsFiniteSet(B1) /\ Cardinality(B1) <= Cardinality(B)
      BY FS_Subset
<1>2. /\ Cardinality(A) \in Nat /\ Cardinality(B) \in Nat
      /\ Cardinality(A1) \in Nat /\ Cardinality(B1) \in Nat
      BY <1>1, FS_CardinalityType
<1> QED BY <1>1, <1>2

(* A request that inserts its row stops being one that is about to.        *)
LEMMA InsertKeepsCount ==
    ASSUME NEW A, NEW B, IsFiniteSet(A), IsFiniteSet(B),
           NEW x, NEW y, y \in B
    PROVE  Cardinality(A \cup {x}) + Cardinality(B \ {y})
               <= Cardinality(A) + Cardinality(B)
<1>1. /\ Cardinality(A) \in Nat /\ Cardinality(B) \in Nat
      BY FS_CardinalityType
<1>2. Cardinality(B \ {y}) = Cardinality(B) - 1
      BY FS_RemoveElement
<1>3. \/ Cardinality(A \cup {x}) = Cardinality(A)
      \/ Cardinality(A \cup {x}) = Cardinality(A) + 1
      BY FS_AddElement
<1> QED BY <1>1, <1>2, <1>3

LEMMA CountsAreFinite ==
    ASSUME TypeOK, NEW u, NEW k \in Kinds
    PROVE  /\ IsFiniteSet(Owned(u, k)) /\ Cardinality(Owned(u, k)) \in Nat
           /\ IsFiniteSet(Inserting(u, k)) /\ Cardinality(Inserting(u, k)) \in Nat
           /\ Cardinality(Inserting(u, k)) <= Cardinality(Slots)
           /\ Limit(k) \in Nat /\ Cardinality(Slots) \in Nat \ {0}
<1>1. IsFiniteSet(Table(k)) /\ Owned(u, k) \in SUBSET Table(k)
      BY ConstantsOK DEF Table, Kinds, Owned
<1>2. Inserting(u, k) \in SUBSET Slots
      BY DEF Inserting
<1>3. /\ IsFiniteSet(Owned(u, k)) /\ IsFiniteSet(Inserting(u, k))
      /\ Cardinality(Inserting(u, k)) <= Cardinality(Slots)
      BY <1>1, <1>2, ConstantsOK, FS_Subset
<1>4. Cardinality(Slots) \in Nat \ {0}
      BY ConstantsOK, FS_CardinalityType, FS_EmptySet
<1>5. Limit(k) \in Nat
      BY ConstantsOK DEF Limit
<1> QED BY <1>3, <1>4, <1>5, FS_CardinalityType

LEMMA QuotaStep == TypeOK /\ RowInv /\ QuotaBound /\ [Next]_vars => QuotaBound'
<1> SUFFICES ASSUME TypeOK, RowInv, QuotaBound, [Next]_vars,
                    NEW u \in Users, NEW k \in Kinds, account'[u] # "identified"
             PROVE  Cardinality(Owned(u, k)') + Cardinality(Inserting(u, k)')
                        < Limit(k) + Cardinality(Slots)
    BY DEF QuotaBound, Limit
<1>0. TypeOK'
      BY TypeStep
<1> DEFINE Overrun == Cardinality(Owned(u, k)') + Cardinality(Inserting(u, k)')
                          < Limit(k) + Cardinality(Slots)
           Shrinks == /\ account[u] # "identified"
                      /\ Owned(u, k)' \subseteq Owned(u, k)
                      /\ Inserting(u, k)' \subseteq Inserting(u, k)
<1>f. /\ IsFiniteSet(Owned(u, k)) /\ Cardinality(Owned(u, k)) \in Nat
      /\ IsFiniteSet(Inserting(u, k)) /\ Cardinality(Inserting(u, k)) \in Nat
      /\ Limit(k) \in Nat /\ Cardinality(Slots) \in Nat \ {0}
      BY CountsAreFinite
<1>g. /\ Cardinality(Owned(u, k)') \in Nat
      /\ Cardinality(Inserting(u, k)') \in Nat
      /\ Cardinality(Inserting(u, k)') <= Cardinality(Slots)
  <2>1. IsFiniteSet(Table(k)) /\ Owned(u, k)' \in SUBSET Table(k)
        BY ConstantsOK DEF Table, Kinds, Owned
  <2>2. IsFiniteSet(Slots) /\ Inserting(u, k)' \in SUBSET Slots
        BY ConstantsOK DEF Inserting
  <2> QED BY <2>1, <2>2, FS_Subset, FS_CardinalityType
<1>s. ASSUME Shrinks PROVE Overrun
  <2>1. Cardinality(Owned(u, k)') + Cardinality(Inserting(u, k)')
            <= Cardinality(Owned(u, k)) + Cardinality(Inserting(u, k))
        BY <1>s, <1>f, SubsetsCountLess
  <2> QED BY <1>s, <1>f, <1>g, <2>1 DEF QuotaBound
<1> HIDE DEF Overrun, Shrinks
<1>1. ASSUME NEW p \in Slots, NEW j \in Kinds, NEW r \in Table(j),
             Insert(p, j, r), pc' = [pc EXCEPT ![p] = IF j = "files" THEN "artifacts" ELSE "ask"],
             UNCHANGED <<account, who>>
      PROVE  Overrun
  <2>1. CASE who[p] = u /\ j = k
    <3>1. /\ Owned(u, k)' = Owned(u, k) \cup {r}
          /\ p \in Inserting(u, k)
          /\ Inserting(u, k)' = Inserting(u, k) \ {p}
          BY <1>1, <2>1, ConstantsOK
          DEF TypeOK, Insert, Owned, Inserting, InsertPc, Kinds, Table, Rows
    <3>2. Cardinality(Owned(u, k)') + Cardinality(Inserting(u, k)')
              <= Cardinality(Owned(u, k)) + Cardinality(Inserting(u, k))
          BY <3>1, <1>f, InsertKeepsCount
    <3>3. account[u] # "identified"
          BY <1>1
    <3> QED BY <3>2, <3>3, <1>f, <1>g DEF QuotaBound, Overrun
  <2>2. CASE ~ (who[p] = u /\ j = k)
    <3>1. Shrinks
          BY <1>1, <2>2, ConstantsOK
          DEF Shrinks, TypeOK, Insert, Owned, Inserting, InsertPc, Kinds, Table, Rows
    <3> QED BY <3>1, <1>s
  <2> QED BY <2>1, <2>2
<1>2. ASSUME NEW p \in Slots, NEW j \in Kinds, AssertCanCreate(p, j) PROVE Overrun
  <2>1. CASE who[p] = u /\ j = k
    <3>1. Owned(u, k)' = Owned(u, k) /\ Cardinality(Owned(u, k)) < Limit(k)
          BY <1>2, <2>1 DEF AssertCanCreate, Owned
    <3> QED BY <3>1, <1>f, <1>g DEF Overrun
  <2>2. CASE ~ (who[p] = u /\ j = k)
    <3>1. Shrinks
          BY <1>2, <2>2
          DEF Shrinks, TypeOK, AssertCanCreate, Goto, Owned, Inserting, InsertPc, Kinds
    <3> QED BY <3>1, <1>s
  <2> QED BY <2>1, <2>2
<1>3. ASSUME NEW v \in Users, Login(v) \/ CreateAnonymousUser(v) PROVE Shrinks
      BY <1>3 DEF Shrinks, TypeOK, Login, CreateAnonymousUser, Owned, Inserting
<1>4. ASSUME NEW p \in Slots, Prompt(p) PROVE Overrun
  <2>1. ASSUME NEW v \in Users, StartPrompt(p, v) PROVE Shrinks
        BY <2>1
        DEF Shrinks, TypeOK, StartPrompt, Authenticated, Goto, Owned, Inserting, InsertPc
  <2>2. ASSUME NEW s \in Sessions, UseSession(p, s) PROVE Shrinks
        BY <2>2
        DEF Shrinks, TypeOK, UseSession, Goto, Owned, Inserting, InsertPc
  <2>3. ASSUME NEW s \in Sessions, InsertSession(p, s) PROVE Overrun
        BY <2>3, <1>1 DEF InsertSession, Goto, Kinds, Table
  <2>4. ASSUME RecordUserMessage(p) \/ RecordReply(p) PROVE Shrinks
        BY <2>4
        DEF Shrinks, TypeOK, RecordUserMessage, RecordReply, Goto, Owned, Inserting, InsertPc
  <2>5. ASSUME NEW f \in Files, InsertFile(p, f) PROVE Overrun
        BY <2>5, <1>1 DEF InsertFile, Goto, Kinds, Table
  <2>6. ASSUME FinishPrompt(p) PROVE Shrinks
        BY <2>6
        DEF Shrinks, TypeOK, FinishPrompt, Release, Goto, Owned, Inserting, InsertPc
  <2> QED BY <1>4, <1>2, <1>s, <2>1, <2>2, <2>3, <2>4, <2>5, <2>6 DEF Prompt
<1>5. ASSUME NEW p \in Slots, Delete(p) PROVE Shrinks
  <2>1. ASSUME NEW v \in Users, NEW r \in Rows, FindForDelete(p, v, r) PROVE Shrinks
        BY <2>1
        DEF Shrinks, TypeOK, FindForDelete, Authenticated, Goto, Owned, Inserting, InsertPc
  <2>2. ASSUME DeleteRow(p) PROVE Shrinks
        BY <2>2, ConstantsOK
        DEF Shrinks, TypeOK, DeleteRow, Release, Goto, Owned, Inserting, InsertPc, Table, Rows
  <2> QED BY <1>5, <2>1, <2>2 DEF Delete
<1>6. ASSUME NEW p \in Slots, Migrate(p) PROVE Shrinks
  <2>1. ASSUME NEW v \in Users, NEW a \in Users, StartMigrate(p, v, a) PROVE Shrinks
        BY <2>1
        DEF Shrinks, TypeOK, StartMigrate, Authenticated, Goto, Owned, Inserting, InsertPc
  <2>2. ASSUME CheckSource(p) \/ CheckTarget(p) PROVE Shrinks
        BY <2>2
        DEF Shrinks, TypeOK, CheckSource, CheckTarget, Goto, Owned, Inserting, InsertPc
  <2>3. ASSUME TxSessions(p) \/ TxFiles(p) PROVE Shrinks
        BY <2>3
        DEF Shrinks, TypeOK, TxSessions, TxFiles, UpdateMany, Goto, Owned, Inserting, InsertPc
  <2>4. ASSUME TxDelete(p) PROVE Shrinks
    <3>1. /\ account[source[p]] \in {"anonymous", "deleted"}
          /\ account[who[p]] = "identified"
          BY <2>4 DEF TxDelete, RowInv, MigrationParties, TxPcs
    <3>2. account' = [account EXCEPT ![source[p]] = "deleted"] /\ u # who[p]
          BY <2>4, <3>1 DEF TxDelete, TypeOK
    <3>3. account[u] # "identified" /\ Owned(u, k)' \subseteq Owned(u, k)
          BY <2>4, <3>1, <3>2, ConstantsOK
          DEF TxDelete, TypeOK, Owned, Table, Rows
    <3>4. Inserting(u, k)' \subseteq Inserting(u, k)
          BY <2>4 DEF TxDelete, Release, Goto, TypeOK, Inserting, InsertPc
    <3> QED BY <3>3, <3>4 DEF Shrinks
  <2> QED BY <1>6, <2>1, <2>2, <2>3, <2>4 DEF Migrate
<1>7. ASSUME NEW p \in Slots, Fail(p) PROVE Shrinks
      BY <1>7
      DEF Shrinks, TypeOK, Fail, Release, Goto, Owned, Inserting, InsertPc
<1>8. ASSUME Restart PROVE Shrinks
      BY <1>8 DEF Shrinks, Restart, Owned, Inserting, InsertPc
<1>9. ASSUME UNCHANGED vars PROVE Shrinks
      BY <1>9 DEF Shrinks, vars, Owned, Inserting
<1>h. Overrun
      BY <1>s, <1>3, <1>4, <1>5, <1>6, <1>7, <1>8, <1>9 DEF Next
<1> QED BY <1>h DEF Overrun

-----------------------------------------------------------------------------
(* The theorems.                                                           *)

LEMMA InvInit == Init => IInv
<1> SUFFICES ASSUME Init PROVE IInv
    OBVIOUS
<1>1. TypeOK
      BY ConstantsOK DEF Init, TypeOK, Pcs, MigratePcs, TxPcs
<1>2. LiveOwners /\ RowsExist /\ RowsStayWithTheirUser /\ MigrationInv /\ LocksExclusive
      BY ConstantsOK
      DEF Init, LocksExclusive, LiveOwners, RowsExist, RowsStayWithTheirUser, MigrationInv,
          MigrationParties, HeldRows, UnseenRowsAreLate, TxPcs, PastUpdate, Rows
<1>3. QuotaBound
  <2> SUFFICES ASSUME NEW u \in Users, NEW k \in Kinds
               PROVE  Cardinality(Owned(u, k)) + Cardinality(Inserting(u, k))
                          < Limit(k) + Cardinality(Slots)
      BY DEF QuotaBound
  <2>1. Owned(u, k) = {} /\ Inserting(u, k) = {}
        BY ConstantsOK DEF Init, Owned, Inserting, Table, Rows, InsertPc
  <2> QED BY <1>1, <2>1, FS_EmptySet, CountsAreFinite
<1> QED BY <1>1, <1>2, <1>3 DEF IInv

LEMMA InvStep == IInv /\ [Next]_vars => IInv'
BY TypeStep, RowStep, QuotaStep DEF IInv, RowInv, MigrationInv

THEOREM Invariance == Spec => []IInv
BY InvInit, InvStep, PTL DEF Spec

(* However many requests run at once, an anonymous account overruns its    *)
(* quota by less than their number.                                        *)
THEOREM QuotaIsBounded == Spec => []QuotaBound
<1>1. IInv => QuotaBound
      BY DEF IInv
<1> QED BY <1>1, Invariance, PTL

(* No row outlives its account.                                            *)
THEOREM RowsHaveLiveOwners == Spec => []LiveOwners
<1>1. IInv => LiveOwners
      BY DEF IInv
<1> QED BY <1>1, Invariance, PTL

(* A write by id never reaches the row of a third account.                 *)
THEOREM RequestsKeepToTheirRows == Spec => []RowsStayWithTheirUser
<1>1. IInv => RowsStayWithTheirUser
      BY DEF IInv
<1> QED BY <1>1, Invariance, PTL

(* What a migration established before its transaction holds throughout.   *)
THEOREM MigrationsAreSound == Spec => []MigrationInv
<1>1. IInv => MigrationInv
      BY DEF IInv
<1> QED BY <1>1, Invariance, PTL

-----------------------------------------------------------------------------
(* Deadlocks.  Without late rows, a request can only wait for one that has *)
(* come further: txSessions for txFiles, that one for txDelete, which      *)
(* waits for nobody.                                                       *)

LEMMA WaitingIsBehind ==
    ASSUME IInv, NEW p \in Slots, NEW q \in Slots, WaitsFor(p, q),
           moved[q] \cap late = {}, pc[p] \in TxPcs
    PROVE  \/ pc[p] = "txSessions" /\ pc[q] \in {"txFiles", "txDelete"}
           \/ pc[p] = "txFiles" /\ pc[q] = "txDelete"
<1> TypeOK /\ HeldRows /\ UnseenRowsAreLate /\ LocksExclusive
    BY DEF IInv, MigrationInv
<1>1. PICK r \in Rows : r \in Needs(p) /\ r \in moved[q]
      BY DEF WaitsFor, TypeOK
<1>2. r \notin late /\ r \notin moved[p] /\ owner[r] = source[q]
      BY <1>1 DEF WaitsFor, LocksExclusive, HeldRows
<1>3. pc[q] \in {"txFiles", "txDelete"}
      BY <1>1 DEF HeldRows
<1>4. owner[r] = source[p]
      BY <1>1 DEF Needs, Owned, TxPcs
<1>5. ASSUME NEW k \in Kinds, pc[p] \in PastUpdate(k) PROVE r \notin Table(k)
      BY <1>2, <1>4, <1>5 DEF UnseenRowsAreLate, Owned
<1>6. CASE pc[p] = "txSessions"
      BY <1>3, <1>6
<1>7. CASE pc[p] = "txFiles"
  <2>1. r \in Files /\ r \notin Sessions
        BY <1>1, <1>7, ConstantsOK DEF Needs, Owned, Table
  <2>2. pc[q] # "txFiles"
        BY <1>1, <2>1 DEF HeldRows
  <2> QED BY <1>3, <1>7, <2>2
<1>8. CASE pc[p] = "txDelete"
  <2>1. r \notin Sessions /\ r \notin Files
        BY <1>5, <1>8 DEF PastUpdate, Kinds, Table
  <2> QED BY <2>1 DEF Rows
<1> QED BY <1>6, <1>7, <1>8 DEF TxPcs

(* A circle of requests that wait for each other holds a late row.         *)
LEMMA DeadlockState == IInv => DeadlockNeedsLateRow
<1> SUFFICES ASSUME IInv, NEW D \in SUBSET Slots, D # {},
                    \A p \in D : \E q \in D : WaitsFor(p, q),
                    \A p \in D : moved[p] \cap late = {}
             PROVE  FALSE
    BY DEF DeadlockNeedsLateRow
<1> HeldRows
    BY DEF IInv, MigrationInv
<1>1. PICK p \in D : TRUE
      OBVIOUS
<1>2. PICK q \in D : WaitsFor(p, q)
      OBVIOUS
<1>3. pc[q] \in {"txFiles", "txDelete"}
      BY <1>2 DEF WaitsFor, HeldRows
<1>4. PICK r \in D : WaitsFor(q, r)
      OBVIOUS
<1>5. pc[q] = "txFiles" /\ pc[r] = "txDelete"
      BY <1>3, <1>4, WaitingIsBehind DEF TxPcs
<1>6. PICK t \in D : WaitsFor(r, t)
      OBVIOUS
<1> QED BY <1>5, <1>6, WaitingIsBehind DEF TxPcs

(* Requests deadlock only over a row inserted behind an updateMany.        *)
THEOREM DeadlocksAreLate == Spec => []DeadlockNeedsLateRow
BY DeadlockState, Invariance, PTL

-----------------------------------------------------------------------------
(* Workspace implements Ownership.  Most awaits change no table; the ones  *)
(* that do are each one operation of Ownership.                            *)

LEMMA TableSteps ==
    ASSUME [Next]_vars
    PROVE  \/ UNCHANGED <<account, owner>>
           \/ \E u \in Users : Login(u) \/ CreateAnonymousUser(u)
           \/ \E p \in Slots, k \in Kinds, r \in Rows :
                 Insert(p, k, r) /\ UNCHANGED account
           \/ \E p \in Slots : DeleteRow(p)
           \/ \E p \in Slots : TxDelete(p)
<1>1. ASSUME NEW p \in Slots, Prompt(p)
      PROVE  \/ UNCHANGED <<account, owner>>
             \/ \E k \in Kinds, r \in Rows : Insert(p, k, r) /\ UNCHANGED account
      BY <1>1
      DEF Prompt, StartPrompt, UseSession, InsertSession, AssertCanCreate,
          RecordUserMessage, RecordReply, InsertFile, FinishPrompt, Kinds, Rows
<1>2. ASSUME NEW p \in Slots, Delete(p)
      PROVE  UNCHANGED <<account, owner>> \/ DeleteRow(p)
      BY <1>2 DEF Delete, FindForDelete
<1>3. ASSUME NEW p \in Slots, Migrate(p)
      PROVE  UNCHANGED <<account, owner>> \/ TxDelete(p)
      BY <1>3
      DEF Migrate, StartMigrate, CheckSource, CheckTarget, TxSessions, TxFiles,
          UpdateMany
<1>4. ASSUME NEW p \in Slots, Fail(p) PROVE UNCHANGED <<account, owner>>
      BY <1>4 DEF Fail
<1>5. ASSUME Restart PROVE UNCHANGED <<account, owner>>
      BY <1>5 DEF Restart
<1>6. ASSUME UNCHANGED vars PROVE UNCHANGED <<account, owner>>
      BY <1>6 DEF vars
<1> QED BY <1>1, <1>2, <1>3, <1>4, <1>5, <1>6 DEF Next

\* What a commit finds: an anonymous source, a signed-in target, its own rows.
LEMMA CommitSees ==
    ASSUME IInv, NEW p \in Slots, TxDelete(p)
    PROVE  /\ source[p] \in Users /\ who[p] \in Users /\ source[p] # who[p]
           /\ account[source[p]] = "anonymous" /\ account[who[p]] = "identified"
           /\ moved[p] \subseteq {r \in Rows : owner[r] = source[p]}
<1>1. source[p] \in Users /\ who[p] \in Users
      BY DEF IInv, TypeOK, TxDelete, MigratePcs, TxPcs
<1>2. account[source[p]] = "anonymous" /\ account[who[p]] = "identified"
      BY DEF IInv, MigrationInv, MigrationParties, TxDelete, TxPcs, Live
<1> QED BY <1>1, <1>2 DEF IInv, TypeOK, MigrationInv, HeldRows

LEMMA StepRefines == IInv /\ [Next]_vars => [Abs!Next]_(Abs!vars)
<1> SUFFICES ASSUME IInv, [Next]_vars PROVE [Abs!Next]_(Abs!vars)
    OBVIOUS
<1> TypeOK
    BY DEF IInv
<1>1. CASE UNCHANGED <<account, owner>>
      BY <1>1 DEF Abs!vars
<1>2. ASSUME NEW u \in Users, Login(u) \/ CreateAnonymousUser(u) PROVE Abs!Next
      BY <1>2 DEF Login, CreateAnonymousUser, Abs!Next, Abs!Open
<1>3. ASSUME NEW p \in Slots, NEW k \in Kinds, NEW r \in Rows,
             Insert(p, k, r), UNCHANGED account
      PROVE  Abs!Next
  <2>1. who[p] \in Users
        BY <1>3 DEF TypeOK, Insert, InsertPc
  <2>2. Abs!Create(r, who[p])
        BY <1>3 DEF Insert, Abs!Create, Live
  <2> QED BY <2>1, <2>2 DEF Abs!Next
<1>4. ASSUME NEW p \in Slots, DeleteRow(p) PROVE Abs!Next
  <2>1. row[p] \in Rows
        BY <1>4 DEF TypeOK, DeleteRow
  <2>2. Abs!Remove(row[p])
        BY <1>4 DEF DeleteRow, Abs!Remove
  <2> QED BY <2>1, <2>2 DEF Abs!Next
<1>5. ASSUME NEW p \in Slots, TxDelete(p) PROVE Abs!Next
  <2>1. Abs!Convert(source[p], who[p], moved[p])
        BY <1>5, CommitSees DEF TxDelete, Abs!Convert
  <2>2. moved[p] \in SUBSET Rows
        BY DEF TypeOK
  <2> QED BY <1>5, <2>1, <2>2, CommitSees DEF Abs!Next
<1> QED BY <1>1, <1>2, <1>3, <1>4, <1>5, TableSteps

(* Every behaviour of the interleaved requests is one of Ownership's.      *)
THEOREM Refinement == Spec => ImplementsOwnership
<1>1. Init => Abs!Init
      BY DEF Init, Abs!Init
<1> QED BY <1>1, StepRefines, Invariance, PTL
        DEF Spec, ImplementsOwnership, Abs!Spec

LEMMA ClosingStep ==
    ASSUME IInv, [Next]_vars, NEW u \in Users, NEW r \in Rows,
           Closes(u), Lost(u, r)
    PROVE  r \in late
<1> TypeOK
    BY DEF IInv
<1>1. PICK p \in Slots : TxDelete(p)
  <2>1. ~ UNCHANGED <<account, owner>>
        BY DEF Closes
  <2>2. ~ \E v \in Users : Login(v) \/ CreateAnonymousUser(v)
        BY DEF Closes, Login, CreateAnonymousUser, TypeOK
  <2>3. ~ \E p \in Slots, k \in Kinds, x \in Rows :
            Insert(p, k, x) /\ UNCHANGED account
        BY DEF Closes
  <2>4. ~ \E p \in Slots : DeleteRow(p)
        BY DEF Closes, DeleteRow
  <2> QED BY <2>1, <2>2, <2>3, <2>4, TableSteps
<1>2. u = source[p]
      BY <1>1 DEF Closes, TxDelete, TypeOK
<1>3. r \notin moved[p]
      BY <1>1, CommitSees DEF TxDelete, Lost, TypeOK
<1>4. PICK k \in Kinds : r \in Owned(u, k)
      BY DEF Lost, Owned, Table, Kinds, Rows
<1>5. pc[p] \in PastUpdate(k)
      BY <1>1 DEF TxDelete, PastUpdate
<1> QED BY <1>2, <1>3, <1>4, <1>5 DEF IInv, MigrationInv, UnseenRowsAreLate

(* A conversion loses nothing that existed when its updates ran.           *)
THEOREM EarlyWorkIsKept == Spec => ConversionKeepsEarlyWork
<1>1. IInv /\ [Next]_vars =>
         [\A u \in Users, r \in Rows : Closes(u) /\ Lost(u, r) => r \in late]_vars
      BY ClosingStep
<1> QED BY <1>1, Invariance, PTL DEF Spec, ConversionKeepsEarlyWork
-----------------------------------------------------------------------------
(* What the runs anonymous_cap and late_work refute is true of a backend   *)
(* that serves one request at a time: concurrency is the only cause.       *)

(* The documented maximum of sessions and files of an anonymous account.   *)
THEOREM OneAtATimeKeepsTheCap ==
    ASSUME Cardinality(Slots) = 1 PROVE Spec => []AnonymousCap
<1>1. IInv => AnonymousCap
  <2> SUFFICES ASSUME IInv, NEW u \in Users, NEW k \in Kinds, account[u] = "anonymous"
               PROVE  Cardinality(Owned(u, k)) <= Limit(k)
      BY DEF AnonymousCap
  <2>1. Cardinality(Owned(u, k)) + Cardinality(Inserting(u, k)) < Limit(k) + 1
        BY DEF IInv, QuotaBound
  <2> QED BY <2>1, CountsAreFinite DEF IInv
<1> QED BY <1>1, Invariance, PTL

(* Someone who signs in keeps all of their work.                           *)
THEOREM OneAtATimeKeepsAllWork ==
    ASSUME Cardinality(Slots) = 1 PROVE Spec => ConversionKeepsAllWork
<1> DEFINE NoneLate == late = {}
<1>1. Init => NoneLate
      BY DEF Init
<1>2. NoneLate /\ [Next]_vars => NoneLate'
  <2> SUFFICES ASSUME late = {}, Next PROVE late' = {}
      BY DEF vars
  <2> PICK only : Slots = {only}
      BY ConstantsOK, FS_Singleton
  <2>1. ASSUME NEW p \in Slots, NEW k \in Kinds, NEW r, Insert(p, k, r)
        PROVE  late' = {}
    <3>1. ASSUME NEW q \in Slots PROVE pc[q] \notin PastUpdate(k)
          BY <2>1 DEF Insert, InsertPc, PastUpdate, Kinds
    <3> QED BY <2>1, <3>1 DEF Insert
  <2>2. ASSUME NEW p \in Slots, Prompt(p) PROVE late' = {}
        BY <2>1, <2>2 DEF Prompt, StartPrompt, UseSession, InsertSession, AssertCanCreate,
           RecordUserMessage, RecordReply, InsertFile, FinishPrompt, Kinds
  <2>3. ASSUME NEW p \in Slots, Delete(p) \/ Migrate(p) \/ Fail(p) PROVE late' = {}
        BY <2>3 DEF Delete, FindForDelete, DeleteRow, Migrate, StartMigrate, CheckSource,
           CheckTarget, TxSessions, TxFiles, UpdateMany, TxDelete, Fail
  <2> QED BY <2>2, <2>3 DEF Next, Login, CreateAnonymousUser, Restart
<1>3. IInv /\ NoneLate /\ [Next]_vars =>
         [\A u \in Users, r \in Rows : ~ (Closes(u) /\ Lost(u, r))]_vars
      BY ClosingStep
<1> HIDE DEF NoneLate
<1> QED BY <1>1, <1>2, <1>3, Invariance, PTL DEF Spec, ConversionKeepsAllWork

-----------------------------------------------------------------------------
(* Each account meets an AccountLife.  Ownership's steps, seen by one      *)
(* account: those of others it does not see, its own are those of a life.  *)

\* A row the account no longer is, or never was, the owner of looks the same
\* as long as its owner does.
LEMMA RowsRemembered ==
    ASSUME ViewInv, Remember, NEW u \in Users, NEW r \in Rows
    PROVE  /\ r \in once'[u] <=> r \in once[u] \/ owner'[r] = u
           /\ owner'[r] = owner[r] => RowSeen(u, r)' = RowSeen(u, r)
<1>1. r \in once'[u] <=> r \in once[u] \/ owner'[r] = u
      BY DEF Remember
<1>2. owner[r] = u => r \in once[u]
      BY DEF ViewInv
<1> QED BY <1>1, <1>2 DEF RowSeen

\* What one account sees of the two tables.
SessionsSeen(u) == [s \in Sessions |-> RowSeen(u, s)]
FilesSeen(u) == [f \in Files |-> RowSeen(u, f)]
Unseen(u) ==
    /\ KindSeen(u)' = KindSeen(u)
    /\ \A r \in Rows : RowSeen(u, r)' = RowSeen(u, r)

LEMMA UnseenStutters ==
    ASSUME NEW u \in Users, Unseen(u) PROVE UNCHANGED Life(u)!vars
<1>1. Sessions \subseteq Rows /\ Files \subseteq Rows
      BY DEF Rows
<1>2. SessionsSeen(u)' = SessionsSeen(u) /\ FilesSeen(u)' = FilesSeen(u)
      BY <1>1 DEF Unseen, SessionsSeen, FilesSeen
<1> QED BY <1>2 DEF Unseen, Life!vars, SessionsSeen, FilesSeen

\* One row of the account changes.
LEMMA OneRowSeen ==
    ASSUME NEW u \in Users, NEW r \in Rows, NEW state,
           KindSeen(u)' = KindSeen(u), RowSeen(u, r)' = state,
           \A x \in Rows : x # r => RowSeen(u, x)' = RowSeen(u, x)
    PROVE  \/ /\ r \in Sessions
              /\ SessionsSeen(u)' = [SessionsSeen(u) EXCEPT ![r] = state]
              /\ FilesSeen(u)' = FilesSeen(u)
           \/ /\ r \in Files
              /\ FilesSeen(u)' = [FilesSeen(u) EXCEPT ![r] = state]
              /\ SessionsSeen(u)' = SessionsSeen(u)
BY ConstantsOK DEF Rows, SessionsSeen, FilesSeen

LEMMA CreateSeen ==
    ASSUME NEW u \in Users, NEW r \in Rows, KindSeen(u) \in {"anonymous", "signed_in"},
           KindSeen(u)' = KindSeen(u),
           RowSeen(u, r) = "free", RowSeen(u, r)' = "own",
           \A x \in Rows : x # r => RowSeen(u, x)' = RowSeen(u, x)
    PROVE  Life(u)!Next
<1>1. CASE /\ r \in Sessions
           /\ SessionsSeen(u)' = [SessionsSeen(u) EXCEPT ![r] = "own"]
           /\ FilesSeen(u)' = FilesSeen(u)
  <2>1. Life(u)!CreateSession(r)
        BY <1>1 DEF Life!CreateSession, Life!Open, SessionsSeen, FilesSeen
  <2> QED BY <1>1, <2>1 DEF Life!Next
<1>2. CASE /\ r \in Files
           /\ FilesSeen(u)' = [FilesSeen(u) EXCEPT ![r] = "own"]
           /\ SessionsSeen(u)' = SessionsSeen(u)
  <2>1. Life(u)!CreateFile(r)
        BY <1>2 DEF Life!CreateFile, Life!Open, SessionsSeen, FilesSeen
  <2> QED BY <1>2, <2>1 DEF Life!Next
<1> QED BY <1>1, <1>2, OneRowSeen

LEMMA DeleteSeen ==
    ASSUME NEW u \in Users, NEW r \in Rows, KindSeen(u)' = KindSeen(u),
           RowSeen(u, r) \in {"own", "other"}, RowSeen(u, r)' = "deleted",
           \A x \in Rows : x # r => RowSeen(u, x)' = RowSeen(u, x)
    PROVE  Life(u)!Next
<1>1. CASE /\ r \in Sessions
           /\ SessionsSeen(u)' = [SessionsSeen(u) EXCEPT ![r] = "deleted"]
           /\ FilesSeen(u)' = FilesSeen(u)
  <2>1. Life(u)!DeleteSession(r)
        BY <1>1 DEF Life!DeleteSession, SessionsSeen, FilesSeen
  <2> QED BY <1>1, <2>1 DEF Life!Next
<1>2. CASE /\ r \in Files
           /\ FilesSeen(u)' = [FilesSeen(u) EXCEPT ![r] = "deleted"]
           /\ SessionsSeen(u)' = SessionsSeen(u)
  <2>1. Life(u)!DeleteFile(r)
        BY <1>2 DEF Life!DeleteFile, SessionsSeen, FilesSeen
  <2> QED BY <1>2, <2>1 DEF Life!Next
<1> QED BY <1>1, <1>2, OneRowSeen

\* A conversion, from its source's and its target's side, and from elsewhere.
LEMMA ConvertSeen ==
    ASSUME TypeOK, ViewInv, Remember, NEW u \in Users,
           NEW source_ \in Users, NEW target \in Users, NEW kept \in SUBSET Rows,
           Abs!Convert(source_, target, kept)
    PROVE  Unseen(u) \/ Life(u)!Next
<1>1. /\ account[source_] = "anonymous" /\ account[target] = "identified"
      /\ source_ # target
      /\ \A r \in kept : owner[r] = source_ /\ owner'[r] = target
      /\ \A r \in Rows \ kept :
            owner'[r] = IF owner[r] = source_ THEN Removed ELSE owner[r]
      /\ account' = [account EXCEPT ![source_] = "deleted"]
      BY DEF Abs!Convert
<1>2. \A r \in Rows : owner[r] = source_ /\ u # source_ => r \notin once[u]
      BY <1>1 DEF ViewInv
<1>3. Removed # u /\ Removed # target
      BY ConstantsOK
<1>4. CASE u = source_
  <2>1. KindSeen(u) = "anonymous" /\ KindSeen(u)' = "closed"
        BY <1>1, <1>4 DEF KindSeen, TypeOK
  <2>2. ASSUME NEW r \in Rows
        PROVE  /\ r \in kept => RowSeen(u, r) = "own"
               /\ RowSeen(u, r)' = IF RowSeen(u, r) # "own" THEN RowSeen(u, r)
                                   ELSE IF r \in kept THEN "other" ELSE "deleted"
    <3>1. RowSeen(u, r) = "own" <=> owner[r] = u
          BY <1>3 DEF RowSeen, ViewInv
    <3>2. CASE owner[r] # u
          BY <1>1, <1>4, <3>1, <3>2, RowsRemembered
    <3>3. CASE owner[r] = u
          BY <1>1, <1>3, <1>4, <3>1, <3>3, RowsRemembered DEF RowSeen
    <3> QED BY <1>1, <1>4, <3>1, <3>2, <3>3
  <2>3. Life(u)!Close(kept)
    <3>1. Sessions \subseteq Rows /\ Files \subseteq Rows
          BY DEF Rows
    <3>2. kept \subseteq Life(u)!Those("own")
          BY <2>2 DEF Life!Those, Rows
    <3>3. /\ SessionsSeen(u)' = Life(u)!Handed(SessionsSeen(u), kept)
          /\ FilesSeen(u)' = Life(u)!Handed(FilesSeen(u), kept)
          BY <2>2, <3>1 DEF Life!Handed, SessionsSeen, FilesSeen
    <3> QED BY <2>1, <3>2, <3>3 DEF Life!Close, SessionsSeen, FilesSeen
  <2> QED BY <2>3 DEF Life!Next, Rows
<1>5. CASE u = target /\ kept # {}
  <2>1. KindSeen(u) = "signed_in" /\ KindSeen(u)' = "signed_in"
        BY <1>1, <1>5 DEF KindSeen, TypeOK
  <2>2. ASSUME NEW r \in Rows
        PROVE  /\ r \in kept => RowSeen(u, r) = "free"
               /\ RowSeen(u, r)' = IF RowSeen(u, r) = "free" /\ r \in kept THEN "own"
                                   ELSE RowSeen(u, r)
    <3>1. CASE r \in kept
          BY <1>1, <1>2, <1>5, <3>1, RowsRemembered DEF RowSeen
    <3>2. CASE r \notin kept /\ owner[r] = source_
          BY <1>1, <1>2, <1>3, <1>5, <3>2, RowsRemembered DEF RowSeen
    <3>3. CASE r \notin kept /\ owner[r] # source_
          BY <1>1, <3>3, RowsRemembered
    <3> QED BY <3>1, <3>2, <3>3
  <2>3. Life(u)!TakeOver(kept)
    <3>1. Sessions \subseteq Rows /\ Files \subseteq Rows
          BY DEF Rows
    <3>2. kept \subseteq Life(u)!Those("free")
          BY <2>2 DEF Life!Those, Rows
    <3>3. /\ SessionsSeen(u)' = Life(u)!Gained(SessionsSeen(u), kept)
          /\ FilesSeen(u)' = Life(u)!Gained(FilesSeen(u), kept)
          BY <2>2, <3>1 DEF Life!Gained, SessionsSeen, FilesSeen
    <3> QED BY <1>5, <2>1, <3>2, <3>3 DEF Life!TakeOver, SessionsSeen, FilesSeen
  <2> QED BY <2>3 DEF Life!Next, Rows
<1>6. CASE u # source_ /\ (u # target \/ kept = {})
  <2>1. KindSeen(u)' = KindSeen(u)
        BY <1>1, <1>6 DEF KindSeen, TypeOK
  <2>2. ASSUME NEW r \in Rows PROVE RowSeen(u, r)' = RowSeen(u, r)
    <3>1. CASE owner[r] # source_
          BY <1>1, <3>1, RowsRemembered
    <3>2. CASE owner[r] = source_
          BY <1>1, <1>2, <1>3, <1>6, <3>2, RowsRemembered DEF RowSeen
    <3> QED BY <3>1, <3>2
  <2> QED BY <2>1, <2>2 DEF Unseen
<1> QED BY <1>4, <1>5, <1>6

LEMMA LifeStep ==
    ASSUME TypeOK, ViewInv, Remember, Abs!Next, NEW u \in Users
    PROVE  UNCHANGED Life(u)!vars \/ Life(u)!Next
<1>1. ASSUME NEW v \in Users, NEW k \in {"anonymous", "identified"}, Abs!Open(v, k)
      PROVE  Unseen(u) \/ Life(u)!Next
  <2>1. \A r \in Rows : RowSeen(u, r)' = RowSeen(u, r)
        BY <1>1, RowsRemembered DEF Abs!Open
  <2>2. CASE v = u
    <3>1. KindSeen(u) = "none" /\ KindSeen(u)' \in {"anonymous", "signed_in"}
          BY <1>1, <2>2 DEF KindSeen, TypeOK, Abs!Open
    <3>2. SessionsSeen(u)' = SessionsSeen(u) /\ FilesSeen(u)' = FilesSeen(u)
          BY <2>1 DEF SessionsSeen, FilesSeen, Rows
    <3>3. \E w \in Life(u)!Open : Life(u)!SignUp(w)
          BY <3>1, <3>2 DEF Life!Open, Life!SignUp, SessionsSeen, FilesSeen
    <3> QED BY <3>3 DEF Life!Next
  <2>3. CASE v # u
        BY <1>1, <2>1, <2>3 DEF Unseen, KindSeen, TypeOK, Abs!Open
  <2> QED BY <2>2, <2>3
<1>2. ASSUME NEW r \in Rows, NEW v \in Users, Abs!Create(r, v)
      PROVE  Unseen(u) \/ Life(u)!Next
  <2>1. /\ account' = account /\ owner[r] = Nobody /\ owner'[r] = v
        /\ \A x \in Rows : x # r => owner'[x] = owner[x]
        BY <1>2 DEF Abs!Create, TypeOK
  <2>2. /\ KindSeen(u)' = KindSeen(u) /\ RowSeen(u, r) = "free"
        /\ \A x \in Rows : x # r => RowSeen(u, x)' = RowSeen(u, x)
        BY <2>1, RowsRemembered DEF KindSeen, RowSeen, ViewInv
  <2>3. CASE v = u
    <3>1. RowSeen(u, r)' = "own"
          BY <2>1, <2>3, RowsRemembered DEF RowSeen
    <3>2. KindSeen(u) \in {"anonymous", "signed_in"}
          BY <1>2, <2>3 DEF Abs!Create, KindSeen
    <3> QED BY <2>2, <3>1, <3>2, CreateSeen
  <2>4. CASE v # u
    <3>1. RowSeen(u, r)' = "free"
          BY <2>1, <2>2, <2>4, RowsRemembered DEF RowSeen, ViewInv
    <3> QED BY <2>2, <3>1 DEF Unseen
  <2> QED BY <2>3, <2>4
<1>3. ASSUME NEW r \in Rows, Abs!Remove(r) PROVE Unseen(u) \/ Life(u)!Next
  <2>1. /\ account' = account /\ owner[r] \in Users /\ owner'[r] = Removed
        /\ Removed \notin Users
        /\ \A x \in Rows : x # r => owner'[x] = owner[x]
        BY <1>3, ConstantsOK DEF Abs!Remove, TypeOK
  <2>2. /\ KindSeen(u)' = KindSeen(u)
        /\ \A x \in Rows : x # r => RowSeen(u, x)' = RowSeen(u, x)
        BY <2>1, RowsRemembered DEF KindSeen
  <2>3. CASE r \in once[u]
    <3>1. RowSeen(u, r) \in {"own", "other"} /\ RowSeen(u, r)' = "deleted"
          BY <2>1, <2>3, RowsRemembered DEF RowSeen
    <3> QED BY <2>2, <3>1, DeleteSeen
  <2>4. CASE r \notin once[u]
    <3>1. RowSeen(u, r)' = RowSeen(u, r)
          BY <2>1, <2>4, RowsRemembered DEF RowSeen
    <3> QED BY <2>2, <3>1 DEF Unseen
  <2> QED BY <2>3, <2>4
<1>4. ASSUME NEW s \in Users, NEW t \in Users, NEW kept \in SUBSET Rows,
             Abs!Convert(s, t, kept)
      PROVE  Unseen(u) \/ Life(u)!Next
      BY <1>4, ConvertSeen
<1>5. Unseen(u) \/ Life(u)!Next
      BY <1>1, <1>2, <1>3, <1>4 DEF Abs!Next
<1> QED BY <1>5, UnseenStutters

LEMMA ViewInvStep ==
    ASSUME TypeOK, ViewInv, Remember, Abs!Next \/ UNCHANGED <<account, owner>>
    PROVE  ViewInv'
<1> SUFFICES ASSUME NEW u \in Users, NEW r \in Rows
             PROVE  /\ owner'[r] = u => r \in once'[u]
                    /\ r \in once'[u] =>
                          /\ owner'[r] # Nobody
                          /\ owner'[r] \in Users \ {u} =>
                                account'[owner'[r]] = "identified"
    BY DEF ViewInv
<1>1. /\ r \in once'[u] <=> r \in once[u] \/ owner'[r] = u
      /\ u # Nobody /\ Removed # Nobody /\ Removed \notin Users
      BY RowsRemembered, ConstantsOK
<1>2. /\ owner[r] = u => r \in once[u]
      /\ r \in once[u] =>
            /\ owner[r] # Nobody
            /\ owner[r] \in Users \ {u} => account[owner[r]] = "identified"
      BY DEF ViewInv
<1>3. CASE UNCHANGED <<account, owner>>
      BY <1>1, <1>2, <1>3
<1>4. ASSUME NEW v \in Users, NEW k \in {"anonymous", "identified"}, Abs!Open(v, k)
      PROVE  UNCHANGED owner
             /\ \A w \in Users : account[w] = "identified" => account'[w] = "identified"
      BY <1>4 DEF Abs!Open, TypeOK
<1>5. ASSUME NEW x \in Rows, NEW v \in Users, Abs!Create(x, v)
      PROVE  /\ UNCHANGED account
             /\ owner'[r] = owner[r] \/ (owner[r] = Nobody /\ owner'[r] = v)
      BY <1>5 DEF Abs!Create, TypeOK
<1>6. ASSUME NEW x \in Rows, Abs!Remove(x)
      PROVE  UNCHANGED account /\ owner'[r] \in {owner[r], Removed}
      BY <1>6 DEF Abs!Remove, TypeOK
<1>7. ASSUME NEW s \in Users, NEW t \in Users, NEW kept \in SUBSET Rows,
             Abs!Convert(s, t, kept)
      PROVE  /\ account[t] = "identified"
             /\ \A w \in Users : account[w] = "identified" => account'[w] = "identified"
             /\ owner'[r] \in {owner[r], Removed, t}
      BY <1>7 DEF Abs!Convert, TypeOK
<1>8. CASE Abs!Next
  <2> DEFINE Goal == /\ owner'[r] = u => r \in once'[u]
                     /\ r \in once'[u] =>
                           /\ owner'[r] # Nobody
                           /\ owner'[r] \in Users \ {u} =>
                                 account'[owner'[r]] = "identified"
  <2>1. ASSUME NEW v \in Users, NEW k \in {"anonymous", "identified"}, Abs!Open(v, k)
        PROVE  Goal
        BY <1>1, <1>2, <1>4, <2>1
  <2>2. ASSUME NEW x \in Rows, NEW v \in Users, Abs!Create(x, v) PROVE Goal
        BY <1>1, <1>2, <1>5, <2>2, ConstantsOK
  <2>3. ASSUME NEW x \in Rows, Abs!Remove(x) PROVE Goal
        BY <1>1, <1>2, <1>6, <2>3
  <2>4. ASSUME NEW s \in Users, NEW t \in Users, NEW kept \in SUBSET Rows,
               Abs!Convert(s, t, kept)
        PROVE  Goal
        BY <1>1, <1>2, <1>7, <2>4, ConstantsOK
  <2> QED BY <1>8, <2>1, <2>2, <2>3, <2>4 DEF Abs!Next
<1> QED BY <1>3, <1>8

(* Every account of every behaviour of the interleaved requests meets an   *)
(* AccountLife, the environment in which Answers follows a request.        *)
THEOREM AccountsLive == ViewSpec => EveryAccountLives
<1> DEFINE Lives == \A u \in Users : UNCHANGED Life(u)!vars \/ Life(u)!Next
<1>1. ViewInit => IInv /\ ViewInv
  <2>1. Init => IInv
        BY InvInit
  <2> QED BY <2>1, ConstantsOK DEF ViewInit, ViewInv, Init
<1>2. IInv /\ ViewInv /\ [ViewNext]_<<vars, once>> => (IInv /\ ViewInv)'
  <2>1. ASSUME IInv, ViewInv, ViewNext PROVE IInv' /\ ViewInv'
    <3>1. IInv' /\ (Abs!Next \/ UNCHANGED <<account, owner>>)
          BY <2>1, InvStep, StepRefines DEF ViewNext, Abs!vars
    <3> QED BY <2>1, <3>1, ViewInvStep DEF ViewNext, IInv
  <2>2. ASSUME IInv, ViewInv, UNCHANGED <<vars, once>> PROVE IInv' /\ ViewInv'
    <3>1. IInv'
          BY <2>2, InvStep
    <3> QED BY <2>2, <3>1 DEF vars, ViewInv
  <2> QED BY <2>1, <2>2
<1>3. IInv /\ ViewInv /\ [ViewNext]_<<vars, once>> => [Lives]_<<account, owner, once>>
  <2> SUFFICES ASSUME IInv, ViewInv, ViewNext, NEW u \in Users
               PROVE  UNCHANGED Life(u)!vars \/ Life(u)!Next
      BY DEF vars
  <2>1. Abs!Next \/ UNCHANGED <<account, owner>>
        BY StepRefines DEF ViewNext, Abs!vars
  <2>2. CASE Abs!Next
        BY <2>2, LifeStep DEF ViewNext, IInv
  <2>3. CASE UNCHANGED <<account, owner>>
    <3>1. Unseen(u)
          BY <2>3, RowsRemembered DEF Unseen, KindSeen, ViewNext
    <3> QED BY <3>1, UnseenStutters
  <2> QED BY <2>1, <2>2, <2>3
<1>4. ViewInit => \A u \in Users : Life(u)!Init
      BY DEF ViewInit, Init, Life!Init, Life!Open, KindSeen, RowSeen
<1>5. ViewSpec => [][Lives]_<<account, owner, once>>
      BY <1>1, <1>2, <1>3, PTL DEF ViewSpec
<1> QED BY <1>4, <1>5 DEF ViewSpec, EveryAccountLives
=============================================================================
