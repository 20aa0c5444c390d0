--------------------------- MODULE FileStoreProofs ---------------------------
(* Theorems about FileStore for every number of files and requests.        *)
EXTENDS FileStore, TLAPS

LEMMA TypeStep == TypeOK /\ [Next]_vars => TypeOK'
<1> SUFFICES ASSUME TypeOK, [Next]_vars PROVE TypeOK'
    OBVIOUS
<1> USE NoneIsNoFile DEF TypeOK, Present, RowStates, Pcs, Goto, Start, End, Unswept
<1>1. ASSUME NEW p \in Slots, Create(p) PROVE TypeOK'
  <2>1. ASSUME NEW f \in Files, CreateInline(p, f) \/ CreateOffloaded(p, f)
        PROVE  TypeOK'
        BY <2>1 DEF CreateInline, CreateOffloaded
  <2>2. CASE Upload(p)
        BY <2>2 DEF Upload
  <2>3. CASE SetKey(p)
        BY <2>3 DEF SetKey
  <2>4. CASE Answer(p)
        BY <2>4 DEF Answer
  <2> QED BY <1>1, <2>1, <2>2, <2>3, <2>4 DEF Create
<1>2. ASSUME NEW p \in Slots, Download(p) PROVE TypeOK'
  <2>1. ASSUME NEW f \in Files, ReadKeyed(p, f) PROVE TypeOK'
        BY <2>1 DEF ReadKeyed
  <2>2. ASSUME NEW f \in Files, ReadColumn(p, f) PROVE TypeOK'
        BY <2>2 DEF ReadColumn
  <2>3. CASE GetObject(p)
        BY <2>3 DEF GetObject
  <2> QED BY <1>2, <2>1, <2>2, <2>3 DEF Download
<1>3. ASSUME NEW p \in Slots, Delete(p) PROVE TypeOK'
  <2>1. ASSUME NEW f \in Files, FindForDelete(p, f) PROVE TypeOK'
    <3>1. UNCHANGED <<row, object, reported, readable, unswept, emptied>>
          BY <2>1 DEF FindForDelete
    <3>2. /\ pc' \in [Slots -> Pcs] /\ file' \in [Slots -> Files \cup {None}]
          /\ key' \in [Slots -> BOOLEAN]
          BY <2>1 DEF FindForDelete
    <3>3. \A q \in Slots : pc'[q] = "idle" <=> file'[q] = None
          BY <2>1 DEF FindForDelete
    <3> QED BY <3>1, <3>2, <3>3
  <2>2. CASE DeleteRow(p)
    <3>1. file[p] \in Files /\ unswept' \subseteq Files
          BY <2>2 DEF DeleteRow
    <3>2. row' \in [Files -> RowStates] /\ UNCHANGED <<object, reported, readable, emptied>>
          BY <2>2 DEF DeleteRow
    <3>3. /\ pc' \in [Slots -> Pcs] /\ file' \in [Slots -> Files \cup {None}]
          /\ key' \in [Slots -> BOOLEAN]
          BY <2>2 DEF DeleteRow
    <3>4. \A q \in Slots : pc'[q] = "idle" <=> file'[q] = None
          BY <2>2, <3>1 DEF DeleteRow
    <3> QED BY <3>1, <3>2, <3>3, <3>4
  <2>3. CASE DeleteObject(p)
        BY <2>3 DEF DeleteObject
  <2> QED BY <1>3, <2>1, <2>2, <2>3 DEF Delete
<1>4. ASSUME NEW p \in Slots, Fail(p) PROVE TypeOK'
      BY <1>4 DEF Fail
<1>5. ASSUME NEW f \in Files, Cascade(f) PROVE TypeOK'
      BY <1>5 DEF Cascade
<1>6. CASE Restart
      BY <1>6 DEF Restart
<1>7. CASE UNCHANGED vars
      BY <1>7 DEF vars
<1> QED BY <1>1, <1>2, <1>3, <1>4, <1>5, <1>6, <1>7 DEF Next

(* Each action changes the row, the object or the key of one file; the     *)
(* other requests on that file are what the invariant speaks of.           *)
LEMMA InvStep == IInv /\ [Next]_vars => IInv'
<1> SUFFICES ASSUME IInv, [Next]_vars PROVE IInv'
    OBVIOUS
<1>0. TypeOK'
      BY TypeStep DEF IInv
<1> USE NoneIsNoFile
    DEF IInv, TypeOK, CreatorInv, KeyInv, RowInv, AnswerInv, ReadableFiles, OrphansHaveACause,
        Whole, Creating, Present, RowStates, Pcs, Goto, Start, End, Unswept
<1>1. ASSUME NEW p \in Slots, Create(p) PROVE IInv'
  <2>1. ASSUME NEW f \in Files, CreateInline(p, f) PROVE IInv'
        BY <2>1 DEF CreateInline
  <2>2. ASSUME NEW f \in Files, CreateOffloaded(p, f) PROVE IInv'
        BY <2>2 DEF CreateOffloaded
  <2>3. CASE Upload(p)
        BY <2>3 DEF Upload
  <2>4. CASE SetKey(p)
        BY <2>4 DEF SetKey
  <2>5. CASE Answer(p)
        BY <2>5 DEF Answer
  <2> QED BY <1>1, <2>1, <2>2, <2>3, <2>4, <2>5 DEF Create
<1>2. ASSUME NEW p \in Slots, Download(p) PROVE IInv'
  <2>1. ASSUME NEW f \in Files, ReadKeyed(p, f) PROVE IInv'
        BY <2>1 DEF ReadKeyed
  <2>2. ASSUME NEW f \in Files, ReadColumn(p, f) PROVE IInv'
        BY <2>2 DEF ReadColumn
  <2>3. CASE GetObject(p)
        BY <2>3 DEF GetObject
  <2> QED BY <1>2, <2>1, <2>2, <2>3 DEF Download
<1>3. ASSUME NEW p \in Slots, Delete(p) PROVE IInv'
  <2>1. ASSUME NEW f \in Files, FindForDelete(p, f) PROVE IInv'
        BY <2>1 DEF FindForDelete
  <2>2. CASE DeleteRow(p)
    <3>1. file[p] \in Files
          BY <2>2 DEF DeleteRow
    <3>2. CASE key[p]
      <4>1. TypeOK' /\ CreatorInv' /\ KeyInv' /\ RowInv' /\ AnswerInv'
            BY <2>2, <3>1, <3>2 DEF DeleteRow
      <4>2. ReadableFiles' /\ OrphansHaveACause'
            BY <2>2, <3>1, <3>2 DEF DeleteRow
      <4> QED BY <4>1, <4>2
    <3>3. CASE ~ key[p]
      <4>1. TypeOK'
            BY <1>0
      <4>2. CreatorInv'
            BY <2>2, <3>1, <3>3 DEF DeleteRow
      <4>3. KeyInv' /\ RowInv' /\ AnswerInv'
            BY <2>2, <3>1, <3>3 DEF DeleteRow
      <4>4. ReadableFiles' /\ OrphansHaveACause'
            BY <2>2, <3>1, <3>3 DEF DeleteRow
      <4> QED BY <4>1, <4>2, <4>3, <4>4
    <3> QED BY <3>2, <3>3
  <2>3. CASE DeleteObject(p)
        BY <2>3 DEF DeleteObject
  <2> QED BY <1>3, <2>1, <2>2, <2>3 DEF Delete
<1>4. ASSUME NEW p \in Slots, Fail(p) PROVE IInv'
      BY <1>4 DEF Fail
<1>5. ASSUME NEW f \in Files, Cascade(f) PROVE IInv'
      BY <1>5 DEF Cascade
<1>6. CASE Restart
      BY <1>6 DEF Restart
<1>7. CASE UNCHANGED vars
      BY <1>7 DEF vars
<1> QED BY <1>1, <1>2, <1>3, <1>4, <1>5, <1>6, <1>7 DEF Next

THEOREM Invariance == Spec => []IInv
<1>1. Init => IInv
      BY NoneIsNoFile
      DEF Init, IInv, TypeOK, CreatorInv, KeyInv, RowInv, AnswerInv, ReadableFiles,
          OrphansHaveACause, Whole, Creating, RowStates, Pcs
<1> QED BY <1>1, InvStep, PTL DEF Spec

(* Type correctness.                                                       *)
THEOREM TypeCorrect == Spec => []TypeOK
<1>1. IInv => TypeOK
      BY DEF IInv
<1> QED BY <1>1, Invariance, PTL

(* A key is never dangling, and a file the client was told of, however late*)
(* after it was stored, is readable until it is deleted.                   *)
THEOREM FilesAreReadable == Spec => []ReadableFiles
<1>1. IInv => ReadableFiles
      BY DEF IInv
<1> QED BY <1>1, Invariance, PTL

(* Only the recorded causes leave an object without a row.                 *)
THEOREM OrphansAreExplained == Spec => []OrphansHaveACause
<1>1. IInv => OrphansHaveACause
      BY DEF IInv
<1> QED BY <1>1, Invariance, PTL

(* A readable file stays readable: the only step out of inline or keyed    *)
(* is the row's deletion, and the invariant keeps the object of a key.     *)
THEOREM ReadableIsStable == Spec => WholeStaysWhole
<1>1. IInv /\ IInv' /\ [Next]_vars =>
          [\A f \in Files : Whole(f) => Whole(f)' \/ row'[f] = "deleted"]_vars
  <2> SUFFICES ASSUME IInv, IInv', [Next]_vars, NEW f \in Files, Whole(f)
               PROVE  Whole(f)' \/ row'[f] = "deleted"
      OBVIOUS
  <2>1. row'[f] = row[f] \/ row'[f] \in {"keyed", "deleted"}
    <3>1. ASSUME NEW p \in Slots, Create(p) \/ Download(p) \/ Delete(p) \/ Fail(p)
          PROVE  row'[f] = row[f] \/ row'[f] \in {"keyed", "deleted"}
          BY <3>1
          DEF IInv, TypeOK, Whole, Create, CreateInline, CreateOffloaded, Upload,
              SetKey, Answer, Download, ReadKeyed, ReadColumn,
              GetObject, Delete, FindForDelete, DeleteRow, DeleteObject, Fail
    <3>2. ASSUME NEW g \in Files, Cascade(g)
          PROVE  row'[f] = row[f] \/ row'[f] \in {"keyed", "deleted"}
          BY <3>2 DEF IInv, TypeOK, Cascade
    <3> QED BY <3>1, <3>2 DEF Next, Restart, vars
  <2> QED BY <2>1 DEF IInv, ReadableFiles, Whole
<1> QED BY <1>1, Invariance, PTL DEF Spec, WholeStaysWhole

-----------------------------------------------------------------------------
(* The refinement.  The status of a file is read off its row and object,   *)
(* and of a deleted one off what it once was.                              *)
LEMMA StatusOf ==
    ASSUME NEW f \in Files
    PROVE  /\ row[f] = "none" => Status(f) = "none"
           /\ row[f] = "deleted" =>
                 Status(f) = IF f \in readable THEN "removed" ELSE "dropped"
BY DEF Status, Whole

LEMMA StatusSame ==
    ASSUME NEW f \in Files, row'[f] = row[f], f \in object' <=> f \in object,
           f \in readable' <=> f \in readable
    PROVE  Status(f)' = Status(f)
BY DEF Status, Whole

(* Steps that change no row and give no row its object leave all as it is, *)
(* but for objects that lose their deleter.                                *)
LEMMA QuietStep ==
    ASSUME IInv, UNCHANGED <<row, readable, reported>>,
           \A f \in Files : row[f] = "keyed" => f \in object',
           Stranded \subseteq Stranded', Stranded' \subseteq Files
    PROVE  [Abs!Next]_(Abs!vars)
<1>1. \A f \in Files : Status(f)' = Status(f)
      BY DEF IInv, ReadableFiles, Status, Whole
<1>2. [f \in Files |-> Status(f)]' = [f \in Files |-> Status(f)]
      BY <1>1
<1>3. \A f \in Stranded' : Status(f) \in {"removed", "dropped"}
  <2> SUFFICES ASSUME NEW f \in Stranded' PROVE Status(f) \in {"removed", "dropped"}
      OBVIOUS
  <2>1. f \in Files /\ row[f] = "deleted"
        BY DEF Stranded
  <2> QED BY <2>1, StatusOf
<1>4. Abs!Strand(Stranded')
      BY <1>2, <1>3 DEF Abs!Strand
<1> QED BY <1>4 DEF Abs!Next

LEMMA LifecycleStep ==
    ASSUME IInv, [Next]_vars, IInv'
    PROVE  [Abs!Next]_(Abs!vars)
<1> DEFINE status == [f \in Files |-> Status(f)]
<1> USE NoneIsNoFile DEF IInv, TypeOK
<1>1. Stranded' \subseteq Files
      BY DEF Stranded
\* A step that changes the row of one file only, and no object.
<1>2. ASSUME NEW f \in Files, NEW s, row' = [row EXCEPT ![f] = s],
             object' = object,
             readable' = readable \/ readable' = readable \cup {f}
      PROVE  status' = [status EXCEPT ![f] = Status(f)']
  <2>1. \A g \in Files \ {f} : Status(g)' = Status(g)
        BY <1>2, StatusSame
  <2> QED BY <2>1
<1>3. ASSUME NEW p \in Slots, Create(p) PROVE [Abs!Next]_(Abs!vars)
  <2>1. ASSUME NEW f \in Files, CreateInline(p, f) PROVE [Abs!Next]_(Abs!vars)
    <3>1. status' = [status EXCEPT ![f] = "readable"]
          BY <1>2, <2>1 DEF CreateInline, Start, Status, Whole
    <3>2. status[f] = "none" /\ reported' = reported
          BY <2>1, StatusOf DEF CreateInline
    <3>3. Stranded' = Stranded
          BY <2>1 DEF CreateInline, Start, Goto, Stranded
    <3>4. Abs!Publish(f)
          BY <3>1, <3>2, <3>3 DEF Abs!Publish
    <3> QED BY <3>4 DEF Abs!Next
  <2>2. ASSUME NEW f \in Files, CreateOffloaded(p, f) PROVE [Abs!Next]_(Abs!vars)
    <3>1. status' = [status EXCEPT ![f] = "pending"]
          BY <1>2, <2>2 DEF CreateOffloaded, Start, Status, Whole
    <3>2. status[f] = "none" /\ reported' = reported
          BY <2>2, StatusOf DEF CreateOffloaded
    <3>3. Stranded' = Stranded
          BY <2>2 DEF CreateOffloaded, Start, Goto, Stranded
    <3>4. Abs!Begin(f)
          BY <3>1, <3>2, <3>3 DEF Abs!Begin
    <3> QED BY <3>4 DEF Abs!Next
  <2>3. CASE Upload(p)
    <3>1. UNCHANGED <<row, readable, reported>> /\ object \subseteq object'
          BY <2>3 DEF Upload
    <3>2. Stranded \subseteq Stranded'
          BY <2>3 DEF Upload, Goto, Stranded
    <3> QED BY <1>1, <3>1, <3>2, QuietStep DEF ReadableFiles
  <2>4. CASE SetKey(p)
    <3> PICK f \in Files : f = file[p]
        BY <2>4 DEF SetKey, CreatorInv, Creating, Present
    <3>1. row[f] = "keyless" /\ f \in object
          BY <2>4 DEF SetKey, CreatorInv, Creating, Present
    <3>2. status' = [status EXCEPT ![f] = "readable"]
      <4>1. /\ row' = [row EXCEPT ![f] = "keyed"] /\ object' = object
            /\ readable' = readable \cup {f}
            BY <2>4 DEF SetKey
      <4>2. Status(f)' = "readable"
            BY <3>1, <4>1 DEF Status, Whole
      <4> QED BY <1>2, <3>1, <4>1, <4>2
    <3>3. status[f] = "pending"
          BY <3>1 DEF Status, Whole
    <3>4. Stranded' = Stranded /\ reported' = reported
          BY <2>4, <3>1 DEF SetKey, Goto, Stranded
    <3>5. Abs!Publish(f)
          BY <3>1, <3>2, <3>3, <3>4 DEF Abs!Publish
    <3> QED BY <3>5 DEF Abs!Next
  <2>5. CASE Answer(p)
    <3> PICK f \in Files : f = file[p]
        BY <2>5 DEF Answer
    <3>1. f \in readable /\ (Whole(f) \/ row[f] = "deleted")
          BY <2>5 DEF Answer, AnswerInv
    <3>2. status[f] \in {"readable", "removed"}
          BY <3>1 DEF Status, Whole
    <3>3. reported' = reported \cup {f} /\ UNCHANGED <<row, object, readable>>
          BY <2>5 DEF Answer
    <3>4. status' = status
      <4>1. \A g \in Files : Status(g)' = Status(g)
            BY <3>3, StatusSame
      <4> QED BY <4>1
    <3>5. Stranded' = Stranded
          BY <2>5, <3>3 DEF Answer, End, Goto, Stranded
    <3>6. Abs!Tell(f)
          BY <3>2, <3>3, <3>4, <3>5 DEF Abs!Tell
    <3> QED BY <3>6 DEF Abs!Next
  <2> QED BY <1>3, <2>1, <2>2, <2>3, <2>4, <2>5 DEF Create
<1>4. ASSUME NEW p \in Slots, Download(p) PROVE [Abs!Next]_(Abs!vars)
  <2>1. UNCHANGED <<row, object, readable, reported>>
        BY <1>4 DEF Download, ReadKeyed, ReadColumn, GetObject
  <2>2. Stranded \subseteq Stranded'
        BY <1>4, <2>1
        DEF Download, ReadKeyed, ReadColumn, GetObject, Start, End, Goto, Stranded
  <2> QED BY <1>1, <2>1, <2>2, QuietStep DEF ReadableFiles
<1>5. ASSUME NEW f \in Files, row[f] \in Present,
             row' = [row EXCEPT ![f] = "deleted"],
             UNCHANGED <<object, readable, reported>>,
             \A g \in Files \ {f} : g \in Stranded' <=> g \in Stranded
      PROVE  [Abs!Next]_(Abs!vars)
  <2>1. Status(f)' = IF f \in readable THEN "removed" ELSE "dropped"
        BY <1>5 DEF Status, Whole
  <2>2. status[f] = IF f \in readable THEN "readable" ELSE "pending"
        BY <1>5 DEF Status, Whole, Present, RowInv, ReadableFiles
  <2>6. status' = [status EXCEPT ![f] = IF @ = "pending" THEN "dropped" ELSE "removed"]
    <3>1. status' = [status EXCEPT ![f] = Status(f)']
          BY <1>2, <1>5
    <3> QED BY <2>1, <2>2, <3>1
  <2>3. f \notin Stranded
        BY <1>5 DEF Stranded, Present
  <2>4. Stranded' = Stranded \/ Stranded' = Stranded \cup {f}
        BY <1>1, <1>5, <2>3 DEF Stranded
  <2>5. Abs!Remove(f)
        BY <1>5, <2>2, <2>4, <2>6 DEF Abs!Remove
  <2> QED BY <2>5 DEF Abs!Next
<1>6. ASSUME NEW p \in Slots, Delete(p) PROVE [Abs!Next]_(Abs!vars)
  <2>1. ASSUME NEW f \in Files, FindForDelete(p, f) PROVE [Abs!Next]_(Abs!vars)
    <3>1. Stranded \subseteq Stranded'
          BY <2>1 DEF FindForDelete, Start, Goto, Stranded
    <3> QED BY <1>1, <2>1, <3>1, QuietStep DEF FindForDelete, ReadableFiles
  <2>2. CASE DeleteRow(p)
    <3>1. file[p] \in Files
          BY <2>2 DEF DeleteRow
    <3>2. \A g \in Files \ {file[p]} : g \in Stranded' <=> g \in Stranded
          BY <2>2, <3>1 DEF DeleteRow, End, Goto, Stranded
    <3> QED BY <1>5, <2>2, <3>1, <3>2 DEF DeleteRow
  <2>3. CASE DeleteObject(p)
    <3>1. Stranded \subseteq Stranded'
          BY <2>3 DEF DeleteObject, End, Goto, Stranded
    <3>2. \A f \in Files : row[f] = "keyed" => f \in object'
          BY <2>3 DEF DeleteObject, KeyInv, ReadableFiles
    <3> QED BY <1>1, <2>3, <3>1, <3>2, QuietStep DEF DeleteObject
  <2> QED BY <1>6, <2>1, <2>2, <2>3 DEF Delete
<1>7. ASSUME NEW p \in Slots, Fail(p) PROVE [Abs!Next]_(Abs!vars)
  <2>1. Stranded \subseteq Stranded'
        BY <1>7 DEF Fail, End, Goto, Stranded
  <2> QED BY <1>1, <1>7, <2>1, QuietStep DEF Fail, ReadableFiles
<1>8. ASSUME NEW f \in Files, Cascade(f) PROVE [Abs!Next]_(Abs!vars)
  <2>1. \A g \in Files \ {f} : g \in Stranded' <=> g \in Stranded
        BY <1>8 DEF Cascade, Stranded
  <2> QED BY <1>5, <1>8, <2>1 DEF Cascade
<1>9. CASE Restart
  <2>1. Stranded \subseteq Stranded'
        BY <1>9 DEF Restart, Stranded
  <2> QED BY <1>1, <1>9, <2>1, QuietStep DEF Restart, ReadableFiles
<1>10. CASE UNCHANGED vars
  <2>1. Stranded' = Stranded
        BY <1>10 DEF vars, Stranded
  <2> QED BY <1>1, <1>10, <2>1, QuietStep DEF vars, ReadableFiles
<1> QED BY <1>3, <1>4, <1>6, <1>7, <1>8, <1>9, <1>10 DEF Next

(* FileStore implements FileLifecycle.                                     *)
THEOREM Implementation == Spec => ImplementsLifecycle
<1>1. Init => Abs!Init
  <2>1. Init => /\ \A f \in Files : Status(f) = "none"
                /\ Stranded = {} /\ reported = {}
        BY StatusOf DEF Init, Stranded
  <2> QED BY <2>1 DEF Abs!Init
<1> QED BY <1>1, Invariance, LifecycleStep, PTL DEF Spec, Abs!Spec, ImplementsLifecycle
=============================================================================
