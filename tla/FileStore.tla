------------------------------ MODULE FileStore ------------------------------
(***************************************************************************)
(* The body of a saved file: a row in Postgres, and for a body above the   *)
(* offload threshold an object in S3 under the key files/<row id>.  The    *)
(* two stores are written one after the other, with no transaction around  *)
(* them, by requests that run at once, fail, or die with the process; and  *)
(* the client hears of a file later than the stores, or never.             *)
(*                                                                         *)
(* Left out: who owns a file and the quota (Workspace), and its name.      *)
(***************************************************************************)
EXTENDS FiniteSets

CONSTANTS
    Files,   \* row ids
    Slots,   \* the requests that can run at once
    None     \* a request that has no file

ASSUME NoneIsNoFile == None \notin Files

VARIABLES
    row,       \* row[f], see RowStates
    object,    \* the files that have an object in the bucket
    pc, file,  \* the await a request is at, and the file it is about
    key,       \* whether the row it read had a storageKey
    reported,  \* history: files a client was told of
    readable,  \* history: files that could be read at some time
    unswept,   \* history: see Unswept
    emptied    \* history: offloaded files downloaded as an empty body

vars == <<row, object, pc, file, key, reported, readable, unswept, emptied>>

\* A small body is in the content column.  An offloaded one has '' there,
\* and its storageKey is null ("keyless") until the upload has been recorded.
RowStates == {"none", "inline", "keyless", "keyed", "deleted"}
Present == {"inline", "keyless", "keyed"}
Pcs == {"idle", "upload", "setKey", "answer", "get", "deleteRow", "deleteObject"}

Init ==
    /\ row = [f \in Files |-> "none"]
    /\ object = {}
    /\ pc = [p \in Slots |-> "idle"]
    /\ file = [p \in Slots |-> None]
    /\ key = [p \in Slots |-> FALSE]
    /\ reported = {} /\ readable = {} /\ unswept = {} /\ emptied = {}

Goto(p, l) == pc' = [pc EXCEPT ![p] = l]

Start(p, f, l) ==
    /\ pc[p] = "idle"
    /\ Goto(p, l)
    /\ file' = [file EXCEPT ![p] = f]

\* Mutant: the finished request keeps its file.
EndWithFile(p) ==
    /\ Goto(p, "idle")
    /\ key' = [key EXCEPT ![p] = FALSE]
    /\ UNCHANGED file

End(p) ==
    /\ Goto(p, "idle")
    /\ file' = [file EXCEPT ![p] = None]
    /\ key' = [key EXCEPT ![p] = FALSE]

\* The files among F whose object, if they have or get one, nobody will
\* remove any more: their row goes and no deleteFile with its key follows.
Unswept(F) == unswept' = unswept \cup {f \in F : row[f] # "inline"}

-----------------------------------------------------------------------------
(* createFile.  A request whose file is stored is at "answer" until its    *)
(* client has the response: the database has yet to answer, further blocks *)
(* of the reply are to be saved, and any of that may still fail.           *)

CreateInline(p, f) ==
    /\ row[f] = "none"
    /\ Start(p, f, "answer")
    /\ row' = [row EXCEPT ![f] = "inline"]
    /\ readable' = readable \cup {f}
    /\ UNCHANGED <<object, key, reported, unswept, emptied>>

CreateOffloaded(p, f) ==
    /\ row[f] = "none"
    /\ Start(p, f, "upload")
    /\ row' = [row EXCEPT ![f] = "keyless"]
    /\ UNCHANGED <<object, key, reported, readable, unswept, emptied>>

Upload(p) ==
    /\ pc[p] = "upload"
    /\ object' = object \cup {file[p]}
    /\ Goto(p, "setKey")
    /\ UNCHANGED <<row, file, key, reported, readable, unswept, emptied>>

\* Mutant: the request goes on as if the key were recorded.
SetKeySkipped(p) ==
    /\ pc[p] = "setKey"
    /\ Goto(p, "answer")
    /\ UNCHANGED <<row, object, file, key, reported, readable, unswept, emptied>>

\* Mutant: an updateMany, to which a row that is gone is no error.
SetKeyOfMany(p) ==
    /\ pc[p] = "setKey"
    /\ LET updated == {f \in {file[p]} : row[f] \in Present}
       IN  /\ row' = [f \in Files |-> IF f \in updated THEN "keyed" ELSE row[f]]
           /\ readable' = readable \cup updated
    /\ Goto(p, "answer")
    /\ UNCHANGED <<object, file, key, reported, unswept, emptied>>

SetKey(p) ==
    /\ pc[p] = "setKey"
    /\ row[file[p]] \in Present
    /\ row' = [row EXCEPT ![file[p]] = "keyed"]
    /\ readable' = readable \cup {file[p]}
    /\ Goto(p, "answer")
    /\ UNCHANGED <<object, file, key, reported, unswept, emptied>>

\* The response names the file, which may have been deleted since.
Answer(p) ==
    /\ pc[p] = "answer"
    /\ reported' = reported \cup {file[p]}
    /\ End(p)
    /\ UNCHANGED <<row, object, readable, unswept, emptied>>

-----------------------------------------------------------------------------
(* getFileContent.                                                         *)

ReadKeyed(p, f) ==
    /\ row[f] = "keyed"
    /\ Start(p, f, "get")
    /\ key' = [key EXCEPT ![p] = TRUE]
    /\ UNCHANGED <<row, object, reported, readable, unswept, emptied>>

\* Without a storageKey the answer is the content column.
ReadColumn(p, f) ==
    /\ pc[p] = "idle"
    /\ row[f] \in {"inline", "keyless"}
    /\ emptied' = IF row[f] = "keyless" THEN emptied \cup {f} ELSE emptied
    /\ UNCHANGED <<row, object, pc, file, key, reported, readable, unswept>>

GetObject(p) ==
    /\ pc[p] = "get"
    /\ file[p] \in object
    /\ End(p)
    /\ UNCHANGED <<row, object, reported, readable, unswept, emptied>>

-----------------------------------------------------------------------------
(* deleteFile, and the rows a closed account takes with it.                *)

FindForDelete(p, f) ==
    /\ row[f] \in Present
    /\ Start(p, f, "deleteRow")
    /\ key' = [key EXCEPT ![p] = (row[f] = "keyed")]
    /\ UNCHANGED <<row, object, reported, readable, unswept, emptied>>

\* Mutant: the object goes before the row.
DeleteObjectFirst(p) ==
    /\ pc[p] = "deleteRow"
    /\ row[file[p]] \in Present
    /\ object' = object \ {file[p]}
    /\ Goto(p, "deleteObject")
    /\ UNCHANGED <<row, file, key, reported, readable, unswept, emptied>>

\* Whether there is an object to remove is what the earlier read said.
DeleteRow(p) ==
    /\ pc[p] = "deleteRow"
    /\ row[file[p]] \in Present
    /\ row' = [row EXCEPT ![file[p]] = "deleted"]
    /\ IF key[p] THEN Goto(p, "deleteObject") /\ UNCHANGED <<file, key, unswept>>
                 ELSE End(p) /\ Unswept({file[p]})
    /\ UNCHANGED <<object, reported, readable, emptied>>

\* Mutant: the DeleteObjectCommand is built and never sent.
DeleteObjectUnsent(p) ==
    /\ pc[p] = "deleteObject"
    /\ End(p)
    /\ UNCHANGED <<row, object, reported, readable, unswept, emptied>>

DeleteObject(p) ==
    /\ pc[p] = "deleteObject"
    /\ object' = object \ {file[p]}
    /\ End(p)
    /\ UNCHANGED <<row, reported, readable, unswept, emptied>>

\* user.delete: onDelete: Cascade removes the row and knows nothing of S3.
Cascade(f) ==
    /\ row[f] \in Present
    /\ row' = [row EXCEPT ![f] = "deleted"]
    /\ Unswept({f})
    /\ UNCHANGED <<object, pc, file, key, reported, readable, emptied>>

-----------------------------------------------------------------------------
\* Any await may reject: the row is gone (P2025), no such object, S3 or the
\* database is down.  A store that did its work and whose answer is lost has
\* taken its step, and then the request fails at the next await.  The object's
\* deletion swallows the error and answers success: the stores are the same.
Fail(p) ==
    /\ pc[p] # "idle"
    /\ End(p)
    /\ Unswept(IF pc[p] = "deleteObject" THEN {file[p]} ELSE {})
    /\ UNCHANGED <<row, object, reported, readable, emptied>>

Restart ==
    /\ pc' = [p \in Slots |-> "idle"]
    /\ file' = [p \in Slots |-> None]
    /\ key' = [p \in Slots |-> FALSE]
    /\ Unswept({file[p] : p \in {q \in Slots : pc[q] = "deleteObject"}})
    /\ UNCHANGED <<row, object, reported, readable, emptied>>

Create(p) ==
    \/ \E f \in Files : CreateInline(p, f) \/ CreateOffloaded(p, f)
    \/ Upload(p) \/ SetKey(p) \/ Answer(p)
Download(p) ==
    \/ \E f \in Files : ReadKeyed(p, f) \/ ReadColumn(p, f)
    \/ GetObject(p)
Delete(p) ==
    \/ \E f \in Files : FindForDelete(p, f)
    \/ DeleteRow(p) \/ DeleteObject(p)

Next ==
    \/ \E p \in Slots : Create(p) \/ Download(p) \/ Delete(p) \/ Fail(p)
    \/ \E f \in Files : Cascade(f)
    \/ Restart

Spec == Init /\ [][Next]_vars

-----------------------------------------------------------------------------
TypeOK ==
    /\ row \in [Files -> RowStates]
    /\ object \subseteq Files
    /\ pc \in [Slots -> Pcs]
    /\ file \in [Slots -> Files \cup {None}]
    /\ key \in [Slots -> BOOLEAN]
    /\ reported \subseteq Files /\ readable \subseteq Files
    /\ unswept \subseteq Files /\ emptied \subseteq Files
    /\ \A p \in Slots : pc[p] = "idle" <=> file[p] = None

\* A download of f that starts now gets the whole body.
Whole(f) == row[f] = "inline" \/ (row[f] = "keyed" /\ f \in object)

(* A storageKey is never dangling: whatever fails or is deleted meanwhile, *)
(* a row that has a key has its object, and a file the client was told of  *)
(* can be read until it is deleted, late as the telling may be.            *)
ReadableFiles ==
    \A f \in Files :
        /\ row[f] = "keyed" => f \in object
        /\ f \in reported => Whole(f) \/ row[f] = "deleted"

(* Once readable, a file never goes back to an empty or missing body while *)
(* its row exists.                                                         *)
WholeStaysWhole ==
    [][\A f \in Files : Whole(f) => Whole(f)' \/ row'[f] = "deleted"]_vars

(* An object outlives its row only when a cause is on record: the deleter  *)
(* read the row before the key was set, the row went by a cascade, or the  *)
(* object's deletion failed or died with the process.  The two deletions   *)
(* and the upload leave nothing behind in any other order.                 *)
OrphansHaveACause ==
    \A f \in object : row[f] = "deleted" =>
        \/ f \in unswept
        \/ \E p \in Slots : pc[p] = "deleteObject" /\ file[p] = f

\* How FileStore looks from outside: the row and the object of a file as one
\* status, and the objects no request will delete any more.
Status(f) ==
    CASE row[f] = "none"    -> "none"
      [] row[f] = "deleted" -> IF f \in readable THEN "removed" ELSE "dropped"
      [] Whole(f)           -> "readable"
      [] OTHER              -> "pending"

Stranded ==
    {f \in object : /\ row[f] = "deleted"
                    /\ \A p \in Slots : pc[p] = "deleteObject" => file[p] # f}

Abs == INSTANCE FileLifecycle
       WITH status <- [f \in Files |-> Status(f)],
            told <- reported, stranded <- Stranded

(* The two stores with their requests, failures and restarts behave like   *)
(* one store: a body becomes readable in one step, the client is told only *)
(* of a file that did, whatever has become of it since, a deleted file     *)
(* never comes back, and a left-over object stays.                         *)
ImplementsLifecycle == Abs!Spec

(* The download route: "Streams the file body as an attachment, reading    *)
(* from S3 when the file was offloaded".  Before the key is set, and for   *)
(* good when the upload fails, it answers 200 with an empty body.          *)
DownloadIsTheBody == emptied = {}

-----------------------------------------------------------------------------
(* The inductive invariant of FileStoreProofs.                             *)

\* Between its row and its key a file has one creator, and no other request
\* has read a key of it.
Creating(p) == pc[p] \in {"upload", "setKey"}

CreatorInv ==
    \A p \in Slots : Creating(p) =>
        /\ row[file[p]] \in {"keyless", "deleted"}
        /\ row[file[p]] = "deleted" => file[p] \in unswept
        /\ pc[p] = "setKey" => file[p] \in object
        /\ \A q \in Slots \ {p} : Creating(q) \/ key[q] => file[q] # file[p]

\* A key that was read belongs to a row that had it.
KeyInv ==
    \A p \in Slots :
        /\ key[p] => pc[p] # "idle" /\ row[file[p]] \in {"keyed", "deleted"}
        /\ pc[p] = "deleteObject" => key[p] /\ row[file[p]] = "deleted"

RowInv ==
    \A f \in Files :
        /\ row[f] \in {"none", "inline"} => f \notin object /\ f \notin unswept
        /\ row[f] \in {"inline", "keyed"} => f \in readable
        /\ row[f] \in {"none", "keyless"} => f \notin readable

\* What a client is about to be told, or was told, could be read.
AnswerInv ==
    /\ reported \subseteq readable
    /\ \A p \in Slots : pc[p] = "answer" => file[p] \in readable
    /\ \A f \in readable : Whole(f) \/ row[f] = "deleted"

IInv ==
    /\ TypeOK /\ CreatorInv /\ KeyInv /\ RowInv /\ AnswerInv
    /\ ReadableFiles /\ OrphansHaveACause
=============================================================================
