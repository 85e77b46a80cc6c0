------------------------------- MODULE TodoBus -------------------------------
(***************************************************************************)
(* The TodoItem orchestrator (business/domain/todobus/todobus.go) composed *)
(* with the state of the three systems it drives: the todo_items table     *)
(* behind itemdb.Store, the S3 bucket behind s3.Client and the SQS queue   *)
(* behind sqs.Client.  Each request handler is a process in Reqs; every    *)
(* call to an external system is one atomic step, so the calls of         *)
(* different requests interleave.  A call may fail; with LateFailure a     *)
(* write may also take effect and still report an error (the context is   *)
(* cancelled or the connection drops after the server applied it).         *)
(***************************************************************************)
EXTENDS FiniteSets

CONSTANTS
    Reqs,         \* concurrent request handlers
    Ids,          \* identifiers uuid.New may return
    Descs,        \* description/due-date pairs, as model values
    FileNames,    \* non-empty file names a caller may pass
    Datas,        \* file contents a caller may pass; NilData is a nil slice
    Location(_),  \* the URL s3manager reports for an object key
    NoName,       \* the empty file name ""
    NilData,      \* a nil []byte
    NoFile,       \* the empty file id ""
    NoRow,        \* no row in todo_items under an id
    NoObject,     \* no object in the bucket under a key
    LateFailure   \* may a write take effect and still report an error?

ASSUME NilData \in Datas /\ NoName \notin FileNames /\ LateFailure \in BOOLEAN

VARIABLES
    db,        \* todo_items: id -> row, or NoRow
    bucket,    \* the S3 bucket: key -> content, or NoObject
    queue,     \* the SQS queue: set of messages (TodoItem values) sent
    pc,        \* pc[r]: where request r is in its handler
    item,      \* item[r]: the TodoItem local of r's handler, or NoRow
    resp,      \* resp[r]: what r's last call returned to its caller
    usedIds,   \* identifiers uuid.New has returned (history)
    uploaded,  \* file ids an S3 upload has returned (history)
    inserted,  \* TodoItems an INSERT has stored (history)
    fileOf     \* fileOf[id]: the name and bytes id's Create uploaded (history)

storeVars == <<db, bucket, queue>>
histVars  == <<usedIds, uploaded, inserted, fileOf>>
vars == <<db, bucket, queue, pc, item, resp, usedIds, uploaded, inserted,
          fileOf>>

Names   == FileNames \cup {NoName}
Keys    == FileNames \cup {Location(n) : n \in FileNames}
FileIds == {Location(n) : n \in FileNames} \cup {NoFile}

\* todobus.TodoItem: ID, Description with DueDate, FileID.
TodoItem == [id : Ids, desc : Descs, fileId : FileIds]

\* itemdb.dbTodoItem: the columns a property can tell apart.
DbRow == [desc : Descs, fileId : FileIds]

Pcs == {"idle", "c_insert", "c_send", "u_write", "d_delete", "d_file"}
Resps == {"none", "ok", "err", "notfound", "invalid"}

\* Outcomes of one call to an external system.
WriteOutcomes == IF LateFailure THEN {"ok", "fail", "late"} ELSE {"ok", "fail"}
ReadOutcomes  == {"ok", "fail"}
Applied(o) == o \in {"ok", "late"}

TypeOK ==
    /\ db \in [Ids -> DbRow \cup {NoRow}]
    /\ bucket \in [Keys -> Datas \cup {NoObject}]
    /\ queue \subseteq TodoItem
    /\ pc \in [Reqs -> Pcs]
    /\ item \in [Reqs -> TodoItem \cup {NoRow}]
    /\ resp \in [Reqs -> Resps]
    /\ usedIds \subseteq Ids
    /\ uploaded \subseteq FileIds
    /\ inserted \subseteq TodoItem
    /\ fileOf \in [Ids -> [name : Names, data : Datas]]

Init ==
    /\ db = [id \in Ids |-> NoRow]
    /\ bucket = [k \in Keys |-> NoObject]
    /\ queue = {}
    /\ pc = [r \in Reqs |-> "idle"]
    /\ item = [r \in Reqs |-> NoRow]
    /\ resp = [r \in Reqs |-> "none"]
    /\ usedIds = {}
    /\ uploaded = {}
    /\ inserted = {}
    /\ fileOf = [id \in Ids |-> [name |-> NoName, data |-> NilData]]

\* Ids whose Create was given no file bytes.
noFile == {id \in usedIds : fileOf[id].data = NilData}

-----------------------------------------------------------------------------
(* The external systems, as the three clients drive them.  Each operator  *)
(* is the effect of one call with outcome o on its system's state.        *)

\* s3.Client.Upload: PutObject of data under Key = fileName.  An empty key
\* fails the SDK's parameter validation before anything is sent.
S3Upload(n, data, o) ==
    IF n # NoName /\ Applied(o) THEN [bucket EXCEPT ![n] = data] ELSE bucket

\* Mutant: an upload under the empty key is taken as a success.
UploadOKNoKeyCheck(n, o) == o = "ok"

\* The upload returned no error; the file id is then Location(n).
UploadOK(n, o) == n # NoName /\ o = "ok"

\* s3.Client.Download: GetObject under Key = fileID.
DownloadOK(fid, o) == fid # NoFile /\ o = "ok" /\ bucket[fid] # NoObject

\* s3.Client.Delete: DeleteObject under Key = fileID; a missing key is not
\* an error, an empty one fails validation.
S3Delete(fid, o) ==
    IF fid # NoFile /\ Applied(o) THEN [bucket EXCEPT ![fid] = NoObject]
                                   ELSE bucket

\* toDBTodoItem: the row's columns (timestamps are not modelled).
Row(it) == [desc |-> it.desc, fileId |-> it.fileId]

\* toBusTodoItem: the row stored under id as a TodoItem.
ToBusTodoItem(id) == [id |-> id, desc |-> db[id].desc, fileId |-> db[id].fileId]

\* itemdb.Store.Create: INSERT INTO todo_items.
DbInsert(it, o) == IF Applied(o) THEN [db EXCEPT ![it.id] = Row(it)] ELSE db

\* Mutant: the UPDATE is an upsert, so it recreates a deleted row.
DbUpdateUpsert(it, o) == DbInsert(it, o)

\* itemdb.Store.Update: UPDATE ... WHERE item_id; matching no row is not an
\* error.
DbUpdate(it, o) ==
    IF Applied(o) /\ db[it.id] # NoRow THEN [db EXCEPT ![it.id] = Row(it)]
                                       ELSE db

\* itemdb.Store.Delete: DELETE ... WHERE item_id; matching no row is not an
\* error.
DbDelete(id, o) == IF Applied(o) THEN [db EXCEPT ![id] = NoRow] ELSE db

\* itemdb.Store.QueryByID: what the SELECT ... WHERE item_id returns, with
\* sqldb's not-found translated into todobus.ErrNotFound.
DbQueryByID(id, o) ==
    CASE o = "fail"     -> "err"
      [] db[id] = NoRow -> "notfound"
      [] OTHER          -> "ok"

\* itemdb.Store.Query: SELECT of every row, each converted by
\* toBusTodoItem; the rows themselves are read by no property.
DbQuery(o) == IF o = "ok" THEN "ok" ELSE "err"

\* sqs.Client.SendMessage: the JSON of the item (marshalling a TodoItem
\* cannot fail).
SqsSend(it, o) == IF Applied(o) THEN queue \cup {it} ELSE queue

Return(r, v) ==
    /\ pc' = [pc EXCEPT ![r] = "idle"]
    /\ item' = [item EXCEPT ![r] = NoRow]
    /\ resp' = [resp EXCEPT ![r] = v]

Goto(r, l, it) ==
    /\ pc' = [pc EXCEPT ![r] = l]
    /\ item' = [item EXCEPT ![r] = it]
    /\ UNCHANGED resp

-----------------------------------------------------------------------------
(* Business.Create: uuid.New, upload, INSERT, SendMessage.                 *)

\* Mutant: the Upload error is ignored and Create goes on with FileID "".
CreateCallIgnoringError(r, d, n, data) ==
    /\ pc[r] = "idle"
    /\ \E id \in Ids \ usedIds, o \in WriteOutcomes :
        /\ usedIds' = usedIds \cup {id}
        /\ fileOf' = [fileOf EXCEPT ![id] = [name |-> n, data |-> data]]
        /\ bucket' = S3Upload(n, data, o)
        /\ Goto(r, "c_insert",
                [id |-> id, desc |-> d,
                 fileId |-> IF UploadOK(n, o) THEN Location(n) ELSE NoFile])
        /\ uploaded' = IF UploadOK(n, o) THEN uploaded \cup {Location(n)}
                                        ELSE uploaded
    /\ UNCHANGED <<db, queue, inserted>>

\* Create(description, dueDate, fileData, fileName) up to the upload.
CreateCall(r, d, n, data) ==
    /\ pc[r] = "idle"
    /\ \E id \in Ids \ usedIds, o \in WriteOutcomes :
        /\ usedIds' = usedIds \cup {id}
        /\ fileOf' = [fileOf EXCEPT ![id] = [name |-> n, data |-> data]]
        /\ bucket' = S3Upload(n, data, o)
        /\ IF UploadOK(n, o)
             THEN /\ Goto(r, "c_insert",
                          [id |-> id, desc |-> d, fileId |-> Location(n)])
                  /\ uploaded' = uploaded \cup {Location(n)}
             ELSE /\ Return(r, "err")
                  /\ UNCHANGED uploaded
    /\ UNCHANGED <<db, queue, inserted>>

CreateUpload(r) ==
    \E d \in Descs, n \in Names, data \in Datas : CreateCall(r, d, n, data)

\* Mutant: an INSERT error is only logged, as if the step were best-effort.
CreateInsertBestEffort(r) ==
    /\ pc[r] = "c_insert"
    /\ \E o \in WriteOutcomes :
        /\ db' = DbInsert(item[r], o)
        /\ inserted' = IF Applied(o) THEN inserted \cup {item[r]} ELSE inserted
        /\ Goto(r, "c_send", item[r])
    /\ UNCHANGED <<bucket, queue, usedIds, uploaded, fileOf>>

CreateInsert(r) ==
    /\ pc[r] = "c_insert"
    /\ \E o \in WriteOutcomes :
        /\ db' = DbInsert(item[r], o)
        /\ inserted' = IF Applied(o) THEN inserted \cup {item[r]} ELSE inserted
        /\ IF o = "ok" THEN Goto(r, "c_send", item[r]) ELSE Return(r, "err")
    /\ UNCHANGED <<bucket, queue, usedIds, uploaded, fileOf>>

\* Mutant: a SendMessage error fails the Create.
CreateSendMandatory(r) ==
    /\ pc[r] = "c_send"
    /\ \E o \in WriteOutcomes :
        /\ queue' = SqsSend(item[r], o)
        /\ Return(r, IF o = "ok" THEN "ok" ELSE "err")
    /\ UNCHANGED <<db, bucket, histVars>>

\* A failed SendMessage is only logged.
CreateSend(r) ==
    /\ pc[r] = "c_send"
    /\ \E o \in WriteOutcomes :
        /\ queue' = SqsSend(item[r], o)
        /\ Return(r, "ok")
    /\ UNCHANGED <<db, bucket, histVars>>

-----------------------------------------------------------------------------
(* Business.Update: QueryByID, set both fields, UPDATE ... WHERE item_id.  *)

UpdateRead(r) ==
    /\ pc[r] = "idle"
    /\ \E id \in Ids, d \in Descs, o \in ReadOutcomes :
        IF DbQueryByID(id, o) = "ok"
          THEN Goto(r, "u_write",
                    [ToBusTodoItem(id) EXCEPT !.desc = d])
          ELSE Return(r, DbQueryByID(id, o))
    /\ UNCHANGED <<storeVars, histVars>>

UpdateWrite(r) ==
    /\ pc[r] = "u_write"
    /\ \E o \in WriteOutcomes :
        /\ db' = DbUpdate(item[r], o)
        /\ Return(r, IF o = "ok" THEN "ok" ELSE "err")
    /\ UNCHANGED <<bucket, queue, histVars>>

-----------------------------------------------------------------------------
(* Business.Delete: QueryByID, DELETE, then S3 delete of the file id.      *)

DeleteRead(r) ==
    /\ pc[r] = "idle"
    /\ \E id \in Ids, o \in ReadOutcomes :
        IF DbQueryByID(id, o) = "ok"
          THEN Goto(r, "d_delete",
                    ToBusTodoItem(id))
          ELSE Return(r, DbQueryByID(id, o))
    /\ UNCHANGED <<storeVars, histVars>>

\* A DELETE that commits late returns an error before the blob is removed.
DeleteRow(r) ==
    /\ pc[r] = "d_delete"
    /\ \E o \in WriteOutcomes :
        /\ db' = DbDelete(item[r].id, o)
        /\ IF o = "ok" THEN Goto(r, "d_file", item[r]) ELSE Return(r, "err")
    /\ UNCHANGED <<bucket, queue, usedIds, uploaded, inserted, fileOf>>

\* A failed S3 delete is only logged.
DeleteFile(r) ==
    /\ pc[r] = "d_file"
    /\ \E o \in WriteOutcomes :
        /\ bucket' = S3Delete(item[r].fileId, o)
        /\ Return(r, "ok")
    /\ UNCHANGED <<db, queue, usedIds, uploaded, inserted, fileOf>>

-----------------------------------------------------------------------------
(* Business.UploadFile: validate, then upload.                             *)

UploadFileCall(r, n, data) ==
    /\ pc[r] = "idle"
    /\ IF n = NoName \/ data = NilData
         THEN Return(r, "err") /\ UNCHANGED <<bucket, uploaded>>
         ELSE \E o \in WriteOutcomes :
                /\ bucket' = S3Upload(n, data, o)
                /\ uploaded' = IF UploadOK(n, o)
                                 THEN uploaded \cup {Location(n)} ELSE uploaded
                /\ Return(r, IF UploadOK(n, o) THEN "ok" ELSE "err")
    /\ UNCHANGED <<db, queue, usedIds, inserted, fileOf>>

UploadFile(r) == \E n \in Names, data \in Datas : UploadFileCall(r, n, data)

-----------------------------------------------------------------------------
(* The read-only calls: one store call each, only the response changes.    *)

\* Business.QueryByID: the store's NotFound becomes the caller's NotFound.
QueryByID(r) ==
    /\ pc[r] = "idle"
    /\ \E id \in Ids, o \in ReadOutcomes :
        Return(r, DbQueryByID(id, o))
    /\ UNCHANGED <<storeVars, histVars>>

\* Business.Query: every row, in whatever order the store returns them.
Query(r) ==
    /\ pc[r] = "idle"
    /\ \E o \in ReadOutcomes : Return(r, DbQuery(o))
    /\ UNCHANGED <<storeVars, histVars>>

\* Business.GetFile: an empty file id is refused before the download.
GetFileCall(r, fid) ==
    /\ pc[r] = "idle"
    /\ \E o \in ReadOutcomes :
        Return(r, IF DownloadOK(fid, o) THEN "ok" ELSE "err")
    /\ UNCHANGED <<storeVars, histVars>>

GetFile(r) == \E fid \in Keys \cup {NoFile} : GetFileCall(r, fid)

-----------------------------------------------------------------------------
Next ==
    \E r \in Reqs :
        \/ CreateUpload(r) \/ CreateInsert(r) \/ CreateSend(r)
        \/ UpdateRead(r) \/ UpdateWrite(r)
        \/ DeleteRead(r) \/ DeleteRow(r) \/ DeleteFile(r)
        \/ UploadFile(r) \/ QueryByID(r) \/ Query(r) \/ GetFile(r)

Spec == Init /\ [][Next]_vars

-----------------------------------------------------------------------------
(* Properties.                                                             *)

\* Every stored row names a file id that an S3 upload actually returned:
\* Create must not reach the INSERT after a failed upload (todobus.go
\* checks the Upload error before setting item.FileID and storing).
RecordsReferenceUploads ==
    \A id \in Ids : db[id] # NoRow => db[id].fileId \in uploaded

\* Every SQS message describes an item exactly as some INSERT stored it:
\* Create only sends after a successful INSERT, and sends the item it
\* inserted, whatever Update and Delete requests do meanwhile.
NotificationsDescribeInsertedItems == queue \subseteq inserted

\* A Create that returns an error has left no row behind (spec.md 3: a
\* record exists iff its creation fully completed; 8: a failed Create
\* persists nothing).  The SQS step must not fail the operation.
FailedCreateLeavesNoRecord ==
    [][\A r \in Reqs :
         (pc[r] \in {"c_insert", "c_send"} /\ pc'[r] = "idle"
            /\ resp'[r] = "err")
           => db'[item[r].id] = NoRow]_vars

\* The todo_items table, seen on its own, behaves like the atomic store of
\* TodoItems: rows are inserted under fresh ids, Update changes only the
\* description (never the file id, never a deleted row), Delete removes.
Abs == INSTANCE TodoItems WITH
           items <- db, retired <- {it.id : it \in inserted}, NoItem <- NoRow
AbstractStore == Abs!Spec

\* A Delete that reports success has removed an existing row (spec.md 8:
\* a Delete of a missing id fails with NotFound).  Delete checks existence
\* with QueryByID and then runs a DELETE whose rows-affected is never read
\* (todobus.go:94-101), so of two Deletes of one item, one must fail.  (An
\* Update whose row a Delete removed between its read and its UPDATE is
\* not covered: it behaves as the Update ordered before the Delete.)
DeletesReportOnlyExistingRows ==
    [][\A r \in Reqs :
         (pc[r] = "d_delete" /\ pc'[r] = "d_file") => db[item[r].id] # NoRow]_vars

\* A Create given no file bytes stores an item with an empty file id
\* (spec.md 4.1 step 2 and 8: fileId is non-empty iff bytes were given).
NoFileMeansEmptyFileId ==
    \A id \in noFile : db[id] = NoRow \/ db[id].fileId = NoFile

\* The file id of every stored item names an object in the bucket, so
\* GetFile(item.FileID) returns the attached bytes (spec.md 3 and 8).
AttachedFileRetrievable ==
    \A id \in Ids : db[id] # NoRow /\ db[id].fileId # NoFile
                      => bucket[db[id].fileId] # NoObject

\* The object an item's Create uploaded still holds the bytes uploaded for
\* it while the item exists (spec.md 2 and 3: blobs are keyed by a
\* store-assigned file id).  s3.Client.Upload keys the object by the
\* caller's file name, so a later Create or UploadFile with the same name
\* replaces it (s3.go:36-40).
ItemFileIntact ==
    \A id \in Ids : db[id] # NoRow /\ db[id].fileId # NoFile
                      => bucket[fileOf[id].name] = fileOf[id].data
=============================================================================
