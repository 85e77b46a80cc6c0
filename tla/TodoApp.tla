------------------------------- MODULE TodoApp -------------------------------
(***************************************************************************)
(* The HTTP handlers of app/domain/todoapp composed with the orchestrator. *)
(* route.go binds only three routes: POST /todo (CreateTodoItem), POST     *)
(* /upload (UploadFile) and GET /download/{file_id} (DownloadFile), so in  *)
(* the deployed service Update, Delete and the queries are unreachable.    *)
(* A handler's checks and its first Business call form one step; the rest *)
(* of a Create runs as the TodoBus steps CreateInsert and CreateSend.      *)
(***************************************************************************)
EXTENDS TodoBus

CONSTANTS
    NoDesc      \* a request body without a description

VARIABLE
    attached    \* [id, fid]: Creates through POST /todo and the fileId sent

appVars == <<vars, attached>>

\* Request bodies of POST /upload: size class and leading bytes.  "small"
\* is under 512 bytes, "medium" up to 5 MB, "large" up to 10 MB, "huge"
\* beyond the MaxBytesReader limit.
Sizes == {"empty", "small", "medium", "large", "huge"}
Kinds == {"text", "png", "other"}
Bodies == (Sizes \X Kinds) \ {<<"empty", "png">>}

\* http.DetectContentType(fileData[:512]).  io.ReadAll leaves cap >= 512,
\* so a shorter body is sniffed together with the zero bytes after it: a
\* PNG signature still matches, but text followed by NULs is binary.
Sniff(size, kind) ==
    CASE kind = "png"                                  -> "image/png"
      [] kind = "text" /\ size \in {"medium", "large"} -> "text/plain"
      [] OTHER                                         -> "application/octet-stream"

AllowedFileTypes == {"image/jpeg", "image/png", "text/plain"}

DateInputs == {"rfc3339", "missing", "malformed"}

\* web.Decode runs NewTodoItem.Validate: description and dueDate required.
Decoded(d, date) == d # NoDesc /\ date # "missing"

\* parseQueryParams: the values the user_id query parameter can carry.
UserIdParams == Keys \cup {NoFile}

AppTypeOK ==
    /\ TypeOK
    /\ attached \subseteq [id : Ids, fid : Names]

AppInit == Init /\ attached = {}

Reject(r, v) == Return(r, v) /\ UNCHANGED <<storeVars, histVars>>

-----------------------------------------------------------------------------
\* CreateTodoItem: decode and validate (description and dueDate required),
\* parse the date (a parse error is answered as Internal), then
\* Create(description, dueDate, nil, app.FileID).
HandleCreateTodoItem(r) ==
    /\ pc[r] = "idle"
    /\ \E d \in Descs \cup {NoDesc}, date \in DateInputs, f \in Names :
        CASE ~Decoded(d, date) ->
                Reject(r, "invalid") /\ UNCHANGED attached
          [] date = "malformed" ->
                Reject(r, "err") /\ UNCHANGED attached
          [] OTHER ->
                /\ CreateCall(r, d, f, NilData)
                /\ attached' = IF pc'[r] = "c_insert"
                                 THEN attached \cup {[id |-> item'[r].id, fid |-> f]}
                                 ELSE attached

\* UploadFile: the filename query parameter, the body read under a 10 MB
\* MaxBytesReader, the 5 MB limit, the content-type check, then
\* Business.UploadFile with the (non-nil) body.
HandleUploadFile(r) ==
    /\ pc[r] = "idle"
    /\ \E n \in Names, b \in Bodies :
        CASE n = NoName                        -> Reject(r, "invalid")
          [] b[1] = "huge"                     -> Reject(r, "err")
          [] b[1] = "large"                    -> Reject(r, "invalid")
          [] Sniff(b[1], b[2]) \notin AllowedFileTypes -> Reject(r, "invalid")
          [] OTHER -> \E data \in Datas \ {NilData} : UploadFileCall(r, n, data)
    /\ UNCHANGED attached

\* DownloadFile: parseQueryParams reads the user_id query parameter, and
\* that, not the {file_id} path parameter, is passed to GetFile.
HandleDownloadFile(r) ==
    /\ \E userId \in UserIdParams : GetFileCall(r, userId)
    /\ UNCHANGED attached

AppNext ==
    \E r \in Reqs :
        \/ HandleCreateTodoItem(r) \/ HandleUploadFile(r) \/ HandleDownloadFile(r)
        \/ (CreateInsert(r) \/ CreateSend(r)) /\ UNCHANGED attached

AppSpec == AppInit /\ [][AppNext]_appVars

-----------------------------------------------------------------------------
\* A todo created through POST /todo with a file id that POST /upload
\* returned stores that file id, so the item refers to the uploaded file
\* (spec.md 3: fileId references the item's blob; the API test sends the
\* fileId in the body and expects it back).
CreatedItemCarriesUploadedFileId ==
    \A a \in attached :
        a.fid \in uploaded /\ db[a.id] # NoRow => db[a.id].fileId = a.fid

=============================================================================
