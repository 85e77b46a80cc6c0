# TLA+ models of the TodoItem orchestration layer

This directory holds TLA+ models of the TodoItem service in `src/` (see
`../spec.md`). They are checked with TLC. `PROJECT.json` lists the components,
the runs, the mutants, the map from every definition to the source lines it
models, the findings and the hazards.

## 1. Inventory

### Components and their state

| Component | Source | State | Operations |
|---|---|---|---|
| Orchestrator `todobus.Business` | `business/domain/todobus/todobus.go` | none of its own (one shared value, one goroutine per request) | Create, Update, Delete, QueryByID, Query, UploadFile, GetFile |
| Record Store `itemdb.Store` | `.../stores/itemdb/itemdb.go`, `model.go` | the `todo_items` table (id, description, due date, file id, timestamps) | Create (INSERT), Update (UPDATE ... WHERE item_id), Delete (DELETE ... WHERE item_id), QueryByID (NotFound translated), Query, NewWithTx |
| Object Store `s3.Client` | `.../s3/s3.go` | the S3 bucket: key → object | Upload (key = file name, returns `result.Location`), Download (key = file id), Delete (key = file id) |
| Notification Queue `sqs.Client` | `.../sqs/sqs.go` | the SQS queue | SendMessage (JSON of the item), ReceiveMessages, DeleteMessage (no caller in the repo) |
| Transport adapter `todoapp` | `app/domain/todoapp/*.go` | none | CreateTodoItem, UploadFile, DownloadFile |
| Middleware, routes, build wiring | `app/sdk/mid`, `*/route.go`, `api/services/*/build` | none | plumbing |

### How the components interact

The HTTP handlers call `Business` methods. Each method makes sequential
synchronous calls to the three systems:

- `Create`: `uuid.New` → S3 `Upload` → `INSERT` → SQS `SendMessage`. Upload
  and INSERT errors abort the Create. A SendMessage error is only logged.
- `Update`: `QueryByID` → set both fields locally → `UPDATE` (writes back the
  file id it read).
- `Delete`: `QueryByID` → `DELETE` → S3 `Delete` of the item's file id. An S3
  error is only logged.
- `UploadFile` and `GetFile` validate their input, then pass through to S3.

There are no locks and no transactions. Concurrency comes from many requests
running these sequences at once against shared external state. Consistency
between the three systems is only what the order of the calls gives.

### What is hard

- **Interleavings of requests**: Update and Delete read the row and then write
  it in a second statement. Neither checks rows-affected.
- **Partial failure**: each of the up to three calls can fail independently.
  Some failures are fatal (Upload, INSERT, UPDATE, DELETE) and some are
  best-effort (SendMessage, S3 Delete).
- **Ambiguous failure**: a write can take effect and still return an error
  (context cancelled, connection dropped after commit). The code treats every
  error as "nothing happened".
- **Identifier semantics across systems**: which string names an S3 object (the
  file name, the location URL, the file id).

### Correctness properties per component

- Orchestrator: a row refers only to an uploaded file. Notifications describe
  inserted items. A failed Create leaves no row. A Delete reports success
  only when it removed a row. A Create without a file has no file id. A
  stored file id is retrievable.
- Record store: refines the atomic TodoItem store (fresh ids, Update never
  changes the file id or recreates a deleted row, deletes are final).
- Object store: an item's file id names the object uploaded for it. Objects of
  different items are not shared.
- Queue: a message is sent only for an item that was durably stored. A
  message a consumer received can be deleted.

## 2. Modules

| Module | Models |
|---|---|
| `TodoItems` | The abstract specification: the atomic store of TodoItems (spec.md 3, 4). `items[id]` is a row or `NoItem`, and `retired` holds ids ever used. Create takes a fresh id, Update changes only the description, and Delete removes the item. |
| `TodoBus` | The orchestrator composed with the state of the table (`db`), the bucket (`bucket`) and the queue (`queue`). It has one process per request in `Reqs`. `pc[r]` is the request's position in its handler, and `item[r]` is the handler's local `item`. `resp[r]` is what the request returned. |
| `MCTodoBus` | The TLC instance: model values, `MCLocation` (the URL s3manager returns for a key: every file name uploads to location `u1`), and symmetry over two or three requests and the ids. |
| `TodoApp` | EXTENDS `TodoBus` with the three HTTP handlers that `route.go` binds: `HandleCreateTodoItem`, `HandleUploadFile` and `HandleDownloadFile`. It adds the history variable `attached`: the id and fileId of each POST /todo that reached Create. Its `AppNext` is what the deployed service can do: the handlers plus the remaining Create steps. Update, Delete and the queries have no route. |
| `MCTodoApp` | The TLC instance of `TodoApp`. The file names a client can send are `n1` and `u1`, where `u1` is the location `/upload` returns for `n1`. POST /todo uses the file id as a file name, so `Location(u1) = u2`. |
| `SqsQueue` | The SQS queue as `sqs.Client` drives it. `status[b]` is a message's state in SQS (`unsent`, `visible`, `inflight`, `deleted`), `delivered` holds the bodies ReceiveMessages has returned, and `known` holds the receipt handles its caller holds. Actions: `SendMessage`, `ReceiveMessages` (one `ReceiveBatch(S)` of up to `MaxMessages` visible messages), `DeleteMessage(h)`, and SQS's `VisibilityTimeout`. `Unparsable` is the set of bodies that are not JSON (sent by another producer): a batch holding one makes ReceiveMessages return an error and hand over none of the batch, which stays in flight (`sqs.go:60-61`). |
| `MCSqsQueue` | The TLC instance of `SqsQueue`: four messages, one of them unparsable, the client's batch size of 10. |

### How TodoBus corresponds to the code

Each action is one call to an external system. Local computation done before
the call is folded into the action:

| Action | Code |
|---|---|
| `CreateUpload` | `todobus.go:43-54`: `uuid.New` gives a fresh id from `Ids \ usedIds`, then `s3Client.Upload`. On error, the Create returns. |
| `CreateInsert` | `todobus.go:56-59` with `itemdb.Store.Create` |
| `CreateSend` | `todobus.go:61-66`: the outcome is ignored and Create returns the item |
| `UpdateRead`, `UpdateWrite` | `todobus.go:74-80` and `82-86`. The UPDATE is a no-op on a missing row. |
| `DeleteRead`, `DeleteRow`, `DeleteFile` | `todobus.go:94-97`, `99-101`, `103-108` |
| `UploadFile`, `GetFile`, `QueryByID`, `Query` | `todobus.go:137-170`, `111-135` |
| `DbQueryByID`, `DbQuery` | `itemdb.Store.QueryByID` (not-found translated to `ErrNotFound`) and `Store.Query`, used by the reads of Update, Delete, QueryByID and Query |
| `S3Upload`, `UploadOK`, `S3Delete` | `s3.go` Upload and Delete. The key is the file name on upload and the file id on delete and download. An empty key fails. |

TodoApp folds each handler's checks into the step of its first Business
call. The checks are `Decoded` (NewTodoItem.Validate and a present dueDate),
the date parse (`time.Parse`, malformed or RFC3339), the filename parameter, MaxBytesReader and the 5 MB limit
over body-size classes, and `Sniff` (`DetectContentType(fileData[:512])`).
`HandleCreateTodoItem` calls `CreateCall(r, d, f, NilData)` with the client's
fileId `f` as the file name, exactly as `todoapp.go:39` does.
`HandleDownloadFile` passes the `user_id` query parameter to GetFile
(`filter.go`), not the `{file_id}` path parameter.

A write's outcome is `ok`, `fail` (no effect), or `late` (the effect happened
but an error was returned, as when the context is cancelled after the commit).
`late` is an assumption about the environment, not code, and is allowed only
when `LateFailure` is TRUE. Reads succeed or fail. History variables
(`usedIds`, `uploaded`, `inserted`, `fileOf`: the name and bytes each id's
Create uploaded) only record what happened, for the properties to use.

Data is abstracted. A description and due date pair is a model value in
`Descs`. File contents are `b1` or `NilData`, and a file name is `n1` or
`NoName` (""). The creation and update timestamps are not modelled: no
property reads them.

## 3. Runs

The `MCTodoBus` runs use 2 requests, 2 ids, 2 descriptions, 1 file name
(plus ""), and 2 contents (plus nil), with symmetry over requests and ids. Two
requests give every pairwise interleaving the handlers allow. Two ids let one
id be live while the other is deleted or never created. Every operation
reaches its NotFound, failure and success branches. The spec is finite
because `uuid.New` draws only from the fresh `Ids`, and the descriptions and
contents are finite. `todobus_safety` explores 365,438 distinct states in
about 18 s. `three_request_refinement` adds a third request and keeps only
nil contents and no late failures, so that three-way interleavings (two
writers and a Delete on one row) fit in about 64 s (1,017,338 distinct
states); with two contents it takes about 8 minutes.

| Run | cfg | Expect | Shows |
|---|---|---|---|
| `todobus_safety` | `MCTodoBus.cfg` | pass | With failing and late-failing calls, every row's file id came from a successful upload (`RecordsReferenceUploads`) and every SQS message is an item as it was inserted (`NotificationsDescribeInsertedItems`). The table refines `TodoItems` (`AbstractStore`): Update never resurrects a deleted row or changes its file id, and ids are never reused. |
| `three_request_refinement` | `MCTodoBus_three.cfg` | pass | `AbstractStore` also holds with three concurrent requests, where two Updates and a Delete of one row interleave. |
| `create_late_commit` | `MCTodoBus_late_commit.cfg` | violation | With late failures, an INSERT that commits but reports an error makes Create fail while its row stays, and no notification is sent (`FailedCreateLeavesNoRecord`). |
| `double_delete` | `MCTodoBus_double_delete.cfg` | violation | Two Deletes of one item both read the row; the first removes it, and the second's DELETE matches nothing and still reports success (`DeletesReportOnlyExistingRows`). No order of the two Deletes explains both successes. |
| `create_without_file` | `MCTodoBus_no_file.cfg` | violation | Create with nil bytes uploads an empty object and stores a non-empty file id (spec.md says the upload is skipped). |
| `http_create_with_uploaded_file` | `MCTodoApp_attach.cfg` | violation | POST /todo with a fileId that an upload returned (`u1`) stores `u2`. The handler re-uploads nil data under `u1` as the key and keeps the new location. An item never refers to the client's file. |
| `file_shared_name` | `MCTodoBus_shared_name.cfg` | violation | Create A uploads `b1` under `n1` and stores its row. Create B then uploads nil data under the same `n1`, so A's file now holds B's bytes (`ItemFileIntact`). |
| `sqs_receipt_handles_dropped` | `MCSqsQueue_delete.cfg` | violation | Even a consumer that always deletes what it holds never deletes a message. ReceiveMessages returns bodies without their `ReceiptHandle`, so the message cycles between visible and in-flight forever (`DeliveredEventuallyDeleted`). |
| `file_id_is_location` | `MCTodoBus_file_location.cfg` | violation | The stored file id is the S3 location URL, not the key the object was stored under, so the attached file can never be fetched or deleted by it. |

Each property of a passing run has a mutant in `TodoBus`: a plausible bug
written as an alternative definition, which TLC must catch. The mutants are
an upload under an empty key treated as a success (TypeOK), an ignored Upload
error (RecordsReferenceUploads), an INSERT error treated as best-effort
(NotificationsDescribeInsertedItems), and UPDATE as upsert (AbstractStore,
in both passing runs).

Two defects of the handlers are modelled but have no run, because a single
request shows them and a unit test catches them directly:

- DownloadFile reads `user_id` rather than the path's `file_id`, so a request
  without that query parameter always fails.
- A text upload under 512 bytes is sniffed together with the zero bytes of
  `io.ReadAll`'s spare capacity, so it is classified as binary and rejected.

### Fairness

`TodoBus` and `TodoApp` check safety only. Every handler is a straight line
of calls, with no loop, lock or wait. So "every started request returns"
holds by the shape of the handlers and would say nothing about the code.
Deadlock checking is on: an idle request can always start a new operation.

`SqsQueue` is checked under `LiveSpec`, only in the violation run. Its
fairness is an assumption about the environment, not about the code: the
repository has no consumer. It describes the most generous consumer and
SQS, to show that even they never delete a message:

- **Strong fairness, per message, of a receive whose batch contains that
  message.** SQS eventually returns every message that is visible again and
  again.
- **Weak fairness of each visibility timeout.**
- **Weak fairness of DeleteMessage for every handle the consumer holds.**
  This is the consumer that spec.md 4.4 has in mind.

## 4. Not modelled, and why

- Crash of the server process: the orchestrator keeps no state, so a crash
  between two calls has the same effect on the three systems as the next call
  failing, and that is modelled. Only the lost response differs.
- `itemdb.NewWithTx`: no TodoItem operation runs in a transaction.
- A queue consumer: nothing in the repository consumes the queue, so the
  orchestrator is not composed with `SqsQueue`. `SqsQueue` models only the
  client calls such a consumer would make.
- A contract that the bucket has no orphans: spec.md 4.1 and 9 accept
  orphaned objects (an INSERT failing after the upload) and leaked objects
  (the S3 delete failing after the DELETE). With the real Location file ids
  every Delete leaks its object anyway, which is the `file_id_is_location`
  finding, so a property on orphans would only restate it.
- An Update whose row a Delete removes between its read and its UPDATE: the
  UPDATE matches nothing and Update reports success, but this is the Update
  ordered before the Delete, so it is linearizable and not a defect.
- Middleware, auth and user routes, and build wiring: these have no state.
  Authentication is out of scope in spec.md 1.
- JSON encoding, due-date formatting and logging: encoding is out of scope in
  spec.md 1, and no property depends on them.

## 5. Plan

Done:

1. `TodoItems`, the abstract store, and `TodoBus`, all seven Business
   operations over the table, bucket and queue, with call failures and late
   failures, refining it.
2. `TodoApp`, the routed HTTP handlers composed with `TodoBus`.
3. `DbQueryByID` and `DbQuery`, the store reads; `file_shared_name`.
4. `SqsQueue`, the SQS client with its dropped receipt handles and its
   unmarshal-error path.
5. `double_delete`, narrowed to Delete (an overtaken Update is linearizable),
   and `three_request_refinement`.

Further work: a consumer model, and the orchestrator composed with the queue,
if the repository gains one.
