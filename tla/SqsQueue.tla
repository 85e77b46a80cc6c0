------------------------------- MODULE SqsQueue -------------------------------
(***************************************************************************)
(* The SQS queue as sqs.Client (business/domain/todobus/sqs/sqs.go) drives *)
(* it: SendMessage enqueues a JSON body; ReceiveMessages takes a batch of  *)
(* visible messages in flight and returns their bodies; DeleteMessage      *)
(* removes the message a receipt handle names.  SQS makes an in-flight     *)
(* message visible again when its visibility timeout expires.  A message   *)
(* is identified by its body: TodoBus sends one message per created item.  *)
(***************************************************************************)
EXTENDS Naturals, FiniteSets

CONSTANTS
    Bodies,       \* message bodies, one per message
    MaxMessages,  \* ReceiveMessageInput.MaxNumberOfMessages
    BadHandle,    \* a receipt handle SQS did not issue
    Unparsable    \* bodies that are not JSON (put there by another producer)

ASSUME Unparsable \subseteq Bodies

VARIABLES
    status,     \* status[b]: "unsent", "visible", "inflight" or "deleted"
    delivered,  \* bodies a ReceiveMessages call has returned to its caller
    known       \* receipt handles the caller of ReceiveMessages holds

vars == <<status, delivered, known>>

Status  == {"unsent", "visible", "inflight", "deleted"}
\* The receipt handle of a message's current receipt, named by its body.
Handles == Bodies \cup {BadHandle}
Outcomes == {"ok", "fail"}

TypeOK ==
    /\ status \in [Bodies -> Status]
    /\ delivered \subseteq Bodies
    /\ known \subseteq Bodies

Init ==
    /\ status = [b \in Bodies |-> "unsent"]
    /\ delivered = {}
    /\ known = {}

InState(s) == {b \in Bodies : status[b] = s}

\* sqs.Client.SendMessage: marshal the body, SendMessageWithContext.
SendMessage(b) ==
    /\ status[b] = "unsent"
    /\ \E o \in Outcomes :
        status' = IF o = "ok" THEN [status EXCEPT ![b] = "visible"] ELSE status
    /\ UNCHANGED <<delivered, known>>

\* The batches one ReceiveMessage call may return: up to MaxMessages of
\* the visible messages (SQS may return fewer than are visible).
Batches == {S \in SUBSET InState("visible") : Cardinality(S) <= MaxMessages}

\* sqs.Client.ReceiveMessages returning batch S: every message of S goes
\* in flight.  The loop over result.Messages unmarshals each body; if one
\* fails (sqs.go:60-61) the call returns nil and an error and hands over
\* none of the batch, which stays in flight.  Each message's ReceiptHandle
\* is dropped either way.  A ReceiveMessageWithContext error, or an empty
\* long poll, changes nothing.
ReceiveBatch(S) ==
    /\ S # {}
    /\ status' = [b \in Bodies |-> IF b \in S THEN "inflight" ELSE status[b]]
    /\ delivered' = IF S \cap Unparsable = {} THEN delivered \cup S
                                               ELSE delivered
    /\ UNCHANGED known

ReceiveMessages == \E S \in Batches : ReceiveBatch(S)

\* SQS: the visibility timeout of an in-flight message expires.
VisibilityTimeout(b) ==
    /\ status[b] = "inflight"
    /\ status' = [status EXCEPT ![b] = "visible"]
    /\ known' = known \ {b}
    /\ UNCHANGED delivered

\* sqs.Client.DeleteMessage(receiptHandle): SQS deletes the message only if
\* the handle is the one of its current receipt.
DeleteMessage(h) ==
    /\ \E o \in Outcomes :
        IF o = "ok" /\ h \in known /\ status[h] = "inflight"
          THEN /\ status' = [status EXCEPT ![h] = "deleted"]
               /\ known' = known \ {h}
          ELSE UNCHANGED <<status, known>>
    /\ UNCHANGED delivered

Next ==
    \/ \E b \in Bodies : SendMessage(b) \/ VisibilityTimeout(b)
    \/ ReceiveMessages
    \/ \E h \in known \cup {BadHandle} : DeleteMessage(h)

Spec == Init /\ [][Next]_vars

\* A consumer keeps polling and SQS eventually includes every message that
\* is visible again and again in some batch (short polls sample servers;
\* sqs.go:51 long-polls for 10 s); a visibility timeout always expires; a
\* consumer that holds a receipt handle eventually deletes its message.
Fairness ==
    /\ \A b \in Bodies : SF_vars(\E S \in Batches : b \in S /\ ReceiveBatch(S))
    /\ \A b \in Bodies : WF_vars(VisibilityTimeout(b))
    /\ \A h \in Bodies : WF_vars(h \in known /\ DeleteMessage(h))

LiveSpec == Spec /\ Fairness

-----------------------------------------------------------------------------
(* Properties.                                                             *)

\* A consumer that receives a message through sqs.Client can remove it with
\* DeleteMessage (spec.md 4.4: ReceiveMessages/DeleteMessage serve a
\* downstream consumer), so a delivered message is eventually deleted.
DeliveredEventuallyDeleted ==
    \A b \in Bodies : b \in delivered ~> status[b] = "deleted"
=============================================================================
