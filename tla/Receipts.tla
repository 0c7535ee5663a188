--------------------------------- MODULE Receipts ---------------------------------
(***************************************************************************)
(* The delivery and read watermarks of one member in one conversation:      *)
(* ReceiptsConsumer over ReceiptsRepository, fed by the bus, which may      *)
(* deliver a receipt late and more than once.                               *)
(*                                                                         *)
(* A task is a receipt that a device sent; its state, "delivered" or        *)
(* "read", chooses the row.                                                 *)
(*                                                                         *)
(* And what a device reports of a message that it cannot decrypt: the       *)
(* resend protocol of one message and one device, ResendService over        *)
(* ResendRepository and the decisions of resend.logic.                      *)
(*                                                                         *)
(* And the receipts of a device whose app is closed: it answers a push with *)
(* the token it was sent to, which NotificationService turns into a user.   *)
(***************************************************************************)
EXTENDS Tasks

CONSTANTS MaxSeq, MaxResendAttempts

ASSUME ReceiptsAssumption == MaxSeq \in Nat /\ MaxResendAttempts \in Nat

VARIABLES
    mark,       \* message_receipts: state -> up_to_seq, ts
    clock,      \* when the last receipt was sent
    handled,    \* the receipts recorded so far
    unordered    \* a state for which an earlier receipt was recorded after a later one

receiptVars == <<mark, clock, handled, unordered>>

ReceiptStates == {"delivered", "read"}
Times         == 0..Cardinality(Tasks)

ReceiptTypeOK ==
    /\ mark \in [ReceiptStates -> [upTo : 0..MaxSeq, ts : Times]]
    /\ clock \in Times
    /\ handled \in SUBSET Tasks /\ unordered \in SUBSET ReceiptStates

ReceiptInit ==
    /\ mark = [s \in ReceiptStates |-> [upTo |-> 0, ts |-> 0]]
    /\ clock = 0 /\ handled = {} /\ unordered = {}

\* A device's watermark grows, but it has several devices, and each counts for itself.
SendReceipt(t) ==
    /\ \E s \in ReceiptStates, n \in 1..MaxSeq :
          Begins(t, [op |-> "receipt", state |-> s, upTo |-> n, ts |-> clock + 1, at |-> "sent"])
    /\ clock' = clock + 1
    /\ UNCHANGED <<failures, mark, handled, unordered>>

\* Mutant: the number of the last one handled.
Last(old, new) == new

Highest(old, new) == IF new > old THEN new ELSE old

\* $max on the number and $set on the time, in one upsert; the event may come again.
Record(t) ==
    /\ At(t, "sent")
    /\ LET r == task[t] IN
       /\ mark' = [mark EXCEPT ![r.state] = [upTo |-> Highest(@.upTo, r.upTo), ts |-> r.ts]]
       /\ unordered' = IF \E u \in handled : task[u].state = r.state /\ task[u].upTo > r.upTo
                        THEN unordered \cup {r.state} ELSE unordered
    /\ handled' = handled \cup {t}
    /\ UNCHANGED <<taskVars, clock>>

ReceiptNext == \E t \in Tasks : SendReceipt(t) \/ Record(t)

----------------------------------------------------------------------------
(* The resend protocol                                                     *)

VARIABLES
    row,        \* message_resend_requests: status ("none" without a row), attempts
    requested,      \* message.resend.requested: published
    sent,       \* message.resend.fulfilled: published
    overwritten,      \* a row was written over since the request read it
    reopened    \* a row went from a terminal status to "requested"

resendVars == <<row, requested, sent, overwritten, reopened>>

Terminal(s) == s \in {"fulfilled", "exhausted"}

ResendTypeOK ==
    /\ row \in [status : {"none", "requested", "fulfilled", "exhausted"}, attempts : Nat]
    /\ requested \in Nat /\ {sent, overwritten, reopened} \subseteq BOOLEAN

ResendInit ==
    /\ row = [status |-> "none", attempts |-> 0]
    /\ requested = 0 /\ sent = FALSE /\ overwritten = FALSE /\ reopened = FALSE

----------------------------------------------------------------------------
(* requestResend                                                           *)

Allowed(n) == n < MaxResendAttempts

\* A request whose status is terminal is only answered.
GetRow(t) ==
    /\ ~Terminal(row.status)
    /\ Begins(t, [op |-> "resend", seen |-> row, at |-> IF Allowed(row.attempts) THEN "upsert" ELSE "exhaust"])
    /\ UNCHANGED <<failures, resendVars>>

Upsert(t) ==
    /\ At(t, "upsert")
    /\ row' = [status |-> "requested", attempts |-> row.attempts + 1]
    /\ overwritten' = (overwritten \/ row # task[t].seen)
    /\ reopened' = (reopened \/ Terminal(row.status))
    /\ Goes(t, "publish")
    /\ UNCHANGED <<failures, requested, sent>>

Exhaust(t) ==
    /\ At(t, "exhaust")
    /\ row' = [row EXCEPT !.status = "exhausted"]
    /\ overwritten' = (overwritten \/ row # task[t].seen)
    /\ Goes(t, "over")
    /\ UNCHANGED <<failures, requested, sent, reopened>>

PublishRequested(t) ==
    /\ At(t, "publish") /\ task[t].op = "resend"
    /\ requested' = requested + 1
    /\ Goes(t, "over")
    /\ UNCHANGED <<failures, row, sent, overwritten, reopened>>

----------------------------------------------------------------------------
(* fulfillResend                                                           *)

\* Whatever the status: the device that sends again saw it pending, or was told.
ReadRequest(t) ==
    /\ row.status # "none"
    /\ Begins(t, [op |-> "fulfil", at |-> "status"])
    /\ UNCHANGED <<failures, resendVars>>

SetFulfilled(t) ==
    /\ At(t, "status")
    /\ row' = [row EXCEPT !.status = "fulfilled"]
    /\ Goes(t, "sent")
    /\ UNCHANGED <<failures, requested, sent, overwritten, reopened>>

PublishFulfilled(t) ==
    /\ At(t, "sent")
    /\ sent' = TRUE
    /\ Goes(t, "over")
    /\ UNCHANGED <<failures, row, requested, overwritten, reopened>>

\* The routes of ResendController that write.
ResendRequests(t) == GetRow(t) \/ ReadRequest(t)

ResendNext ==
    \E t \in Tasks :
       \/ ResendRequests(t)
       \/ Upsert(t) \/ Exhaust(t) \/ PublishRequested(t)
       \/ SetFulfilled(t) \/ PublishFulfilled(t)
       \/ Fails(t) /\ UNCHANGED resendVars

----------------------------------------------------------------------------
(* The answers of one device to the pushes for one conversation: registerEndpoint, ackFromDevice     *)

VARIABLES
    endpoint,   \* push_endpoints: the user and the token of the device, or none of both
    belongs,    \* the members that the projection lists
    sending,    \* the endpoints that a worker of the outbox has read, to send to
    pushed,     \* the endpoints that a push reached the device through
    reported,   \* receipts published for the answers: the user the push was for, and the user reported
    handedOver, \* the device registered a token that another user had registered
    departed    \* somebody left while an answer was being checked

ackVars == <<endpoint, belongs, sending, pushed, reported, handedOver, departed>>

Owners     == {"one", "other"}
NoEndpoint == [user |-> "none", token |-> 0]
Endpoints  == [user : Owners, token : 1..2]

AckTypeOK ==
    /\ endpoint \in Endpoints \cup {NoEndpoint}
    /\ {sending, pushed} \subseteq SUBSET Endpoints
    /\ belongs \in SUBSET Owners
    /\ reported \in SUBSET [for : Owners, as : Owners, member : BOOLEAN]
    /\ {handedOver, departed} \subseteq BOOLEAN

AckInit ==
    /\ endpoint = NoEndpoint /\ belongs = Owners
    /\ sending = {} /\ pushed = {} /\ reported = {} /\ handedOver = FALSE /\ departed = FALSE

Answering == {t \in Tasks : Under(t, "answer")}

\* An upsert by the device: whoever is signed in, with the token the provider gave it.
Register(e) ==
    /\ endpoint' = e
    /\ handedOver' = (handedOver \/ \E p \in sending \cup pushed : p.token = e.token /\ p.user # e.user)
    /\ UNCHANGED <<taskVars, belongs, sending, pushed, reported, departed>>

\* A worker of the outbox (NotificationOutbox) reads the endpoint for a row, whose user may have left since.
ReadEndpoint ==
    /\ endpoint # NoEndpoint
    /\ sending' = sending \cup {endpoint}
    /\ UNCHANGED <<taskVars, endpoint, belongs, pushed, reported, handedOver, departed>>

\* It sends to what it read, whoever has registered meanwhile.
SendPush(e) ==
    /\ e \in sending
    /\ sending' = sending \ {e}
    /\ pushed' = pushed \cup {e}
    /\ UNCHANGED <<taskVars, endpoint, belongs, reported, handedOver, departed>>

Leaves(u) ==
    /\ u \in belongs /\ belongs' = belongs \ {u}
    /\ departed' = (departed \/ Answering # {})
    /\ UNCHANGED <<taskVars, endpoint, sending, pushed, reported, handedOver>>

AccountForPushToken(t) ==
    /\ \E p \in pushed :
          /\ p.token = endpoint.token
          /\ Begins(t, [op |-> "answer", for |-> p.user, as |-> endpoint.user, at |-> "member"])
    /\ UNCHANGED <<failures, ackVars>>

\* Nobody who is not on the list, and nobody when there is none.
IsMember(t) ==
    /\ At(t, "member")
    /\ IF task[t].as \in belongs THEN Goes(t, "emit") ELSE Ends(t)
    /\ UNCHANGED <<failures, ackVars>>

EmitReceipt(t) ==
    /\ At(t, "emit")
    /\ reported' = reported \cup {[for |-> task[t].for, as |-> task[t].as, member |-> task[t].as \in belongs]}
    /\ Ends(t)
    /\ UNCHANGED <<failures, endpoint, belongs, sending, pushed, handedOver, departed>>

\* The routes for devices: endpoints and ack.
DeviceRequests == \/ \E e \in Endpoints : Register(e)
                  \/ \E t \in Tasks : AccountForPushToken(t)

AckNext ==
    \/ DeviceRequests \/ ReadEndpoint \/ (\E e \in Endpoints : SendPush(e)) \/ \E u \in Owners : Leaves(u)
    \/ \E t \in Tasks : IsMember(t) \/ EmitReceipt(t) \/ (Fails(t) /\ UNCHANGED ackVars)

----------------------------------------------------------------------------
(* Properties                                                              *)

Recorded(s) == {t \in handled : task[t].state = s}

\* However often and in whatever order receipts arrive, the watermark is the highest of those
\* handled, and its time is the time of a receipt that reached it, unless a lower one was
\* handled after it.  About record, whose number only grows and whose time does not.
WatermarkIsTheHighest ==
    \A s \in ReceiptStates :
        Recorded(s) # {} =>
           /\ \A t \in Recorded(s) : task[t].upTo <= mark[s].upTo
           /\ \E t \in Recorded(s) : task[t].upTo = mark[s].upTo
                                        /\ (s \notin unordered => task[t].ts = mark[s].ts)

\* The time of a watermark is the time of a receipt that reached it: "a receipt only ever
\* advances up_to_seq, so out-of-order events are harmless" (receipts.repository.ts:68).
OutOfOrderIsHarmless ==
    \A s \in ReceiptStates :
        Recorded(s) # {} =>
           \E t \in Recorded(s) : task[t].upTo = mark[s].upTo /\ task[t].ts = mark[s].ts

\* The attempts exceed the cap, or a terminal request is opened again, only if a request was
\* decided on a row that another call wrote over.  About requestResend, which reads the row and
\* upserts it later; the protocol's states are resend.logic.ts:7-10.
ResendLimits ==
    row.attempts > MaxResendAttempts \/ reopened => overwritten

\* A request that stands as fulfilled was sent again, unless the fulfilment died between the
\* status and the event; the device is then told to decrypt what never came.  About
\* fulfillResend.
FulfilledWasSent ==
    row.status = "fulfilled" => sent \/ failures > 0 \/ \E t \in Tasks : At(t, "sent")

\* How far a request for a message goes, and what its end means.
ResendHolds ==
    /\ ResendLimits
    /\ FulfilledWasSent

\* A receipt for a push is the receipt of the user whom the push was for, unless another user has
\* registered that user's token since, and of a member, unless somebody left during the check.  About
\* ackFromDevice, which asks the row for the user now and not whom the push was addressed to.
AnswersAreTheRecipients ==
    \A a \in reported : /\ a.for # a.as => handedOver
                        /\ ~a.member => departed
==================================================================================
