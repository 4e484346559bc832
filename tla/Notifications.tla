---------------------------- MODULE Notifications ----------------------------
(***************************************************************************)
(* Notifications that leave the platform: the events of outbox_events that *)
(* WhatsAppSupportOutboxProcessor sends to the support's number and        *)
(* WebPushOutboxProcessor to the devices of their recipient.               *)
(*                                                                         *)
(* A worker claims events under a lease of two minutes, several pushes at  *)
(* a time, and sends them one after the other.  Only the claim counts      *)
(* attempts; what is written at the end asks for the status and no more.   *)
(* The lease may run out while an event waits for its turn, since a push   *)
(* has no time limit; a worker may stop; the answer to a sending, or the   *)
(* record of it, may be lost, and it is then sent again; an administrator  *)
(* may send an event round again; devices come to their end and people     *)
(* read messages.                                                          *)
(***************************************************************************)
EXTENDS Naturals, FiniteSetsExt

CONSTANTS
  NumEvents,   \* events, numbered as they were queued
  NumDevices,  \* push_subscriptions of the recipient, the newest first
  Limit,       \* devices one event is sent to (20 in the code)
  Workers,
  MaxAttempts, \* attempts before an event is given up
  Batch,       \* pushes claimed at once (3 in the worker's loop)
  MaxClaims,   \* bound: attempt_count
  MaxTroubles  \* bound: leases that run out, workers that stop, requeues, answers
               \* and records that are lost

ASSUME BoundsAssumption ==
  /\ {Limit, MaxAttempts, Batch, MaxClaims} \subseteq Nat \ {0}
  /\ {NumEvents, NumDevices, MaxTroubles} \subseteq Nat

Events == 1 .. NumEvents
Devices == 1 .. NumDevices
Support == 0
Addressees == Devices \cup {Support}

VARIABLES
  event,    \* outbox_events
  device,   \* the devices that are still registered
  receipt,  \* support_message_receipts of the message an event tells of
  work,     \* what each worker does
  reached,  \* how often each device, or the support's number, got an event
  unsure,   \* how often it got it and the worker was told, or left with, a failure
  troubles  \* troubles so far

vars == <<event, device, receipt, work, reached, unsure, troubles>>

-----------------------------------------------------------------------------
\* lapsed: the lease is over; disturbed: some lease of it ran out, or an
\* administrator sent it round again (neither is a column).
Event ==
  [type : {"SUPPORT", "PUSH"},
   status : {"PENDING", "PROCESSING", "RETRY", "DELIVERED", "DEAD_LETTER"},
   attempts : 0 .. MaxClaims, lapsed : BOOLEAN, disturbed : BOOLEAN]

\* The oldest of the jobs is the one under way; left are the devices it still
\* has to be sent to.
Work ==
  [jobs : SUBSET [event : Events, attempts : 1 .. MaxClaims],
   step : {"REST", "READ", "SEND", "RECEIPT", "FINISH"},
   left : SUBSET Devices, accepted : BOOLEAN, transient : BOOLEAN, dead : BOOLEAN]

TypeOK ==
  /\ event \in [Events -> Event]
  /\ device \subseteq Devices
  /\ receipt \in [Events -> {"SENT", "DELIVERED", "READ"}]
  /\ work \in [Workers -> Work]
  /\ reached \in [Events -> [Addressees -> Nat]]
  /\ unsure \in [Events -> [Addressees -> Nat]]
  /\ troubles \in 0 .. MaxTroubles

AtRest == [jobs |-> {}, step |-> "REST", left |-> {}, accepted |-> FALSE,
           transient |-> FALSE, dead |-> FALSE]

Queued(type) == [type |-> type, status |-> "PENDING", attempts |-> 0,
                 lapsed |-> FALSE, disturbed |-> FALSE]

Init ==
  /\ \E type \in [Events -> {"SUPPORT", "PUSH"}] :
       event = [e \in Events |-> Queued(type[e])]
  /\ device = Devices
  /\ receipt = [e \in Events |-> "SENT"]
  /\ work = [w \in Workers |-> AtRest]
  /\ reached = [e \in Events |-> [to \in Addressees |-> 0]]
  /\ unsure = [e \in Events |-> [to \in Addressees |-> 0]]
  /\ troubles = 0

-----------------------------------------------------------------------------
(***************************************************************************)
(* Claiming.                                                               *)
(***************************************************************************)
Claimable_Any(e) == event[e].status \in {"PENDING", "RETRY", "PROCESSING"}

Claimable_Fresh(e) == event[e].status \in {"PENDING", "RETRY"}

\* A lease that is over lets another worker have the event.
Claimable(e) ==
  \/ event[e].status \in {"PENDING", "RETRY"}
  \/ event[e].status = "PROCESSING" /\ event[e].lapsed

Begin(jobs) == [AtRest EXCEPT !.jobs = jobs,
                              !.step = IF jobs = {} THEN "REST" ELSE "READ"]

\* A retry has a time of its own; what is due is taken in the order in which
\* it was queued.
Due(type) ==
  {e \in Events : /\ Claimable(e) /\ event[e].type = type
                  /\ event[e].attempts < MaxClaims}

claim(w, type, limit) ==
  /\ work[w].step = "REST"
  /\ \E waiting \in SUBSET {e \in Due(type) : event[e].status = "RETRY"} :
       LET due == Due(type) \ waiting
           taken == {e \in due : Cardinality({f \in due : f < e}) < limit}
       IN /\ taken # {}
          /\ event' = [e \in Events |->
               IF e \in taken
               THEN [event[e] EXCEPT !.status = "PROCESSING", !.lapsed = FALSE,
                                     !.attempts = @ + 1]
               ELSE event[e]]
          /\ work' = [work EXCEPT ![w] = Begin(
               {[event |-> e, attempts |-> event[e].attempts + 1] : e \in taken})]
  /\ UNCHANGED <<device, receipt, reached, unsure, troubles>>

Oldest(jobs) == CHOOSE j \in jobs : \A k \in jobs : j.event <= k.event

Job(w) == Oldest(work[w].jobs)
Current(w) == Job(w).event

-----------------------------------------------------------------------------
(***************************************************************************)
(* Sending.                                                                *)
(***************************************************************************)
\* The newest devices, as many as are sent to.
Newest(top) ==
  /\ top \subseteq device
  /\ \A c \in top, d \in device \ top : c < d
  /\ \/ Cardinality(top) = Limit
     \/ Cardinality(top) < Limit /\ top = device

\* The devices are read once.  What an event tells of is never deleted.
read(w) ==
  /\ work[w].step = "READ"
  /\ IF event[Current(w)].type = "PUSH"
     THEN \E top \in SUBSET device :
            /\ Newest(top)
            /\ work' = [work EXCEPT
                 ![w].step = IF top = {} THEN "FINISH" ELSE "SEND", ![w].left = top]
     ELSE work' = [work EXCEPT ![w].step = "SEND"]
  /\ UNCHANGED <<event, device, receipt, reached, unsure, troubles>>

Trouble == troubles < MaxTroubles /\ troubles' = troubles + 1

Got(e, to) == reached' = [reached EXCEPT ![e][to] = @ + 1]
Unsure(e, to) == unsure' = [unsure EXCEPT ![e][to] = @ + 1]

\* The support's number gets the message, or the service refuses it for now
\* or for good, or the number gets it and the answer is late or lost, which is
\* like a refusal for now.
sendToSupport(w) ==
  /\ work[w].step = "SEND" /\ event[Current(w)].type = "SUPPORT"
  /\ \/ /\ Got(Current(w), Support)
        /\ work' = [work EXCEPT ![w].step = "FINISH", ![w].accepted = TRUE]
        /\ UNCHANGED <<unsure, troubles>>
     \/ /\ \E forGood \in BOOLEAN :
             work' = [work EXCEPT ![w].step = "FINISH", ![w].transient = TRUE,
                                  ![w].dead = forGood]
        /\ UNCHANGED <<reached, unsure, troubles>>
     \/ /\ Trouble /\ Got(Current(w), Support) /\ Unsure(Current(w), Support)
        /\ work' = [work EXCEPT ![w].step = "FINISH", ![w].transient = TRUE]
  /\ UNCHANGED <<event, device, receipt>>

\* One device after the other; one that is gone is forgotten.  An answer that
\* is lost is a failure for now, and so is, beside the success, a statement that
\* fails after it.
push(w) ==
  /\ work[w].step = "SEND" /\ event[Current(w)].type = "PUSH"
  /\ LET d == Min(work[w].left)
         sent == [work[w] EXCEPT
           !.left = @ \ {d},
           !.step = IF work[w].left = {d} THEN "RECEIPT" ELSE "SEND"]
     IN \/ /\ Got(Current(w), d)
           /\ \/ /\ work' = [work EXCEPT ![w] = [sent EXCEPT !.accepted = TRUE]]
                 /\ UNCHANGED troubles
              \/ /\ work' = [work EXCEPT ![w] = [sent EXCEPT !.accepted = TRUE,
                                                            !.transient = TRUE]]
                 /\ Trouble
           /\ UNCHANGED <<device, unsure>>
        \/ /\ device' = device \ {d}
           /\ work' = [work EXCEPT ![w] = sent]
           /\ UNCHANGED <<reached, unsure, troubles>>
        \/ /\ \/ UNCHANGED <<reached, unsure, troubles>>
              \/ Trouble /\ Got(Current(w), d) /\ Unsure(Current(w), d)
           /\ work' = [work EXCEPT ![w] = [sent EXCEPT !.transient = TRUE]]
           /\ UNCHANGED device
  /\ UNCHANGED <<event, receipt>>

SecondTick(e) == IF receipt[e] = "SENT" THEN "DELIVERED" ELSE receipt[e]

\* Some device has the message: its sender may see the second tick.
Ticks(w) == work[w].accepted

markReceipt(w) ==
  /\ work[w].step = "RECEIPT"
  /\ receipt' = IF Ticks(w)
                THEN [receipt EXCEPT ![Current(w)] = SecondTick(Current(w))]
                ELSE receipt
  /\ work' = [work EXCEPT ![w].step = "FINISH"]
  /\ UNCHANGED <<event, device, reached, unsure, troubles>>

Outcome_Optimist(w) ==
  IF work[w].dead THEN "DEAD_LETTER" ELSE "DELIVERED"

Outcome(w) ==
  IF work[w].accepted \/ ~work[w].transient THEN "DELIVERED"
  ELSE IF work[w].dead \/ Job(w).attempts >= MaxAttempts THEN "DEAD_LETTER"
  ELSE "RETRY"

\* The support has the message and the statement that records it fails: the
\* handler takes that for a sending that failed.
finishFails(w) ==
  /\ work[w].step = "FINISH" /\ work[w].accepted
  /\ event[Current(w)].type = "SUPPORT"
  /\ Trouble /\ Unsure(Current(w), Support)
  /\ work' = [work EXCEPT ![w].accepted = FALSE, ![w].transient = TRUE]
  /\ UNCHANGED <<event, device, receipt, reached>>

Writes_Blindly(w) == TRUE

Writes(w) == event[Current(w)].status = "PROCESSING"

finish(w) ==
  /\ work[w].step = "FINISH"
  /\ event' = IF Writes(w)
              THEN [event EXCEPT ![Current(w)].status = Outcome(w),
                                 ![Current(w)].lapsed = FALSE]
              ELSE event
  /\ work' = [work EXCEPT ![w] = Begin(work[w].jobs \ {Job(w)})]
  /\ UNCHANGED <<device, receipt, reached, unsure, troubles>>

-----------------------------------------------------------------------------
(***************************************************************************)
(* What else happens.                                                      *)
(***************************************************************************)
Held(e) == \E w \in Workers : \E j \in work[w].jobs : j.event = e

LeaseOver(e) ==
  /\ event[e].status = "PROCESSING" /\ ~event[e].lapsed
  /\ IF Held(e) THEN Trouble
     ELSE UNCHANGED troubles
  /\ event' = [event EXCEPT ![e].lapsed = TRUE, ![e].disturbed = TRUE]
  /\ UNCHANGED <<device, receipt, work, reached, unsure>>

\* A process that is killed, or a statement that fails outside of a handler of
\* failures: the rest of the batch waits for its leases to run out.
Stop(w) ==
  /\ work[w].step # "REST"
  /\ Trouble
  /\ work' = [work EXCEPT ![w] = AtRest]
  /\ UNCHANGED <<event, device, receipt, reached, unsure>>

retryEvent(e) ==
  /\ event[e].status \in {"DEAD_LETTER", "RETRY"}
  /\ Trouble
  /\ event' = [event EXCEPT ![e].status = "PENDING", ![e].attempts = 0,
                            ![e].disturbed = TRUE]
  /\ UNCHANGED <<device, receipt, work, reached, unsure>>

\* The message a push tells of is read, in the application.
readMessage(e) ==
  /\ event[e].type = "PUSH" /\ receipt[e] # "READ"
  /\ receipt' = [receipt EXCEPT ![e] = "READ"]
  /\ UNCHANGED <<event, device, work, reached, unsure, troubles>>

unsubscribe(d) ==
  /\ d \in device
  /\ device' = device \ {d}
  /\ UNCHANGED <<event, receipt, work, reached, unsure, troubles>>

WorkerStep(w) ==
  \/ claim(w, "SUPPORT", 1)
  \/ claim(w, "PUSH", Batch)
  \/ read(w) \/ sendToSupport(w) \/ push(w) \/ markReceipt(w)
  \/ finishFails(w) \/ finish(w)

Next ==
  \/ \E w \in Workers : WorkerStep(w) \/ Stop(w)
  \/ \E e \in Events : LeaseOver(e) \/ retryEvent(e) \/ readMessage(e)
  \/ \E d \in Devices : unsubscribe(d)

Spec == Init /\ [][Next]_vars

\* The worker's loop goes on; a lease that nobody renews runs out.
Fairness ==
  /\ \A w \in Workers : WF_vars(WorkerStep(w))
  /\ \A e \in Events : WF_vars(LeaseOver(e))

FairSpec == Spec /\ Fairness

-----------------------------------------------------------------------------
(***************************************************************************)
(* Properties.                                                             *)
(***************************************************************************)
Ended(e) == event[e].status \in {"DELIVERED", "DEAD_LETTER"}

\* An event whose leases never ran out and that nobody sent round again comes
\* to nobody once more than there were answers or records lost about it: two
\* workers never send it beside each other, and no device that took it, and not
\* the support's number, is sent it again because others failed.
TwiceOnlyWhenInDoubt ==
  \A e \in Events : \A to \in Addressees :
    event[e].disturbed \/ reached[e][to] <= 1 + unsure[e][to]

\* What is written off as delivered has reached someone, or nobody is left
\* whom it could reach, or as many devices are gone as one event is sent to; the
\* results of workers that lost their lease included.
NobodyForgotten ==
  \A e \in Events :
    event[e].status = "DELIVERED" =>
      \/ \E to \in Addressees : reached[e][to] > 0
      \/ /\ event[e].type = "PUSH"
         /\ device = {} \/ Cardinality(Devices \ device) >= Limit

\* The sender sees the second tick only if a device got the message.
TickIsTrue ==
  \A e \in Events :
    receipt[e] = "DELIVERED" => \E d \in Devices : reached[e][d] > 0

\* Types, and the two together: neither the row of an event nor the second
\* tick claims a delivery that did not happen.
DeliveryInv == TypeOK /\ NobodyForgotten /\ TickIsTrue

\* What has ended stays so, until an administrator sends it round again.
EndedStays ==
  [][\A e \in Events :
       Ended(e) /\ event'[e].status # event[e].status => retryEvent(e)]_vars

\* Every notification is delivered or given up in the end.
EveryEventEnds == \A e \in Events : <>[]Ended(e)
=============================================================================
