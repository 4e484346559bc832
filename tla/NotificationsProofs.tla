------------------------- MODULE NotificationsProofs -------------------------
(***************************************************************************)
(* Theorems of Notifications, for any number of events, devices, workers,  *)
(* attempts and troubles, and any size of the batches.                     *)
(***************************************************************************)
EXTENDS Notifications, FiniteSetTheorems, WellFoundedInduction, TLAPS

Busy(w) == work[w].step # "REST"

Tells(w, type) == Busy(w) /\ event[Current(w)].type = type

\* A worker that has accepted a push or a message has brought it to someone.
Brought(w) ==
  Busy(w) /\ work[w].accepted =>
    \E to \in Addressees :
      /\ reached[Current(w)][to] > 0
      /\ event[Current(w)].type = "PUSH" => to \in Devices

\* A push that nobody took and nobody refused for now has no device to go to
\* but those that are left, or enough of them are gone.
Exhausted(w) ==
  /\ Tells(w, "PUSH") /\ work[w].step # "READ"
  /\ ~work[w].accepted /\ ~work[w].transient
  => \/ device \subseteq work[w].left
     \/ Cardinality((Devices \ device) \cup work[w].left) >= Limit

\* What a worker holds, and how far it is.
WorkerOK(w) ==
  /\ work[w].jobs = {} <=> ~Busy(w)
  /\ \A j, k \in work[w].jobs : j.event = k.event => j = k
  /\ work[w].step = "READ" => ~work[w].accepted /\ work[w].left = {}
  /\ work[w].step \in {"RECEIPT", "FINISH"} => work[w].left = {}
  /\ work[w].step = "RECEIPT" => Tells(w, "PUSH")
  /\ Tells(w, "PUSH") /\ work[w].step = "SEND" => work[w].left # {}
  /\ Tells(w, "SUPPORT") =>
       /\ work[w].left = {}
       /\ work[w].step = "FINISH" => work[w].accepted \/ work[w].transient
  /\ Brought(w)
  /\ Exhausted(w)

Holds(w, e) == \E j \in work[w].jobs : j.event = e

\* The worker is the one that brought the event to this device, or to the
\* support's number, and knows it, and it will not do so again.
Sent(w, e, to) ==
  /\ Current(w) = e /\ work[w].accepted
  /\ work[w].step = "SEND" => event[e].type = "PUSH" /\ to \notin work[w].left
  /\ event[e].type = "SUPPORT" => to = Support

\* An event that was never disturbed goes through one pair of hands at a time,
\* and comes back only if nobody is known to have got it.
Calm(e) ==
  /\ ~event[e].lapsed
  /\ event[e].status # "PROCESSING" => \A w \in Workers : ~Holds(w, e)
  /\ \A v, w \in Workers : Holds(v, e) /\ Holds(w, e) => v = w
  /\ \A to \in Addressees :
       /\ reached[e][to] <= 1 + unsure[e][to]
       /\ event[e].status \in {"PENDING", "RETRY"} => reached[e][to] <= unsure[e][to]
       /\ \A w \in Workers :
            Holds(w, e) /\ reached[e][to] > unsure[e][to] => Sent(w, e, to)

Inv ==
  /\ DeliveryInv
  /\ \A w \in Workers : WorkerOK(w)
  /\ \A e \in Events : event[e].disturbed \/ Calm(e)

-----------------------------------------------------------------------------
\* A nonempty set of numbers has a least one, so that a worker's jobs have an
\* oldest, and the devices left a first.
LEMMA LeastNumber ==
  ASSUME NEW S, S \subseteq Nat, S # {}
  PROVE  \E x \in S : \A y \in S : x <= y
<1>1. PICK x \in S : \A y \in S : ~(<<y, x>> \in OpToRel(<, Nat))
  BY WFMin, NatLessThanWellFounded, Zenon
<1>2. \A y \in S : ~(y < x)
  BY <1>1 DEF OpToRel
<1>3. \A y \in S : x \in Nat /\ y \in Nat
  OBVIOUS
<1> QED
  BY <1>2, <1>3

\* The first of the devices that are left is one of them.
LEMMA FirstDevice ==
  ASSUME NEW S, S \subseteq Devices, S # {}
  PROVE  Min(S) \in S
<1>0. S \subseteq Nat
  BY BoundsAssumption DEF Devices
<1>1. PICK x \in S : \A y \in S : x <= y
  BY <1>0, LeastNumber, Zenon
<1> QED
  BY <1>1 DEF Min

\* The oldest of some jobs is one of them.
LEMMA OldestIsThere ==
  ASSUME NEW jobs, jobs \subseteq [event : Events, attempts : 1 .. MaxClaims], jobs # {}
  PROVE  Oldest(jobs) \in jobs
<1> DEFINE numbers == {j.event : j \in jobs}
<1>1. numbers \subseteq Nat /\ numbers # {}
  BY DEF Events
<1>2. PICK x \in numbers : \A y \in numbers : x <= y
  BY <1>1, LeastNumber
<1>3. PICK j \in jobs : j.event = x
  BY <1>2
<1>4. \A k \in jobs : j.event <= k.event
  BY <1>2, <1>3
<1> QED
  BY <1>3, <1>4 DEF Oldest

\* A busy worker's job is one of its jobs.
LEMMA JobIsThere ==
  ASSUME TypeOK, NEW w \in Workers, WorkerOK(w), Busy(w)
  PROVE  /\ Job(w) \in work[w].jobs
         /\ Current(w) \in Events
         /\ Job(w).attempts \in 1 .. MaxClaims
         /\ Holds(w, Current(w))
<1>1. /\ work[w].jobs \subseteq [event : Events, attempts : 1 .. MaxClaims]
      /\ work[w].jobs # {}
  BY DEF TypeOK, Work, WorkerOK
<1>2. Job(w) \in work[w].jobs
  BY <1>1, OldestIsThere DEF Job
<1> QED
  BY <1>1, <1>2 DEF Current, Holds

-----------------------------------------------------------------------------
\* What no step takes back: an event keeps its type, what somebody got he has
\* got, and no device comes back.
Growing ==
  /\ \A e \in Events : event'[e].type = event[e].type
  /\ \A e \in Events : \A to \in Addressees : reached'[e][to] >= reached[e][to]
  /\ device' \subseteq device

\* A row of outbox_events with other values in its columns.
LEMMA RowWritten ==
  ASSUME NEW e \in Event,
         NEW s \in {"PENDING", "PROCESSING", "RETRY", "DELIVERED", "DEAD_LETTER"},
         NEW n \in 0 .. MaxClaims, NEW l \in BOOLEAN, NEW d \in BOOLEAN
  PROVE  /\ [e EXCEPT !.status = s, !.lapsed = l, !.attempts = n] \in Event
         /\ [e EXCEPT !.status = s, !.attempts = n, !.disturbed = d] \in Event
BY DEF Event

\* The rows of a claim, the work it begins with, and the rest.
LEMMA ClaimTypes ==
  ASSUME TypeOK, NEW w \in Workers, NEW type, NEW limit, claim(w, type, limit)
  PROVE  TypeOK' /\ Growing
<1>1. PICK taken \in SUBSET Due(type) :
         /\ event' = [e \in Events |->
              IF e \in taken
              THEN [event[e] EXCEPT !.status = "PROCESSING", !.lapsed = FALSE,
                                    !.attempts = @ + 1]
              ELSE event[e]]
         /\ work' = [work EXCEPT ![w] = Begin(
              {[event |-> e, attempts |-> event[e].attempts + 1] : e \in taken})]
  BY DEF claim
<1>2. taken \subseteq Events /\ \A e \in taken : event[e].attempts < MaxClaims
  BY <1>1 DEF Due
<1>3. \A e \in Events : event[e] \in Event
  BY DEF TypeOK
<1>4. MaxClaims \in Nat
  BY BoundsAssumption
<1>5. \A e \in taken : event[e].attempts + 1 \in 1 .. MaxClaims
  BY <1>2, <1>3, <1>4 DEF Event
<1>6. event' \in [Events -> Event]
  <2>1. ASSUME NEW e \in taken
        PROVE  [event[e] EXCEPT !.status = "PROCESSING", !.lapsed = FALSE,
                                !.attempts = @ + 1] \in Event
    <3>1. PICK n \in 0 .. MaxClaims : n = event[e].attempts + 1
      BY <1>4, <1>5
    <3>2. event[e] \in Event
      BY <1>2, <1>3
    <3>3. [event[e] EXCEPT !.status = "PROCESSING", !.lapsed = FALSE, !.attempts = n]
            \in Event
      BY <3>2, RowWritten
    <3> QED
      BY <3>1, <3>3
  <2> QED
    BY <1>1, <1>3, <2>1
<1>7. \A e \in Events : event'[e].type = event[e].type
  BY <1>1, <1>3 DEF Event
<1> DEFINE jobs == {[event |-> e, attempts |-> event[e].attempts + 1] : e \in taken}
<1>8. jobs \in SUBSET [event : Events, attempts : 1 .. MaxClaims]
  BY <1>2, <1>5
<1>9. Begin(jobs) \in Work
  BY <1>8 DEF Begin, AtRest, Work
<1>10. work' \in [Workers -> Work]
  BY <1>1, <1>9 DEF TypeOK
<1>11. UNCHANGED <<device, receipt, reached, unsure, troubles>>
  BY DEF claim
<1>12. \A e \in Events : \A to \in Addressees : reached[e][to] \in Nat
  BY DEF TypeOK
<1> QED
  BY <1>6, <1>7, <1>10, <1>11, <1>12 DEF TypeOK, Growing

\* One more of what somebody got.
LEMMA GotTypes ==
  ASSUME TypeOK, NEW e \in Events, NEW to \in Addressees, Got(e, to)
  PROVE  /\ reached' \in [Events -> [Addressees -> Nat]]
         /\ reached'[e][to] = reached[e][to] + 1
         /\ \A f \in Events : \A at \in Addressees :
              <<f, at>> # <<e, to>> => reached'[f][at] = reached[f][at]
BY DEF TypeOK, Got

\* One more of what nobody can tell.
LEMMA UnsureTypes ==
  ASSUME TypeOK, NEW e \in Events, NEW to \in Addressees, Unsure(e, to)
  PROVE  /\ unsure' \in [Events -> [Addressees -> Nat]]
         /\ unsure'[e][to] = unsure[e][to] + 1
         /\ \A f \in Events : \A at \in Addressees :
              <<f, at>> # <<e, to>> => unsure'[f][at] = unsure[f][at]
BY DEF TypeOK, Unsure

\* A trouble is one more, as long as there may be one.
LEMMA TroubleTypes ==
  ASSUME TypeOK, Trouble \/ UNCHANGED troubles
  PROVE  troubles' \in 0 .. MaxTroubles
BY BoundsAssumption DEF TypeOK, Trouble

\* What is reached, and what nobody can tell, after a sending.
LEMMA CountTypes ==
  ASSUME TypeOK, NEW e \in Events, NEW to \in Addressees,
         Got(e, to) \/ UNCHANGED reached, Unsure(e, to) \/ UNCHANGED unsure
  PROVE  /\ reached' \in [Events -> [Addressees -> Nat]]
         /\ unsure' \in [Events -> [Addressees -> Nat]]
         /\ \A f \in Events : \A at \in Addressees : reached'[f][at] >= reached[f][at]
<1>1. \A f \in Events : \A at \in Addressees : reached[f][at] \in Nat
  BY DEF TypeOK
<1>2. /\ reached' \in [Events -> [Addressees -> Nat]]
      /\ \A f \in Events : \A at \in Addressees : reached'[f][at] >= reached[f][at]
  <2>1. CASE Got(e, to)
    BY <1>1, <2>1, GotTypes
  <2>2. CASE UNCHANGED reached
    BY <1>1, <2>2 DEF TypeOK
  <2> QED
    BY <2>1, <2>2
<1>3. unsure' \in [Events -> [Addressees -> Nat]]
  <2>1. CASE Unsure(e, to)
    BY <2>1, UnsureTypes
  <2>2. CASE UNCHANGED unsure
    BY <2>2 DEF TypeOK
  <2> QED
    BY <2>1, <2>2
<1> QED
  BY <1>2, <1>3

\* Types and what grows, for a worker's other steps.
LEMMA SendTypes ==
  ASSUME TypeOK, NEW w \in Workers, WorkerOK(w),
         read(w) \/ sendToSupport(w) \/ push(w) \/ markReceipt(w)
  PROVE  TypeOK' /\ Growing
<1>0. /\ Busy(w) /\ event' = event
      /\ Support \in Addressees /\ Devices \subseteq Addressees
      /\ work[w] \in Work /\ device \subseteq Devices
      /\ \A e \in Events : \A to \in Addressees : reached[e][to] \in Nat
  BY DEF TypeOK, read, sendToSupport, push, markReceipt, Busy, Addressees
<1>1. Current(w) \in Events
  BY <1>0, JobIsThere
<1>2. UNCHANGED troubles => troubles' \in 0 .. MaxTroubles
  BY TroubleTypes
<1>3. CASE read(w)
  <2>1. \E step \in {"FINISH", "SEND"} : \E left \in SUBSET Devices :
          work' = [work EXCEPT ![w].step = step, ![w].left = left]
    <3>1. CASE event[Current(w)].type = "PUSH"
      BY <1>0, <1>3, <3>1 DEF read
    <3>2. CASE event[Current(w)].type # "PUSH"
      <4>1. work' = [work EXCEPT ![w].step = "SEND"]
        BY <1>3, <3>2 DEF read
      <4>2. work[w].left \in SUBSET Devices
        BY <1>0 DEF Work
      <4>3. work' = [work EXCEPT ![w].step = "SEND", ![w].left = work[w].left]
        BY <1>0, <4>1 DEF Work, TypeOK
      <4> QED
        BY <4>2, <4>3
    <3> QED
      BY <3>1, <3>2
  <2>2. work' \in [Workers -> Work]
    <3>1. PICK step \in {"FINISH", "SEND"}, left \in SUBSET Devices :
            work' = [work EXCEPT ![w].step = step, ![w].left = left]
      BY <2>1
    <3>2. [work[w] EXCEPT !.step = step, !.left = left] \in Work
      BY <1>0 DEF Work
    <3>3. work' = [work EXCEPT ![w] = [work[w] EXCEPT !.step = step, !.left = left]]
      BY <3>1 DEF TypeOK
    <3> QED
      BY <3>2, <3>3 DEF TypeOK
  <2>3. UNCHANGED <<event, device, receipt, reached, unsure, troubles>>
    BY <1>3 DEF read
  <2> QED
    BY <1>0, <1>2, <2>2, <2>3 DEF TypeOK, Growing
<1>4. CASE sendToSupport(w)
  <2>1. work' \in [Workers -> Work]
    <3>1. CASE work' = [work EXCEPT ![w].step = "FINISH", ![w].accepted = TRUE]
      BY <1>0, <3>1 DEF TypeOK, Work
    <3>2. CASE \E forGood \in BOOLEAN :
                 work' = [work EXCEPT ![w].step = "FINISH", ![w].transient = TRUE,
                                      ![w].dead = forGood]
      <4>1. PICK forGood \in BOOLEAN :
                 work' = [work EXCEPT ![w].step = "FINISH", ![w].transient = TRUE,
                                      ![w].dead = forGood]
        BY <3>2
      <4>2. PICK t : t = [work[w] EXCEPT !.step = "FINISH", !.transient = TRUE, !.dead = forGood]
        OBVIOUS
      <4>3. t \in Work
        BY <1>0, <4>2 DEF Work
      <4>4. work' = [work EXCEPT ![w] = t]
        BY <4>1, <4>2 DEF TypeOK
      <4> QED
        BY <4>3, <4>4 DEF TypeOK
    <3>3. CASE work' = [work EXCEPT ![w].step = "FINISH", ![w].transient = TRUE]
      BY <1>0, <3>3 DEF TypeOK, Work
    <3> QED
      BY <1>4, <3>1, <3>2, <3>3 DEF sendToSupport
  <2>2. /\ UNCHANGED <<event, device, receipt>>
        /\ Got(Current(w), Support) \/ UNCHANGED reached
        /\ Unsure(Current(w), Support) \/ UNCHANGED unsure
        /\ Trouble \/ UNCHANGED troubles
    BY <1>4 DEF sendToSupport
  <2>3. troubles' \in 0 .. MaxTroubles
    BY <2>2, TroubleTypes
  <2>4. /\ reached' \in [Events -> [Addressees -> Nat]]
        /\ unsure' \in [Events -> [Addressees -> Nat]]
        /\ \A e \in Events : \A to \in Addressees : reached'[e][to] >= reached[e][to]
    BY <1>0, <1>1, <2>2, CountTypes
  <2> QED
    BY <1>0, <2>1, <2>2, <2>3, <2>4 DEF TypeOK, Growing
<1>5. CASE push(w)
  <2>1. work[w].left # {} /\ work[w].left \subseteq Devices
    BY <1>0, <1>5 DEF push, WorkerOK, Tells, Work
  <2>2. PICK d : d = Min(work[w].left)
    OBVIOUS
  <2>3. d \in work[w].left /\ d \in Devices
    BY <2>1, <2>2, FirstDevice
  <2>4. /\ reached' \in [Events -> [Addressees -> Nat]]
        /\ unsure' \in [Events -> [Addressees -> Nat]]
        /\ \A e \in Events : \A to \in Addressees : reached'[e][to] >= reached[e][to]
        /\ troubles' \in 0 .. MaxTroubles
    <3>1. /\ Got(Current(w), d) \/ UNCHANGED reached
          /\ Unsure(Current(w), d) \/ UNCHANGED unsure
          /\ Trouble \/ UNCHANGED troubles
      BY <1>5, <2>2 DEF push
    <3>2. troubles' \in 0 .. MaxTroubles
      BY <3>1, TroubleTypes
    <3>3. d \in Addressees
      BY <1>0, <2>3
    <3> QED
      BY <1>1, <3>1, <3>2, <3>3, CountTypes
  <2>5. device' \subseteq device /\ receipt' = receipt
    BY <1>0, <1>5 DEF push
  <2>6. work' \in [Workers -> Work]
    <3>1. PICK sent : sent = [work[w] EXCEPT
             !.left = @ \ {d},
             !.step = IF work[w].left = {d} THEN "RECEIPT" ELSE "SEND"]
      OBVIOUS
    <3>2. /\ sent \in Work /\ [sent EXCEPT !.accepted = TRUE] \in Work
          /\ [sent EXCEPT !.transient = TRUE] \in Work
          /\ [sent EXCEPT !.accepted = TRUE, !.transient = TRUE] \in Work
      BY <1>0, <3>1 DEF Work
    <3>3. \E t \in Work : work' = [work EXCEPT ![w] = t]
      BY <1>5, <2>2, <3>1, <3>2 DEF push
    <3> QED
      BY <3>3 DEF TypeOK
  <2> QED
    BY <1>0, <2>4, <2>5, <2>6 DEF TypeOK, Growing
<1>6. CASE markReceipt(w)
  <2>1. receipt' \in [Events -> {"SENT", "DELIVERED", "READ"}]
    BY <1>1, <1>6 DEF markReceipt, SecondTick, TypeOK
  <2>2. work' \in [Workers -> Work]
    BY <1>0, <1>6 DEF markReceipt, TypeOK, Work
  <2>3. UNCHANGED <<event, device, reached, unsure, troubles>>
    BY <1>6 DEF markReceipt
  <2> QED
    BY <1>0, <1>2, <2>1, <2>2, <2>3 DEF TypeOK, Growing
<1> QED
  BY <1>3, <1>4, <1>5, <1>6

\* Types and what grows, for the result of an attempt.
LEMMA FinishTypes ==
  ASSUME TypeOK, NEW w \in Workers, WorkerOK(w), finish(w)
  PROVE  TypeOK' /\ Growing
<1>1. /\ work[w].step = "FINISH" /\ work[w] \in Work
      /\ \A e \in Events : \A to \in Addressees : reached[e][to] \in Nat
      /\ \A e \in Events : event[e] \in Event
  BY DEF finish, TypeOK
<1>2. Outcome(w) \in {"DELIVERED", "DEAD_LETTER", "RETRY"}
  BY DEF Outcome
<1>3. event' \in [Events -> Event] /\ \A e \in Events : event'[e].type = event[e].type
  <2>1. CASE Writes(w)
    <3>1. event' = [event EXCEPT ![Current(w)].status = Outcome(w),
                                 ![Current(w)].lapsed = FALSE]
      BY <2>1 DEF finish
    <3>2. ASSUME NEW e \in Events, NEW s \in {"DELIVERED", "DEAD_LETTER", "RETRY"}
          PROVE  [event[e] EXCEPT !.status = s, !.lapsed = FALSE] \in Event
      BY <1>1 DEF Event
    <3>3. PICK s \in {"DELIVERED", "DEAD_LETTER", "RETRY"} : s = Outcome(w)
      BY <1>2
    <3>4. \A e \in Events :
            \/ event'[e] = event[e]
            \/ event'[e] = [event[e] EXCEPT !.status = s, !.lapsed = FALSE]
      BY <3>1, <3>3 DEF TypeOK
    <3>5. event' \in [Events -> Event]
      <4>1. event' = [e \in Events |-> event'[e]]
        BY <3>1 DEF TypeOK
      <4> QED
        <5>1. \A e \in Events : event'[e] \in Event
          <6>1. ASSUME NEW e \in Events
                PROVE  event'[e] \in Event
            <7>1. CASE event'[e] = event[e]
              BY <1>1, <7>1
            <7>2. CASE event'[e] = [event[e] EXCEPT !.status = s, !.lapsed = FALSE]
              BY <3>2, <7>2
            <7> QED
              BY <3>4, <7>1, <7>2
          <6> QED
            BY <6>1
        <5> QED
          BY <4>1, <5>1
    <3>6. \A e \in Events : event'[e].type = event[e].type
      BY <1>1, <3>4 DEF Event
    <3> QED
      BY <3>5, <3>6
  <2>2. CASE ~Writes(w)
    BY <1>1, <2>2 DEF finish, TypeOK
  <2> QED
    BY <2>1, <2>2
<1>4. PICK jobs : jobs = work[w].jobs \ {Job(w)}
  OBVIOUS
<1>5. Begin(jobs) \in Work
  BY <1>1, <1>4 DEF Begin, AtRest, Work
<1>6. work' \in [Workers -> Work]
  BY <1>4, <1>5 DEF finish, TypeOK
<1> QED
  BY <1>1, <1>3, <1>6 DEF finish, TypeOK, Growing

\* Types and what grows, for a result that is not recorded.
LEMMA FailsTypes ==
  ASSUME TypeOK, NEW w \in Workers, WorkerOK(w), finishFails(w)
  PROVE  TypeOK' /\ Growing
<1>1. /\ Busy(w) /\ work[w] \in Work /\ Support \in Addressees
      /\ \A e \in Events : \A to \in Addressees : reached[e][to] \in Nat
      /\ work' = [work EXCEPT ![w].accepted = FALSE, ![w].transient = TRUE]
      /\ UNCHANGED <<event, device, receipt, reached>>
      /\ Trouble /\ Unsure(Current(w), Support)
  BY DEF finishFails, TypeOK, Busy, Addressees
<1>2. Current(w) \in Events
  BY <1>1, JobIsThere
<1>3. unsure' \in [Events -> [Addressees -> Nat]] /\ troubles' \in 0 .. MaxTroubles
  BY <1>1, <1>2, UnsureTypes, TroubleTypes
<1>4. work' \in [Workers -> Work]
  <2>1. [work[w] EXCEPT !.accepted = FALSE, !.transient = TRUE] \in Work
    BY <1>1 DEF Work
  <2>2. work' = [work EXCEPT ![w] = [work[w] EXCEPT !.accepted = FALSE, !.transient = TRUE]]
    BY <1>1 DEF TypeOK
  <2> QED
    BY <2>1, <2>2 DEF TypeOK
<1> QED
  BY <1>1, <1>3, <1>4 DEF TypeOK, Growing

\* Types and what grows, for what else happens.
LEMMA AsideTypes ==
  ASSUME TypeOK,
         \/ \E w \in Workers : Stop(w)
         \/ \E e \in Events : LeaseOver(e) \/ retryEvent(e) \/ readMessage(e)
         \/ \E d \in Devices : unsubscribe(d)
  PROVE  TypeOK' /\ Growing
<1>0. /\ \A e \in Events : \A to \in Addressees : reached[e][to] \in Nat
      /\ troubles \in Nat /\ MaxTroubles \in Nat /\ troubles <= MaxTroubles
      /\ \A e \in Events : event[e] \in Event
      /\ MaxClaims \in Nat
  BY BoundsAssumption DEF TypeOK
<1>1. AtRest \in Work
  BY DEF AtRest, Work
<1>2. CASE \E w \in Workers : Stop(w)
  BY <1>0, <1>1, <1>2 DEF Stop, Trouble, TypeOK, Growing
<1>3. CASE \E e \in Events : LeaseOver(e)
  <2>1. PICK e \in Events : LeaseOver(e)
    BY <1>3
  <2>2. [event[e] EXCEPT !.lapsed = TRUE, !.disturbed = TRUE] \in Event
    BY <1>0 DEF Event
  <2>3. event' = [event EXCEPT ![e] = [event[e] EXCEPT !.lapsed = TRUE, !.disturbed = TRUE]]
    BY <2>1 DEF LeaseOver, TypeOK
  <2>4. event' \in [Events -> Event] /\ \A f \in Events : event'[f].type = event[f].type
    BY <1>0, <2>2, <2>3 DEF TypeOK, Event
  <2>5. troubles' \in 0 .. MaxTroubles /\ UNCHANGED <<device, receipt, work, reached, unsure>>
    BY <1>0, <2>1 DEF LeaseOver, Trouble, TypeOK
  <2> QED
    BY <1>0, <2>4, <2>5 DEF TypeOK, Growing
<1>4. CASE \E e \in Events : retryEvent(e)
  <2>1. PICK e \in Events : retryEvent(e)
    BY <1>4
  <2>2. [event[e] EXCEPT !.status = "PENDING", !.attempts = 0, !.disturbed = TRUE] \in Event
    <3>1. 0 \in 0 .. MaxClaims /\ event[e] \in Event
      BY <1>0
    <3> QED
      BY <3>1, RowWritten
  <2>3. event' = [event EXCEPT ![e] =
          [event[e] EXCEPT !.status = "PENDING", !.attempts = 0, !.disturbed = TRUE]]
    BY <2>1 DEF retryEvent, TypeOK
  <2>4. event' \in [Events -> Event] /\ \A f \in Events : event'[f].type = event[f].type
    BY <1>0, <2>2, <2>3 DEF TypeOK, Event
  <2>5. troubles' \in 0 .. MaxTroubles
    <3>1. troubles < MaxTroubles /\ troubles' = troubles + 1
      BY <2>1 DEF retryEvent, Trouble
    <3> QED
      BY <1>0, <3>1
  <2>6. UNCHANGED <<device, receipt, work, reached, unsure>>
    BY <2>1 DEF retryEvent
  <2> QED
    BY <1>0, <2>4, <2>5, <2>6 DEF TypeOK, Growing
<1>5. CASE \E e \in Events : readMessage(e)
  BY <1>0, <1>5 DEF readMessage, TypeOK, Growing
<1>6. CASE \E d \in Devices : unsubscribe(d)
  BY <1>0, <1>6 DEF unsubscribe, TypeOK, Growing
<1> QED
  BY <1>2, <1>3, <1>4, <1>5, <1>6

\* Types are kept by every step, and nothing is taken back.
LEMMA TypeStep ==
  ASSUME TypeOK, \A w \in Workers : WorkerOK(w), Next
  PROVE  TypeOK' /\ Growing
<1>1. CASE \E w \in Workers : WorkerStep(w)
  BY <1>1, ClaimTypes, SendTypes, FailsTypes, FinishTypes DEF WorkerStep
<1>2. CASE \/ \E w \in Workers : Stop(w)
           \/ \E e \in Events : LeaseOver(e) \/ retryEvent(e) \/ readMessage(e)
           \/ \E d \in Devices : unsubscribe(d)
  BY <1>2, AsideTypes
<1> QED
  BY <1>1, <1>2 DEF Next

-----------------------------------------------------------------------------
\* A worker with the same jobs is about the same event.
LEMMA SameJobs ==
  ASSUME NEW w \in Workers, work'[w].jobs = work[w].jobs
  PROVE  /\ Job(w)' = Job(w) /\ Current(w)' = Current(w)
         /\ \A e \in Events : Holds(w, e)' <=> Holds(w, e)
BY DEF Job, Current, Holds

\* The devices that are gone or left do not become fewer while others come to
\* their end.
LEMMA GoneOrLeft ==
  ASSUME device \subseteq Devices, NEW left \in SUBSET Devices, NEW more \in SUBSET Devices,
         NEW fewer \in SUBSET Devices,
         Cardinality((Devices \ device) \cup left) >= Limit,
         (Devices \ device) \cup left \subseteq (Devices \ fewer) \cup more
  PROVE  Cardinality((Devices \ fewer) \cup more) >= Limit
<1>1. PICK old : old = (Devices \ device) \cup left
  OBVIOUS
<1>2. PICK new : new = (Devices \ fewer) \cup more
  OBVIOUS
<1>3. IsFiniteSet(Devices)
  BY BoundsAssumption, FS_Interval DEF Devices
<1>4. IsFiniteSet(new)
  BY <1>2, <1>3, FS_Subset
<1>5. IsFiniteSet(old) /\ Cardinality(old) <= Cardinality(new)
  BY <1>1, <1>2, <1>4, FS_Subset
<1>6. Cardinality(old) \in Nat /\ Cardinality(new) \in Nat /\ Limit \in Nat
  BY <1>4, <1>5, FS_CardinalityType, BoundsAssumption
<1> QED
  BY <1>1, <1>2, <1>5, <1>6

\* What a worker relies on stays true while others go on.
LEMMA WorkerStays ==
  ASSUME TypeOK, TypeOK', Growing, NEW w \in Workers, WorkerOK(w), work'[w] = work[w]
  PROVE  WorkerOK(w)'
<1>0. /\ work[w] \in Work
      /\ \A e \in Events : \A to \in Addressees : reached[e][to] \in Nat /\ reached'[e][to] \in Nat
      /\ device \subseteq Devices
  BY DEF TypeOK
<1>1. Current(w)' = Current(w) /\ Busy(w)' = Busy(w)
  BY SameJobs DEF Busy
<1>2. Busy(w) => Current(w) \in Events
  BY JobIsThere
<1>3. \A type : Tells(w, type)' <=> Tells(w, type)
  BY <1>1, <1>2 DEF Tells, Growing
<1>4. Brought(w)'
  <2>1. CASE ~Busy(w) \/ ~work[w].accepted
    BY <1>1, <2>1 DEF Brought
  <2>2. CASE Busy(w) /\ work[w].accepted
    <3>1. PICK to \in Addressees :
            /\ reached[Current(w)][to] > 0
            /\ event[Current(w)].type = "PUSH" => to \in Devices
      BY <2>2 DEF WorkerOK, Brought
    <3>2. reached'[Current(w)][to] > 0
      BY <1>0, <1>2, <2>2, <3>1 DEF Growing
    <3>3. event'[Current(w)].type = event[Current(w)].type
      BY <1>2, <2>2 DEF Growing
    <3> QED
      BY <1>1, <3>1, <3>2, <3>3 DEF Brought
  <2> QED
    BY <2>1, <2>2
<1>5. Exhausted(w)'
  <2>1. device' \subseteq device /\ work[w].left \in SUBSET Devices
    BY <1>0 DEF Growing, Work
  <2>2. (Devices \ device) \cup work[w].left \subseteq (Devices \ device') \cup work[w].left
    BY <2>1
  <2>3. device' \in SUBSET Devices
    BY <1>0, <2>1
  <2>4. PICK now : now = device'
    OBVIOUS
  <2>5. Cardinality((Devices \ device) \cup work[w].left) >= Limit
        => Cardinality((Devices \ now) \cup work[w].left) >= Limit
    BY <1>0, <2>1, <2>2, <2>3, <2>4, GoneOrLeft
  <2>6. device \subseteq work[w].left => now \subseteq work[w].left
    BY <2>1, <2>4
  <2> QED
    BY <1>3, <2>4, <2>5, <2>6 DEF WorkerOK, Exhausted
<1> QED
  BY <1>1, <1>3, <1>4, <1>5 DEF WorkerOK

\* A worker that begins with some jobs, none of them twice, is in order.
LEMMA WorkerBegins ==
  ASSUME NEW w \in Workers, NEW jobs, work'[w] = Begin(jobs),
         \A j, k \in jobs : j.event = k.event => j = k
  PROVE  WorkerOK(w)'
<1>1. /\ work'[w].jobs = jobs
      /\ work'[w].step = (IF jobs = {} THEN "REST" ELSE "READ")
      /\ work'[w].left = {} /\ work'[w].accepted = FALSE
  BY DEF Begin, AtRest
<1> QED
  BY <1>1 DEF WorkerOK, Busy, Tells, Brought, Exhausted

\* Reading the devices.
LEMMA ReadWorker ==
  ASSUME TypeOK, NEW w \in Workers, WorkerOK(w), read(w)
  PROVE  WorkerOK(w)'
<1>0. /\ work[w].step = "READ" /\ Busy(w) /\ work[w] \in Work
      /\ event' = event /\ device' = device /\ device \subseteq Devices
      /\ work[w].accepted = FALSE /\ work[w].left = {}
  BY DEF read, TypeOK, Busy, WorkerOK, Work
<1>1. PICK e : e = Current(w)
  OBVIOUS
<1>2. CASE event[e].type = "PUSH"
  <2>1. PICK top \in SUBSET device : Newest(top) /\
          work' = [work EXCEPT ![w].step = IF top = {} THEN "FINISH" ELSE "SEND",
                               ![w].left = top]
    BY <1>1, <1>2 DEF read
  <2>2. /\ work'[w].jobs = work[w].jobs /\ work'[w].left = top
        /\ work'[w].step = (IF top = {} THEN "FINISH" ELSE "SEND")
        /\ work'[w].accepted = FALSE
    BY <1>0, <2>1 DEF TypeOK, Work
  <2>3. Current(w)' = e
    BY <1>1, <2>2, SameJobs
  <2>4. \/ device \subseteq top
        \/ Cardinality((Devices \ device) \cup top) >= Limit
    <3>1. CASE top = device
      BY <3>1
    <3>2. CASE Cardinality(top) = Limit
      <4>1. PICK all : all = (Devices \ device) \cup top
        OBVIOUS
      <4>2. IsFiniteSet(Devices)
        BY BoundsAssumption, FS_Interval DEF Devices
      <4>3. IsFiniteSet(all) /\ top \subseteq all
        BY <1>0, <4>1, <4>2, FS_Subset
      <4>4. Cardinality(top) <= Cardinality(all)
        BY <4>3, FS_Subset
      <4>5. Cardinality(all) \in Nat /\ Limit \in Nat
        BY <4>3, FS_CardinalityType, BoundsAssumption
      <4> QED
        BY <3>2, <4>1, <4>4, <4>5
    <3> QED
      BY <2>1, <3>1, <3>2 DEF Newest
  <2>5. event'[e].type = "PUSH" /\ event'[e].type # "SUPPORT"
    BY <1>0, <1>2
  <2>6. Exhausted(w)'
    BY <1>0, <2>2, <2>4 DEF Exhausted
  <2> QED
    BY <1>0, <2>2, <2>3, <2>5, <2>6 DEF WorkerOK, Busy, Tells, Brought
<1>3. CASE event[e].type # "PUSH"
  <2>1. work' = [work EXCEPT ![w].step = "SEND"]
    BY <1>1, <1>3 DEF read
  <2>2. /\ work'[w].jobs = work[w].jobs /\ work'[w].left = {}
        /\ work'[w].step = "SEND" /\ work'[w].accepted = FALSE
    BY <1>0, <2>1 DEF TypeOK, Work
  <2>3. Current(w)' = e /\ event'[e].type # "PUSH"
    BY <1>0, <1>1, <1>3, <2>2, SameJobs
  <2> QED
    BY <1>0, <2>2, <2>3 DEF WorkerOK, Busy, Tells, Brought, Exhausted
<1> QED
  BY <1>2, <1>3

\* Sending to the support's number.
LEMMA SupportWorker ==
  ASSUME TypeOK, NEW w \in Workers, WorkerOK(w), sendToSupport(w)
  PROVE  WorkerOK(w)'
<1>0. /\ work[w].step = "SEND" /\ Busy(w) /\ work[w] \in Work
      /\ event' = event /\ Support \in Addressees
      /\ \A e \in Events : \A to \in Addressees : reached[e][to] \in Nat
  BY DEF sendToSupport, TypeOK, Busy, Addressees
<1>1. PICK e \in Events : e = Current(w)
  BY <1>0, JobIsThere
<1>2. event[e].type = "SUPPORT" /\ event[e].type # "PUSH" /\ work[w].left = {}
  BY <1>0, <1>1 DEF sendToSupport, WorkerOK, Tells
<1>3. CASE Got(Current(w), Support)
           /\ work' = [work EXCEPT ![w].step = "FINISH", ![w].accepted = TRUE]
  <2>1. /\ work'[w].jobs = work[w].jobs /\ work'[w].left = {}
        /\ work'[w].step = "FINISH" /\ work'[w].accepted = TRUE
    BY <1>0, <1>2, <1>3 DEF TypeOK, Work
  <2>2. reached'[e][Support] > 0
    BY <1>0, <1>1, <1>3, GotTypes
  <2>3. Current(w)' = e
    BY <1>1, <2>1, SameJobs
  <2> QED
    BY <1>0, <1>2, <2>1, <2>2, <2>3 DEF WorkerOK, Busy, Tells, Brought, Exhausted
<1>4. CASE /\ \E forGood \in BOOLEAN :
                work' = [work EXCEPT ![w].step = "FINISH", ![w].transient = TRUE,
                                     ![w].dead = forGood]
           /\ UNCHANGED reached
  <2>1. /\ work'[w].jobs = work[w].jobs /\ work'[w].left = {}
        /\ work'[w].step = "FINISH" /\ work'[w].accepted = work[w].accepted
        /\ work'[w].transient = TRUE
    BY <1>0, <1>2, <1>4 DEF TypeOK, Work
  <2>2. Current(w)' = e
    BY <1>1, <2>1, SameJobs
  <2> QED
    BY <1>0, <1>1, <1>2, <1>4, <2>1, <2>2 DEF WorkerOK, Busy, Tells, Brought, Exhausted
<1>5. CASE /\ Got(Current(w), Support)
           /\ work' = [work EXCEPT ![w].step = "FINISH", ![w].transient = TRUE]
  <2>1. /\ work'[w].jobs = work[w].jobs /\ work'[w].left = {}
        /\ work'[w].step = "FINISH" /\ work'[w].accepted = work[w].accepted
        /\ work'[w].transient = TRUE
    BY <1>0, <1>2, <1>5 DEF TypeOK, Work
  <2>2. reached'[e][Support] > 0
    BY <1>0, <1>1, <1>5, GotTypes
  <2>3. Current(w)' = e
    BY <1>1, <2>1, SameJobs
  <2> QED
    BY <1>0, <1>2, <2>1, <2>2, <2>3 DEF WorkerOK, Busy, Tells, Brought, Exhausted
<1> QED
  BY <1>3, <1>4, <1>5 DEF sendToSupport

\* A push to one device: it takes it, it is gone, it refuses it for now, or it
\* takes it and the answer is lost.
Pushed(w, d) ==
  /\ d \in work[w].left /\ d \in Devices
  /\ work'[w].jobs = work[w].jobs /\ work'[w].left = work[w].left \ {d}
  /\ work'[w].step = (IF work[w].left = {d} THEN "RECEIPT" ELSE "SEND")
  /\ \/ /\ Got(Current(w), d) /\ unsure' = unsure /\ device' = device
        /\ work'[w].accepted = TRUE
     \/ /\ reached' = reached /\ unsure' = unsure /\ device' = device \ {d}
        /\ work'[w].accepted = work[w].accepted
        /\ work'[w].transient = work[w].transient
     \/ /\ \/ reached' = reached /\ unsure' = unsure
           \/ Got(Current(w), d) /\ Unsure(Current(w), d)
        /\ device' = device
        /\ work'[w].accepted = work[w].accepted
        /\ work'[w].transient = TRUE

\* A push is one of these for the first of the devices that are left.
LEMMA PushFields ==
  ASSUME TypeOK, NEW w \in Workers, WorkerOK(w), push(w)
  PROVE  \E d \in Devices : Pushed(w, d)
<1>0. /\ work[w].step = "SEND" /\ work[w] \in Work /\ work \in [Workers -> Work]
      /\ event[Current(w)].type = "PUSH"
  BY DEF push, TypeOK
<1>1. work[w].left # {} /\ work[w].left \subseteq Devices
  BY <1>0 DEF WorkerOK, Tells, Busy, Work
<1>2. PICK d : d = Min(work[w].left)
  OBVIOUS
<1>3. d \in work[w].left /\ d \in Devices
  BY <1>1, <1>2, FirstDevice
<1>4. PICK sent : sent = [work[w] EXCEPT
         !.left = @ \ {d},
         !.step = IF work[w].left = {d} THEN "RECEIPT" ELSE "SEND"]
  OBVIOUS
<1>5. /\ sent.jobs = work[w].jobs /\ sent.left = work[w].left \ {d}
      /\ sent.step = (IF work[w].left = {d} THEN "RECEIPT" ELSE "SEND")
      /\ sent.accepted = work[w].accepted /\ sent.transient = work[w].transient
      /\ sent \in Work
  BY <1>0, <1>3, <1>4 DEF Work
<1>6. \/ /\ Got(Current(w), d) /\ unsure' = unsure /\ device' = device
         /\ \/ work' = [work EXCEPT ![w] = [sent EXCEPT !.accepted = TRUE]]
            \/ work' = [work EXCEPT ![w] = [sent EXCEPT !.accepted = TRUE,
                                                        !.transient = TRUE]]
      \/ /\ device' = device \ {d} /\ reached' = reached /\ unsure' = unsure
         /\ work' = [work EXCEPT ![w] = sent]
      \/ /\ work' = [work EXCEPT ![w] = [sent EXCEPT !.transient = TRUE]]
         /\ device' = device
         /\ \/ reached' = reached /\ unsure' = unsure
            \/ Got(Current(w), d) /\ Unsure(Current(w), d)
  BY <1>2, <1>4 DEF push
<1>7. CASE /\ Got(Current(w), d) /\ unsure' = unsure /\ device' = device
           /\ \/ work' = [work EXCEPT ![w] = [sent EXCEPT !.accepted = TRUE]]
              \/ work' = [work EXCEPT ![w] = [sent EXCEPT !.accepted = TRUE,
                                                          !.transient = TRUE]]
  <2>1. \/ work'[w] = [sent EXCEPT !.accepted = TRUE]
        \/ work'[w] = [sent EXCEPT !.accepted = TRUE, !.transient = TRUE]
    BY <1>0, <1>7
  <2>2. /\ work'[w].jobs = sent.jobs /\ work'[w].left = sent.left
        /\ work'[w].step = sent.step /\ work'[w].accepted = TRUE
    BY <1>5, <2>1 DEF Work
  <2> QED
    BY <1>3, <1>5, <1>7, <2>2 DEF Pushed
<1>8. CASE /\ device' = device \ {d} /\ reached' = reached /\ unsure' = unsure
           /\ work' = [work EXCEPT ![w] = sent]
  <2>1. work'[w] = sent
    BY <1>0, <1>8
  <2> QED
    BY <1>3, <1>5, <1>8, <2>1 DEF Pushed
<1>9. CASE /\ work' = [work EXCEPT ![w] = [sent EXCEPT !.transient = TRUE]]
           /\ device' = device
           /\ \/ reached' = reached /\ unsure' = unsure
              \/ Got(Current(w), d) /\ Unsure(Current(w), d)
  <2>1. work'[w] = [sent EXCEPT !.transient = TRUE]
    BY <1>0, <1>9
  <2>2. /\ work'[w].jobs = sent.jobs /\ work'[w].left = sent.left
        /\ work'[w].step = sent.step /\ work'[w].accepted = sent.accepted
        /\ work'[w].transient = TRUE
    BY <1>5, <2>1 DEF Work
  <2> QED
    BY <1>3, <1>5, <1>9, <2>2 DEF Pushed
<1> QED
  BY <1>6, <1>7, <1>8, <1>9

\* Sending to a device.
LEMMA PushWorker ==
  ASSUME TypeOK, NEW w \in Workers, WorkerOK(w), push(w)
  PROVE  WorkerOK(w)'
<1>0. /\ work[w].step = "SEND" /\ Busy(w) /\ work[w] \in Work
      /\ event' = event /\ device \subseteq Devices /\ Devices \subseteq Addressees
      /\ \A e \in Events : \A to \in Addressees : reached[e][to] \in Nat
  BY DEF push, TypeOK, Busy, Addressees
<1>1. PICK e \in Events : e = Current(w)
  BY <1>0, JobIsThere
<1>2. event[e].type = "PUSH" /\ event[e].type # "SUPPORT" /\ Tells(w, "PUSH")
  BY <1>0, <1>1 DEF push, Tells
<1>3. PICK d \in Devices : Pushed(w, d)
  BY PushFields
<1>4. Current(w)' = e /\ work[w].left \in SUBSET Devices
  BY <1>0, <1>1, <1>3, SameJobs DEF Pushed, Work
<1>5. Busy(w)' /\ Tells(w, "PUSH")' /\ ~Tells(w, "SUPPORT")'
  BY <1>0, <1>2, <1>3, <1>4 DEF Pushed, Busy, Tells
<1>6. Brought(w)'
  <2>1. CASE Got(Current(w), d)
    <3>1. reached'[e][d] > 0
      BY <1>0, <1>1, <1>3, <2>1, GotTypes
    <3> QED
      BY <1>0, <1>3, <1>4, <3>1 DEF Brought
  <2>2. CASE reached' = reached /\ work'[w].accepted = work[w].accepted
    BY <1>0, <1>1, <1>4, <2>2 DEF Brought, WorkerOK
  <2> QED
    BY <1>3, <2>1, <2>2 DEF Pushed
<1>7. Exhausted(w)'
  <2>1. PICK gone : gone = device'
    OBVIOUS
  <2>2. SUFFICES ASSUME ~work'[w].accepted, ~work'[w].transient
                 PROVE  \/ gone \subseteq work'[w].left
                        \/ Cardinality((Devices \ gone) \cup work'[w].left) >= Limit
    BY <2>1 DEF Exhausted
  <2>3. /\ gone = device \ {d} /\ ~work[w].accepted /\ ~work[w].transient
        /\ work'[w].left = work[w].left \ {d} /\ d \in work[w].left
    BY <1>3, <2>1, <2>2 DEF Pushed
  <2>4. PICK left : left = work[w].left \ {d}
    OBVIOUS
  <2>5. \/ device \subseteq work[w].left
        \/ Cardinality((Devices \ device) \cup work[w].left) >= Limit
    BY <1>0, <1>2, <2>3 DEF WorkerOK, Exhausted
  <2>6. (Devices \ device) \cup work[w].left \subseteq (Devices \ gone) \cup left
    BY <1>0, <1>4, <2>3, <2>4
  <2>7. CASE device \subseteq work[w].left
    BY <2>3, <2>7
  <2>8. CASE Cardinality((Devices \ device) \cup work[w].left) >= Limit
    <3>1. gone \in SUBSET Devices /\ left \in SUBSET Devices
      BY <1>0, <1>4, <2>3, <2>4
    <3>2. Cardinality((Devices \ gone) \cup left) >= Limit
      BY <1>0, <1>4, <2>6, <2>8, <3>1, GoneOrLeft
    <3> QED
      BY <2>3, <2>4, <3>2
  <2> QED
    BY <2>5, <2>7, <2>8
<1>8. work'[w].step = "SEND" => work'[w].left # {}
  BY <1>3 DEF Pushed
<1>9. work'[w].step = "RECEIPT" => work'[w].left = {}
  BY <1>3 DEF Pushed
<1>10. work'[w].step \in {"SEND", "RECEIPT"} /\ work'[w].jobs = work[w].jobs
  BY <1>3 DEF Pushed
<1> QED
  BY <1>0, <1>5, <1>6, <1>7, <1>8, <1>9, <1>10 DEF WorkerOK, Busy

\* Marking the message as delivered.
LEMMA ReceiptWorker ==
  ASSUME TypeOK, NEW w \in Workers, WorkerOK(w), markReceipt(w)
  PROVE  WorkerOK(w)'
<1>0. /\ work[w].step = "RECEIPT" /\ Busy(w) /\ work[w] \in Work
      /\ event' = event /\ device' = device /\ reached' = reached
      /\ work' = [work EXCEPT ![w].step = "FINISH"]
  BY DEF markReceipt, TypeOK, Busy
<1>1. PICK e \in Events : e = Current(w)
  BY <1>0, JobIsThere
<1>2. event[e].type = "PUSH" /\ event[e].type # "SUPPORT" /\ Tells(w, "PUSH") /\ work[w].left = {}
  BY <1>0, <1>1 DEF WorkerOK, Tells
<1>3. /\ work'[w].jobs = work[w].jobs /\ work'[w].left = {}
      /\ work'[w].step = "FINISH" /\ work'[w].accepted = work[w].accepted
      /\ work'[w].transient = work[w].transient
  BY <1>0, <1>2 DEF TypeOK, Work
<1>4. Current(w)' = e
  BY <1>1, <1>3, SameJobs
<1>5. Brought(w)' /\ Exhausted(w)'
  BY <1>0, <1>1, <1>2, <1>3, <1>4 DEF WorkerOK, Brought, Exhausted, Busy, Tells
<1> QED
  BY <1>0, <1>2, <1>3, <1>4, <1>5 DEF WorkerOK, Busy, Tells

\* A result that is not recorded.
LEMMA FailsWorker ==
  ASSUME TypeOK, NEW w \in Workers, WorkerOK(w), finishFails(w)
  PROVE  WorkerOK(w)'
<1>0. /\ work[w].step = "FINISH" /\ Busy(w) /\ work[w] \in Work /\ event' = event
      /\ event[Current(w)].type = "SUPPORT" /\ work[w].left = {}
      /\ work' = [work EXCEPT ![w].accepted = FALSE, ![w].transient = TRUE]
  BY DEF finishFails, TypeOK, Busy, WorkerOK
<1>1. /\ work'[w].jobs = work[w].jobs /\ work'[w].left = {}
      /\ work'[w].step = "FINISH" /\ work'[w].accepted = FALSE
      /\ work'[w].transient = TRUE
  BY <1>0 DEF TypeOK, Work
<1>2. Current(w)' = Current(w)
  BY <1>1, SameJobs
<1> QED
  BY <1>0, <1>1, <1>2 DEF WorkerOK, Busy, Tells, Brought, Exhausted

\* A worker is in order after each of its steps.
LEMMA WorkerMoves ==
  ASSUME TypeOK, NEW w \in Workers, WorkerOK(w), WorkerStep(w) \/ Stop(w)
  PROVE  WorkerOK(w)'
<1>1. CASE \E type \in {"SUPPORT", "PUSH"} : \E limit : claim(w, type, limit)
  <2>1. PICK taken \in SUBSET Events :
          work' = [work EXCEPT ![w] = Begin(
            {[event |-> e, attempts |-> event[e].attempts + 1] : e \in taken})]
    BY <1>1 DEF claim, Due
  <2>2. PICK jobs :
          jobs = {[event |-> e, attempts |-> event[e].attempts + 1] : e \in taken}
    OBVIOUS
  <2>3. \A j, k \in jobs : j.event = k.event => j = k
    BY <2>2
  <2>4. work'[w] = Begin(jobs)
    BY <2>1, <2>2 DEF TypeOK
  <2> QED
    BY <2>3, <2>4, WorkerBegins
<1>2. CASE finish(w)
  <2>1. PICK jobs : jobs = work[w].jobs \ {Job(w)}
    OBVIOUS
  <2>2. work'[w] = Begin(jobs)
    BY <1>2, <2>1 DEF finish, TypeOK
  <2>3. \A j, k \in jobs : j.event = k.event => j = k
    BY <2>1 DEF WorkerOK
  <2> QED
    BY <2>2, <2>3, WorkerBegins
<1>3. CASE Stop(w)
  <2>1. work'[w] = AtRest
    BY <1>3 DEF Stop, TypeOK
  <2> QED
    BY <2>1 DEF AtRest, WorkerOK, Busy, Tells, Brought, Exhausted
<1> QED
  BY <1>1, <1>2, <1>3, ReadWorker, SupportWorker, PushWorker, ReceiptWorker, FailsWorker
  DEF WorkerStep

-----------------------------------------------------------------------------
\* A delivery that is on record stays justified, and only a result adds one.
LEMMA RecordStays ==
  ASSUME TypeOK, TypeOK', Growing, NobodyForgotten, NEW e \in Events,
         event'[e].status = "DELIVERED" => event[e].status = "DELIVERED"
  PROVE  event'[e].status = "DELIVERED" =>
           \/ \E to \in Addressees : reached'[e][to] > 0
           \/ /\ event'[e].type = "PUSH"
              /\ device' = {} \/ Cardinality(Devices \ device') >= Limit
<1>0. /\ \A to \in Addressees : reached[e][to] \in Nat /\ reached'[e][to] \in Nat
      /\ device \subseteq Devices /\ device' \subseteq device
      /\ event'[e].type = event[e].type
      /\ \A to \in Addressees : reached'[e][to] >= reached[e][to]
  BY DEF TypeOK, Growing
<1>1. SUFFICES ASSUME event[e].status = "DELIVERED"
               PROVE  \/ \E to \in Addressees : reached'[e][to] > 0
                      \/ /\ event'[e].type = "PUSH"
                         /\ device' = {} \/ Cardinality(Devices \ device') >= Limit
  OBVIOUS
<1>2. CASE \E to \in Addressees : reached[e][to] > 0
  BY <1>0, <1>2
<1>3. CASE /\ event[e].type = "PUSH"
           /\ device = {} \/ Cardinality(Devices \ device) >= Limit
  <2>1. CASE device = {}
    BY <1>0, <1>3, <2>1
  <2>2. CASE Cardinality(Devices \ device) >= Limit
    <3>1. PICK now : now = device'
      OBVIOUS
    <3>2. now \in SUBSET Devices /\ {} \in SUBSET Devices
      BY <1>0, <3>1
    <3>3. (Devices \ device) \cup {} = Devices \ device /\ (Devices \ now) \cup {} = Devices \ now
      OBVIOUS
    <3>4. Cardinality((Devices \ now) \cup {}) >= Limit
      BY <1>0, <2>2, <3>1, <3>2, <3>3, GoneOrLeft
    <3> QED
      BY <1>0, <1>3, <3>1, <3>3, <3>4
  <2> QED
    BY <1>3, <2>1, <2>2
<1> QED
  BY <1>1, <1>2, <1>3 DEF NobodyForgotten

\* The result of an attempt says delivered only if somebody got the event or
\* the push had nobody to go to.
LEMMA FinishIsTrue ==
  ASSUME TypeOK, TypeOK', Growing, NobodyForgotten, NEW w \in Workers, WorkerOK(w), finish(w)
  PROVE  NobodyForgotten'
<1>0. /\ work[w].step = "FINISH" /\ Busy(w) /\ work[w].left = {}
      /\ device' = device /\ reached' = reached /\ device \subseteq Devices
  BY DEF finish, Busy, WorkerOK, TypeOK
<1>1. PICK e \in Events : e = Current(w)
  BY <1>0, JobIsThere
<1>2. event[e].type \in {"SUPPORT", "PUSH"} /\ event'[e].type = event[e].type
  BY DEF TypeOK, Event, Growing
<1>3. ASSUME event'[e].status = "DELIVERED", event[e].status # "DELIVERED"
      PROVE  \/ \E to \in Addressees : reached'[e][to] > 0
             \/ /\ event'[e].type = "PUSH"
                /\ device' = {} \/ Cardinality(Devices \ device') >= Limit
  <2>1. Outcome(w) = "DELIVERED"
    BY <1>1, <1>3 DEF finish, TypeOK, Event
  <2>2. CASE work[w].accepted
    BY <1>0, <1>1, <2>2 DEF WorkerOK, Brought
  <2>3. CASE ~work[w].accepted
    <3>1. ~work[w].transient
      BY <2>1, <2>3 DEF Outcome
    <3>2. event[e].type = "PUSH" /\ Tells(w, "PUSH")
      BY <1>0, <1>1, <1>2, <2>3, <3>1 DEF WorkerOK, Tells
    <3>3. \/ device \subseteq {}
          \/ Cardinality((Devices \ device) \cup {}) >= Limit
      BY <1>0, <2>3, <3>1, <3>2 DEF WorkerOK, Exhausted
    <3>4. (Devices \ device) \cup {} = Devices \ device
      OBVIOUS
    <3> QED
      BY <1>0, <1>2, <3>2, <3>3, <3>4
  <2> QED
    BY <2>2, <2>3
<1>4. ASSUME NEW f \in Events, f # e
      PROVE  event'[f].status = event[f].status
  BY <1>1, <1>4 DEF finish, TypeOK
<1>5. \A f \in Events : event'[f].status = "DELIVERED" =>
           \/ \E to \in Addressees : reached'[f][to] > 0
           \/ /\ event'[f].type = "PUSH"
              /\ device' = {} \/ Cardinality(Devices \ device') >= Limit
  BY <1>3, <1>4, RecordStays
<1> QED
  BY <1>5 DEF NobodyForgotten

\* Nothing else than a result puts a delivery on record.
LEMMA OnlyResultsDeliver ==
  ASSUME TypeOK, Next, NEW e \in Events,
         event[e].status # "DELIVERED", event'[e].status = "DELIVERED"
  PROVE  \E w \in Workers : finish(w)
<1>0. \A f \in Events : event[f] \in Event
  BY DEF TypeOK
<1>1. ASSUME NEW w \in Workers, NEW type, NEW limit, claim(w, type, limit)
      PROVE  FALSE
  <2>1. event'[e] = event[e] \/ event'[e] = [event[e] EXCEPT
          !.status = "PROCESSING", !.lapsed = FALSE, !.attempts = @ + 1]
    BY <1>1 DEF claim
  <2> QED
    BY <1>0, <2>1 DEF Event
<1>2. ASSUME NEW w \in Workers,
             \/ read(w) \/ sendToSupport(w) \/ push(w) \/ markReceipt(w)
             \/ finishFails(w) \/ Stop(w)
      PROVE  FALSE
  BY <1>2 DEF read, sendToSupport, push, markReceipt, finishFails, Stop
<1>3. ASSUME NEW f \in Events, LeaseOver(f) \/ retryEvent(f) \/ readMessage(f)
      PROVE  FALSE
  <2>1. CASE LeaseOver(f)
    BY <1>0, <2>1 DEF LeaseOver, TypeOK, Event
  <2>2. CASE retryEvent(f)
    <3>1. event' = [event EXCEPT ![f].status = "PENDING", ![f].attempts = 0,
                                 ![f].disturbed = TRUE]
      BY <2>2 DEF retryEvent
    <3>2. event'[e].status \in {event[e].status, "PENDING"}
      BY <1>0, <3>1 DEF TypeOK, Event
    <3> QED
      BY <3>2
  <2>3. CASE readMessage(f)
    BY <2>3 DEF readMessage
  <2> QED
    BY <1>3, <2>1, <2>2, <2>3
<1>4. ASSUME NEW d \in Devices, unsubscribe(d)
      PROVE  FALSE
  BY <1>4 DEF unsubscribe
<1> QED
  BY <1>1, <1>2, <1>3, <1>4 DEF Next, WorkerStep

\* Only a worker whose push reached a device marks a message as delivered.
LEMMA OnlyReceiptsTick ==
  ASSUME TypeOK, Next, NEW e \in Events,
         receipt[e] # "DELIVERED", receipt'[e] = "DELIVERED"
  PROVE  \E w \in Workers : markReceipt(w) /\ work[w].accepted /\ Current(w) = e
<1>1. ASSUME NEW w \in Workers, NEW type, NEW limit, claim(w, type, limit)
      PROVE  FALSE
  BY <1>1 DEF claim
<1>2. ASSUME NEW w \in Workers,
             \/ read(w) \/ sendToSupport(w) \/ push(w) \/ finishFails(w)
             \/ finish(w) \/ Stop(w)
      PROVE  FALSE
  BY <1>2 DEF read, sendToSupport, push, finishFails, finish, Stop
<1>3. ASSUME NEW f \in Events, LeaseOver(f) \/ retryEvent(f) \/ readMessage(f)
      PROVE  FALSE
  BY <1>3 DEF LeaseOver, retryEvent, readMessage, TypeOK
<1>4. ASSUME NEW d \in Devices, unsubscribe(d)
      PROVE  FALSE
  BY <1>4 DEF unsubscribe
<1>5. ASSUME NEW w \in Workers, markReceipt(w)
      PROVE  work[w].accepted /\ Current(w) = e
  BY <1>5 DEF markReceipt, Ticks, TypeOK
<1> QED
  BY <1>1, <1>2, <1>3, <1>4, <1>5 DEF Next, WorkerStep

\* Neither the rows nor the second tick claim what did not happen.
LEMMA DeliveryStep ==
  ASSUME DeliveryInv, \A w \in Workers : WorkerOK(w), TypeOK', Growing, Next
  PROVE  DeliveryInv'
<1>0. TypeOK /\ NobodyForgotten /\ TickIsTrue
  BY DEF DeliveryInv
<1>1. NobodyForgotten'
  <2>1. CASE \E w \in Workers : finish(w)
    BY <1>0, <2>1, FinishIsTrue
  <2>2. CASE ~\E w \in Workers : finish(w)
    <3>1. \A e \in Events : event'[e].status = "DELIVERED" => event[e].status = "DELIVERED"
      BY <1>0, <2>2, OnlyResultsDeliver
    <3>2. \A e \in Events : event'[e].status = "DELIVERED" =>
             \/ \E to \in Addressees : reached'[e][to] > 0
             \/ /\ event'[e].type = "PUSH"
                /\ device' = {} \/ Cardinality(Devices \ device') >= Limit
      BY <1>0, <3>1, RecordStays
    <3> QED
      BY <3>2 DEF NobodyForgotten
  <2> QED
    BY <2>1, <2>2
<1>2. TickIsTrue'
  <2>1. SUFFICES ASSUME NEW e \in Events, receipt'[e] = "DELIVERED"
                 PROVE  \E d \in Devices : reached'[e][d] > 0
    BY DEF TickIsTrue
  <2>2. \E d \in Devices : reached[e][d] > 0
    <3>1. CASE receipt[e] = "DELIVERED"
      BY <1>0, <3>1 DEF TickIsTrue
    <3>2. CASE receipt[e] # "DELIVERED"
      <4>1. PICK w \in Workers : markReceipt(w) /\ work[w].accepted /\ Current(w) = e
        BY <1>0, <2>1, <3>2, OnlyReceiptsTick
      <4>2. Busy(w) /\ event[e].type = "PUSH"
        BY <4>1 DEF markReceipt, Busy, WorkerOK, Tells
      <4> QED
        BY <4>1, <4>2 DEF WorkerOK, Brought
    <3> QED
      BY <3>1, <3>2
  <2>3. \A d \in Devices : reached'[e][d] >= reached[e][d]
                           /\ reached[e][d] \in Nat /\ reached'[e][d] \in Nat
    BY <1>0 DEF Growing, Addressees, TypeOK
  <2> QED
    BY <2>2, <2>3
<1> QED
  BY <1>1, <1>2 DEF DeliveryInv

-----------------------------------------------------------------------------
\* An event stays calm while nothing happens to its row and nobody gets it,
\* if those who hold it have held it and know what they sent.
LEMMA CalmStays ==
  ASSUME NEW e \in Events, Calm(e), event'[e] = event[e],
         \A to \in Addressees :
           reached'[e][to] = reached[e][to] /\ unsure'[e][to] = unsure[e][to],
         \A v \in Workers : Holds(v, e)' =>
           /\ Holds(v, e)
           /\ \A to \in Addressees : Sent(v, e, to) => Sent(v, e, to)'
  PROVE  Calm(e)'
BY DEF Calm

\* A worker that does not move knows what it sent.
LEMMA SentStays ==
  ASSUME NEW e \in Events, event'[e].type = event[e].type,
         NEW v \in Workers, work'[v] = work[v]
  PROVE  /\ Holds(v, e)' <=> Holds(v, e)
         /\ \A to \in Addressees : Sent(v, e, to) <=> Sent(v, e, to)'
BY SameJobs DEF Sent

\* A claim takes a calm event only when nobody holds it and nobody got it.
LEMMA ClaimCalm ==
  ASSUME TypeOK, NEW w \in Workers, NEW type, NEW limit, claim(w, type, limit),
         NEW e \in Events, Calm(e)
  PROVE  Calm(e)'
<1>1. PICK taken \in SUBSET Due(type) :
         /\ event' = [f \in Events |->
              IF f \in taken
              THEN [event[f] EXCEPT !.status = "PROCESSING", !.lapsed = FALSE,
                                    !.attempts = @ + 1]
              ELSE event[f]]
         /\ work' = [work EXCEPT ![w] = Begin(
              {[event |-> f, attempts |-> event[f].attempts + 1] : f \in taken})]
  BY DEF claim
<1>2. /\ reached' = reached /\ unsure' = unsure
      /\ event[e] \in Event /\ event'[e].type = event[e].type
  <2>1. reached' = reached /\ unsure' = unsure /\ event[e] \in Event
    BY DEF claim, TypeOK
  <2>2. \/ event'[e] = event[e]
        \/ event'[e] = [event[e] EXCEPT !.status = "PROCESSING", !.lapsed = FALSE,
                                        !.attempts = @ + 1]
    BY <1>1
  <2> QED
    BY <2>1, <2>2 DEF Event
<1>3. PICK jobs : jobs = {[event |-> f, attempts |-> event[f].attempts + 1] : f \in taken}
  OBVIOUS
<1>4. work'[w].jobs = jobs
  BY <1>1, <1>3 DEF Begin, AtRest, TypeOK
<1>5. Holds(w, e)' <=> e \in taken
  <2>1. \A j \in jobs : j.event \in taken
    BY <1>3
  <2>2. ASSUME e \in taken
        PROVE  \E j \in jobs : j.event = e
    <3>1. PICK j : j = [event |-> e, attempts |-> event[e].attempts + 1]
      OBVIOUS
    <3>2. j \in jobs /\ j.event = e
      BY <1>3, <2>2, <3>1
    <3> QED
      BY <3>2
  <2> QED
    BY <1>4, <2>1, <2>2 DEF Holds
<1>6. \A v \in Workers \ {w} : work'[v] = work[v]
  BY <1>1 DEF TypeOK
<1>7. \A v \in Workers \ {w} :
        /\ Holds(v, e)' <=> Holds(v, e)
        /\ \A to \in Addressees : Sent(v, e, to) <=> Sent(v, e, to)'
  BY <1>2, <1>6, SentStays
<1>8. CASE e \notin taken
  BY <1>1, <1>2, <1>5, <1>7, <1>8, CalmStays
<1>9. CASE e \in taken
  <2>1. event[e].status \in {"PENDING", "RETRY"}
    BY <1>9 DEF Due, Claimable, Calm
  <2>2. /\ \A v \in Workers : ~Holds(v, e)
        /\ \A to \in Addressees : /\ reached[e][to] <= unsure[e][to]
                                 /\ reached[e][to] \in Nat /\ unsure[e][to] \in Nat
    BY <2>1 DEF Calm, TypeOK
  <2>3. event'[e].status = "PROCESSING" /\ event'[e].lapsed = FALSE
    BY <1>1, <1>2, <1>9 DEF Event
  <2>4. \A v \in Workers : Holds(v, e)' => v = w
    BY <1>7, <2>2
  <2>5. \A to \in Addressees : /\ reached'[e][to] <= unsure'[e][to]
                              /\ reached'[e][to] <= 1 + unsure'[e][to]
                              /\ ~(reached'[e][to] > unsure'[e][to])
    BY <1>2, <2>2
  <2> QED
    BY <2>3, <2>4, <2>5 DEF Calm
<1> QED
  BY <1>8, <1>9

\* A worker at its step only knows more of what it sent, as long as it sends
\* nothing new.
LEMMA QuietCalm ==
  ASSUME NEW w \in Workers, NEW e \in Events, Calm(e), event' = event,
         \A to \in Addressees :
           reached'[e][to] = reached[e][to] /\ unsure'[e][to] = unsure[e][to],
         \A v \in Workers \ {w} : work'[v] = work[v],
         Holds(w, e)' => Holds(w, e) /\ \A to \in Addressees : Sent(w, e, to) => Sent(w, e, to)'
  PROVE  Calm(e)'
<1>1. \A v \in Workers : Holds(v, e)' =>
        /\ Holds(v, e)
        /\ \A to \in Addressees : Sent(v, e, to) => Sent(v, e, to)'
  BY SentStays
<1> QED
  BY <1>1, CalmStays

\* Sending brings a calm event to nobody a second time for nothing.
LEMMA GotCalm ==
  ASSUME TypeOK, NEW w \in Workers, WorkerOK(w), Busy(w),
         NEW e \in Events, e = Current(w), Calm(e), event' = event,
         NEW to \in Addressees, Got(e, to), unsure' = unsure,
         \A v \in Workers \ {w} : work'[v] = work[v],
         work'[w].jobs = work[w].jobs,
         ~Sent(w, e, to),
         Sent(w, e, to)',
         \A at \in Addressees : Sent(w, e, at) => Sent(w, e, at)'
  PROVE  Calm(e)'
<1>1. Holds(w, e) /\ Holds(w, e)'
  BY JobIsThere, SameJobs
<1>2. \A v \in Workers : Holds(v, e) => v = w
  BY <1>1 DEF Calm
<1>3. \A v \in Workers : Holds(v, e)' => v = w
  BY <1>2, SentStays
<1>4. event[e].status \notin {"PENDING", "RETRY"} /\ event[e].status = "PROCESSING"
  BY <1>1 DEF Calm
<1>5. /\ reached[e][to] <= unsure[e][to] /\ reached'[e][to] = reached[e][to] + 1
      /\ reached[e][to] \in Nat /\ unsure[e][to] \in Nat
  <2>1. /\ reached[e][to] \in Nat /\ unsure[e][to] \in Nat
        /\ ~(reached[e][to] > unsure[e][to])
    BY <1>1 DEF Calm, TypeOK
  <2> QED
    BY <2>1, GotTypes
<1>6. \A at \in Addressees : at # to => reached'[e][at] = reached[e][at]
  BY GotTypes
<1>7. ASSUME NEW at \in Addressees
      PROVE  /\ reached'[e][at] <= 1 + unsure'[e][at]
             /\ \A v \in Workers :
                  Holds(v, e)' /\ reached'[e][at] > unsure'[e][at] => Sent(v, e, at)'
  <2>1. CASE at = to
    BY <1>3, <1>5, <2>1
  <2>2. CASE at # to
    BY <1>1, <1>3, <1>6, <2>2 DEF Calm
  <2> QED
    BY <2>1, <2>2
<1> QED
  BY <1>3, <1>4, <1>7 DEF Calm

\* A delivery that becomes uncertain leaves a calm event where it is: one that
\* was known is known no longer, one that was not is not known either.
LEMMA LostCalm ==
  ASSUME TypeOK, NEW w \in Workers, WorkerOK(w), Busy(w),
         NEW e \in Events, e = Current(w), Calm(e), event' = event,
         NEW to \in Addressees, Unsure(e, to),
         \/ Got(e, to) /\ ~Sent(w, e, to)
         \/ reached' = reached,
         \A v \in Workers \ {w} : work'[v] = work[v],
         work'[w].jobs = work[w].jobs,
         \A at \in Addressees \ {to} : Sent(w, e, at) => Sent(w, e, at)'
  PROVE  Calm(e)'
<1>1. Holds(w, e) /\ Holds(w, e)'
  BY JobIsThere, SameJobs
<1>2. \A v \in Workers : Holds(v, e) => v = w
  BY <1>1 DEF Calm
<1>3. \A v \in Workers : Holds(v, e)' => v = w
  BY <1>2, SentStays
<1>4. event[e].status \notin {"PENDING", "RETRY"} /\ event[e].status = "PROCESSING"
  BY <1>1 DEF Calm
<1>5. reached[e][to] \in Nat /\ unsure[e][to] \in Nat
  BY DEF TypeOK
<1>6. reached'[e][to] <= unsure'[e][to] /\ unsure'[e][to] \in Nat
  <2>1. unsure'[e][to] = unsure[e][to] + 1
    BY UnsureTypes
  <2>2. CASE Got(e, to) /\ ~Sent(w, e, to)
    <3>1. ~(reached[e][to] > unsure[e][to])
      BY <1>1, <2>2 DEF Calm
    <3>2. reached'[e][to] = reached[e][to] + 1
      BY <2>2, GotTypes
    <3> QED
      BY <1>5, <2>1, <3>1, <3>2
  <2>3. CASE reached' = reached
    <3>1. reached[e][to] <= 1 + unsure[e][to]
      BY DEF Calm
    <3> QED
      BY <1>5, <2>1, <2>3, <3>1
  <2> QED
    BY <2>2, <2>3
<1>7. \A at \in Addressees :
        at # to => reached'[e][at] = reached[e][at] /\ unsure'[e][at] = unsure[e][at]
  BY GotTypes, UnsureTypes
<1>8. reached'[e][to] \in Nat
  BY <1>5, GotTypes
<1>9. ASSUME NEW at \in Addressees
      PROVE  /\ reached'[e][at] <= 1 + unsure'[e][at]
             /\ \A v \in Workers :
                  Holds(v, e)' /\ reached'[e][at] > unsure'[e][at] => Sent(v, e, at)'
  <2>1. CASE at = to
    BY <1>6, <1>8, <2>1
  <2>2. CASE at # to
    BY <1>1, <1>3, <1>7, <2>2 DEF Calm
  <2> QED
    BY <2>1, <2>2
<1> QED
  BY <1>3, <1>4, <1>9 DEF Calm

\* Others than the event under way are not touched by a sending.
LEMMA OthersCalm ==
  ASSUME TypeOK, NEW w \in Workers, NEW e \in Events, e # Current(w), Calm(e), event' = event,
         \A to \in Addressees :
           reached'[e][to] = reached[e][to] /\ unsure'[e][to] = unsure[e][to],
         \A v \in Workers \ {w} : work'[v] = work[v],
         work'[w].jobs = work[w].jobs
  PROVE  Calm(e)'
<1>1. Holds(w, e)' <=> Holds(w, e)
  BY SameJobs
<1>2. \A to \in Addressees : ~Sent(w, e, to)
  BY DEF Sent
<1> QED
  BY <1>1, <1>2, QuietCalm

\* Calm events stay calm in a worker's sending.
LEMMA SendCalm ==
  ASSUME TypeOK, NEW w \in Workers, WorkerOK(w), NEW e \in Events, Calm(e),
         read(w) \/ sendToSupport(w) \/ push(w) \/ markReceipt(w)
  PROVE  Calm(e)'
<1>0. /\ event' = event /\ Busy(w) /\ work[w] \in Work
      /\ Support \in Addressees /\ Devices \subseteq Addressees
      /\ \A v \in Workers \ {w} : work'[v] = work[v]
  BY DEF read, sendToSupport, push, markReceipt, Busy, TypeOK, Addressees
<1>1. PICK c \in Events : c = Current(w)
  BY <1>0, JobIsThere
<1>2. CASE read(w)
  <2>1. \A to \in Addressees : ~Sent(w, e, to)
    BY <1>2 DEF read, WorkerOK, Sent
  <2>2. work'[w].jobs = work[w].jobs /\ reached' = reached /\ unsure' = unsure
    BY <1>0, <1>2 DEF read, TypeOK, Work
  <2>3. Holds(w, e)' <=> Holds(w, e)
    BY <2>2, SameJobs
  <2> QED
    BY <1>0, <2>1, <2>2, <2>3, QuietCalm
<1>3. CASE markReceipt(w)
  <2>1. work[w].step = "RECEIPT" /\ work' = [work EXCEPT ![w].step = "FINISH"]
        /\ reached' = reached /\ unsure' = unsure
    BY <1>3 DEF markReceipt
  <2>2. work'[w].jobs = work[w].jobs /\ work'[w].step = "FINISH"
        /\ work'[w].accepted = work[w].accepted
    BY <1>0, <2>1 DEF TypeOK, Work
  <2>3. Holds(w, e)' <=> Holds(w, e)
    BY <2>2, SameJobs
  <2>4. \A to \in Addressees : Sent(w, e, to) => Sent(w, e, to)'
    BY <1>0, <2>2, SameJobs DEF Sent
  <2> QED
    BY <1>0, <2>1, <2>3, <2>4, QuietCalm
<1>4. CASE sendToSupport(w)
  <2>1. work[w].step = "SEND" /\ event[c].type # "PUSH"
    BY <1>1, <1>4 DEF sendToSupport
  <2>2. \A to \in Addressees : ~Sent(w, e, to)
    BY <1>1, <2>1 DEF Sent
  <2>3. CASE /\ Got(Current(w), Support) /\ unsure' = unsure
             /\ work' = [work EXCEPT ![w].step = "FINISH", ![w].accepted = TRUE]
    <3>1. work'[w].jobs = work[w].jobs /\ work'[w].step = "FINISH" /\ work'[w].accepted = TRUE
      BY <1>0, <2>3 DEF TypeOK, Work
    <3>2. CASE e = c
      <4>1. Sent(w, e, Support)'
        BY <1>0, <1>1, <2>1, <3>1, <3>2, SameJobs DEF Sent
      <4> QED
        BY <1>0, <1>1, <2>2, <2>3, <3>1, <3>2, <4>1, GotCalm
    <3>3. CASE e # c
      <4>1. \A to \in Addressees :
              reached'[e][to] = reached[e][to] /\ unsure'[e][to] = unsure[e][to]
        BY <1>0, <1>1, <2>3, <3>3, GotTypes
      <4> QED
        BY <1>0, <1>1, <3>1, <3>3, <4>1, OthersCalm
    <3> QED
      BY <3>2, <3>3
  <2>4. CASE /\ reached' = reached /\ unsure' = unsure
             /\ \E forGood \in BOOLEAN :
                  work' = [work EXCEPT ![w].step = "FINISH", ![w].transient = TRUE,
                                       ![w].dead = forGood]
    <3>1. work'[w].jobs = work[w].jobs
      BY <1>0, <2>4 DEF TypeOK, Work
    <3>2. Holds(w, e)' <=> Holds(w, e)
      BY <3>1, SameJobs
    <3> QED
      BY <1>0, <2>2, <2>4, <3>2, QuietCalm
  <2>5. CASE /\ Got(Current(w), Support) /\ Unsure(Current(w), Support)
             /\ work' = [work EXCEPT ![w].step = "FINISH", ![w].transient = TRUE]
    <3>1. work'[w].jobs = work[w].jobs
      BY <1>0, <2>5 DEF TypeOK, Work
    <3>2. CASE e = c
      BY <1>0, <1>1, <2>2, <2>5, <3>1, <3>2, LostCalm
    <3>3. CASE e # c
      <4>1. \A to \in Addressees :
              reached'[e][to] = reached[e][to] /\ unsure'[e][to] = unsure[e][to]
        BY <1>0, <1>1, <2>5, <3>3, GotTypes, UnsureTypes
      <4> QED
        BY <1>0, <1>1, <3>1, <3>3, <4>1, OthersCalm
    <3> QED
      BY <3>2, <3>3
  <2> QED
    BY <1>4, <2>3, <2>4, <2>5 DEF sendToSupport
<1>5. CASE push(w)
  <2>1. PICK d \in Devices : Pushed(w, d)
    BY <1>5, PushFields
  <2>2. work[w].step = "SEND" /\ event[c].type = "PUSH" /\ d \in Addressees
    BY <1>0, <1>1, <1>5 DEF push
  <2>3. work'[w].jobs = work[w].jobs /\ Current(w)' = Current(w)
    BY <2>1, SameJobs DEF Pushed
  <2>4. CASE e # c
    <3>1. \A to \in Addressees :
            reached'[e][to] = reached[e][to] /\ unsure'[e][to] = unsure[e][to]
      BY <1>0, <1>1, <2>1, <2>2, <2>4, GotTypes, UnsureTypes DEF Pushed
    <3> QED
      BY <1>0, <1>1, <2>3, <2>4, <3>1, OthersCalm
  <2>5. CASE e = c
    <3>1. \A to \in Addressees : Sent(w, e, to) => Sent(w, e, to)'
      <4>1. work'[w].accepted = TRUE \/ work'[w].accepted = work[w].accepted
        BY <2>1 DEF Pushed
      <4>2. work'[w].left \subseteq work[w].left
        BY <2>1 DEF Pushed
      <4> QED
        BY <1>0, <2>2, <2>3, <4>1, <4>2 DEF Sent
    <3>2. ~Sent(w, e, d)
      BY <2>1, <2>2 DEF Sent, Pushed
    <3>3. CASE Got(Current(w), d) /\ unsure' = unsure /\ work'[w].accepted = TRUE
      <4>1. Sent(w, e, d)'
        BY <1>0, <1>1, <2>1, <2>2, <2>3, <2>5, <3>3 DEF Sent, Pushed
      <4> QED
        BY <1>0, <1>1, <2>2, <2>3, <2>5, <3>1, <3>2, <3>3, <4>1, GotCalm
    <3>4. CASE reached' = reached /\ unsure' = unsure
      <4>1. Holds(w, e)' <=> Holds(w, e)
        BY <2>3, SameJobs
      <4> QED
        BY <1>0, <3>1, <3>4, <4>1, QuietCalm
    <3>5. CASE Got(Current(w), d) /\ Unsure(Current(w), d)
      BY <1>0, <1>1, <2>2, <2>3, <2>5, <3>1, <3>2, <3>5, LostCalm
    <3> QED
      BY <2>1, <3>3, <3>4, <3>5 DEF Pushed
  <2> QED
    BY <2>4, <2>5
<1> QED
  BY <1>2, <1>3, <1>4, <1>5

\* The result of an attempt leaves a calm event to nobody, and takes it back
\* only if nobody got it.
LEMMA FinishCalm ==
  ASSUME TypeOK, NEW w \in Workers, WorkerOK(w), finish(w), NEW e \in Events, Calm(e)
  PROVE  Calm(e)'
<1>0. /\ work[w].step = "FINISH" /\ Busy(w) /\ work[w] \in Work
      /\ reached' = reached /\ unsure' = unsure
      /\ \A v \in Workers \ {w} : work'[v] = work[v]
      /\ event[e] \in Event
  BY DEF finish, Busy, TypeOK
<1>1. PICK c \in Events : c = Current(w)
  BY <1>0, JobIsThere
<1>2. PICK jobs : jobs = work[w].jobs \ {Job(w)}
  OBVIOUS
<1>3. work'[w].jobs = jobs
  BY <1>0, <1>2 DEF finish, TypeOK, Begin, AtRest
<1>4. Holds(w, e)' => Holds(w, e)
  BY <1>2, <1>3 DEF Holds
<1>5. CASE e # c
  <2>1. event'[e] = event[e]
    BY <1>1, <1>5 DEF finish, TypeOK
  <2>2. \A to \in Addressees : ~Sent(w, e, to)
    BY <1>1, <1>5 DEF Sent
  <2>3. \A v \in Workers \ {w} :
          /\ Holds(v, e)' <=> Holds(v, e)
          /\ \A to \in Addressees : Sent(v, e, to) <=> Sent(v, e, to)'
    BY <1>0, <2>1, SentStays
  <2>4. \A v \in Workers : Holds(v, e)' =>
          /\ Holds(v, e)
          /\ \A to \in Addressees : Sent(v, e, to) => Sent(v, e, to)'
    BY <1>4, <2>2, <2>3
  <2> QED
    BY <1>0, <2>1, <2>4, CalmStays
<1>6. CASE e = c
  <2>1. Holds(w, e) /\ Job(w) \in work[w].jobs /\ Job(w).event = e
    BY <1>0, <1>1, <1>6, JobIsThere DEF Current
  <2>2. ~Holds(w, e)'
    BY <1>2, <1>3, <2>1 DEF Holds, WorkerOK
  <2>3. event[e].status = "PROCESSING" /\ \A v \in Workers \ {w} : ~Holds(v, e)
    BY <2>1 DEF Calm
  <2>4. event'[e].type = event[e].type /\ ~event'[e].lapsed /\ event'[e].status = Outcome(w)
    BY <1>0, <1>1, <1>6, <2>3 DEF finish, Writes, TypeOK, Event
  <2>5. \A v \in Workers : ~Holds(v, e)'
    BY <1>0, <2>2, <2>3, <2>4, SentStays
  <2>6. ASSUME Outcome(w) \in {"PENDING", "RETRY"}, NEW to \in Addressees
        PROVE  reached[e][to] <= unsure[e][to]
    <3>1. ~work[w].accepted
      BY <2>6 DEF Outcome
    <3>2. ~Sent(w, e, to)
      BY <3>1 DEF Sent
    <3>3. /\ ~(reached[e][to] > unsure[e][to])
          /\ reached[e][to] \in Nat /\ unsure[e][to] \in Nat
      BY <2>1, <3>2 DEF Calm, TypeOK
    <3> QED
      BY <3>3
  <2>7. \A to \in Addressees : reached[e][to] <= 1 + unsure[e][to]
    BY DEF Calm
  <2> QED
    BY <1>0, <2>4, <2>5, <2>6, <2>7 DEF Calm
<1> QED
  BY <1>5, <1>6

\* A result that is not recorded leaves nobody's delivery known.
LEMMA FailsCalm ==
  ASSUME TypeOK, NEW w \in Workers, WorkerOK(w), finishFails(w), NEW e \in Events, Calm(e)
  PROVE  Calm(e)'
<1>0. /\ work[w].step = "FINISH" /\ Busy(w) /\ work[w] \in Work
      /\ event' = event /\ reached' = reached /\ Unsure(Current(w), Support)
      /\ event[Current(w)].type = "SUPPORT" /\ Support \in Addressees
      /\ work' = [work EXCEPT ![w].accepted = FALSE, ![w].transient = TRUE]
      /\ \A v \in Workers \ {w} : work'[v] = work[v]
  BY DEF finishFails, Busy, TypeOK, Addressees
<1>1. PICK c \in Events : c = Current(w)
  BY <1>0, JobIsThere
<1>2. work'[w].jobs = work[w].jobs
  BY <1>0 DEF TypeOK, Work
<1>3. CASE e = c
  <2>1. \A at \in Addressees \ {Support} : ~Sent(w, e, at)
    BY <1>0, <1>1, <1>3 DEF Sent
  <2> QED
    BY <1>0, <1>1, <1>2, <1>3, <2>1, LostCalm
<1>4. CASE e # c
  <2>1. \A to \in Addressees :
          reached'[e][to] = reached[e][to] /\ unsure'[e][to] = unsure[e][to]
    BY <1>0, <1>1, <1>4, UnsureTypes
  <2> QED
    BY <1>0, <1>1, <1>2, <1>4, <2>1, OthersCalm
<1> QED
  BY <1>3, <1>4

\* Calm events stay calm, or they are disturbed, in every step.
LEMMA CalmStep ==
  ASSUME TypeOK, \A w \in Workers : WorkerOK(w), Next, Growing,
         NEW e \in Events, event[e].disturbed \/ Calm(e)
  PROVE  event'[e].disturbed \/ Calm(e)'
<1>0. event[e] \in Event /\ \A w \in Workers : work[w] \in Work
  BY DEF TypeOK
<1>1. CASE \E w \in Workers : \E type, limit : claim(w, type, limit)
  <2>1. event'[e].disturbed = event[e].disturbed
    <3>1. \/ event'[e] = event[e]
          \/ event'[e] = [event[e] EXCEPT !.status = "PROCESSING", !.lapsed = FALSE,
                                          !.attempts = @ + 1]
      BY <1>1 DEF claim
    <3> QED
      BY <1>0, <3>1 DEF Event
  <2> QED
    BY <1>1, <2>1, ClaimCalm
<1>2. CASE \E w \in Workers : read(w) \/ sendToSupport(w) \/ push(w) \/ markReceipt(w)
  <2>1. event' = event
    BY <1>2 DEF read, sendToSupport, push, markReceipt
  <2> QED
    BY <1>2, <2>1, SendCalm
<1>3. CASE \E w \in Workers : finishFails(w)
  <2>1. event' = event
    BY <1>3 DEF finishFails
  <2> QED
    BY <1>3, <2>1, FailsCalm
<1>4. CASE \E w \in Workers : finish(w)
  <2>1. event'[e].disturbed = event[e].disturbed
    BY <1>0, <1>4 DEF finish, TypeOK, Event
  <2> QED
    BY <1>4, <2>1, FinishCalm
<1>5. CASE \E w \in Workers : Stop(w)
  <2>1. PICK w \in Workers : Stop(w)
    BY <1>5
  <2>2. /\ event' = event /\ reached' = reached /\ unsure' = unsure /\ work'[w].jobs = {}
        /\ \A v \in Workers \ {w} : work'[v] = work[v]
    BY <2>1 DEF Stop, TypeOK, AtRest
  <2>3. ~Holds(w, e)'
    BY <2>2 DEF Holds
  <2> QED
    BY <2>2, <2>3, QuietCalm
<1>6. CASE \E f \in Events : LeaseOver(f) \/ retryEvent(f)
  <2>1. PICK f \in Events : LeaseOver(f) \/ retryEvent(f)
    BY <1>6
  <2>2. work' = work /\ reached' = reached /\ unsure' = unsure
    BY <2>1 DEF LeaseOver, retryEvent
  <2>3. CASE f = e
    <3>1. event'[e].disturbed = TRUE
      BY <1>0, <2>1, <2>3 DEF LeaseOver, retryEvent, TypeOK, Event
    <3> QED
      BY <3>1
  <2>4. CASE f # e
    <3>1. event'[e] = event[e]
      BY <2>1, <2>4 DEF LeaseOver, retryEvent, TypeOK
    <3>2. \A v \in Workers : Holds(v, e)' =>
            /\ Holds(v, e)
            /\ \A to \in Addressees : Sent(v, e, to) => Sent(v, e, to)'
      BY <2>2, <3>1, SentStays
    <3> QED
      BY <2>2, <3>1, <3>2, CalmStays
  <2> QED
    BY <2>3, <2>4
<1>7. CASE \/ \E f \in Events : readMessage(f)
           \/ \E d \in Devices : unsubscribe(d)
  <2>1. event' = event /\ work' = work /\ reached' = reached /\ unsure' = unsure
    BY <1>7 DEF readMessage, unsubscribe
  <2>2. \A v \in Workers : Holds(v, e)' =>
          /\ Holds(v, e)
          /\ \A to \in Addressees : Sent(v, e, to) => Sent(v, e, to)'
    BY <2>1, SentStays
  <2> QED
    BY <2>1, <2>2, CalmStays
<1> QED
  BY <1>1, <1>2, <1>3, <1>4, <1>5, <1>6, <1>7 DEF Next, WorkerStep

-----------------------------------------------------------------------------
\* The invariant holds at first: nobody holds or got anything.
LEMMA InvInit == Init => Inv
<1>1. SUFFICES ASSUME Init
               PROVE  Inv
  OBVIOUS
<1>2. /\ \A w \in Workers : work[w] = AtRest
      /\ \A e \in Events : \A to \in Addressees : reached[e][to] = 0 /\ unsure[e][to] = 0
      /\ \A e \in Events : receipt[e] = "SENT"
      /\ \A e \in Events : event[e].status = "PENDING" /\ ~event[e].lapsed
  <2>1. \A e \in Events : \E type : event[e] = Queued(type)
    BY <1>1 DEF Init
  <2>2. \A e \in Events : event[e].status = "PENDING" /\ event[e].lapsed = FALSE
    <3>1. \A type : Queued(type).status = "PENDING" /\ Queued(type).lapsed = FALSE
      BY DEF Queued
    <3> QED
      BY <2>1, <3>1
  <2> QED
    BY <1>1, <2>2 DEF Init
<1>3. TypeOK
  <2>1. MaxClaims \in Nat /\ MaxTroubles \in Nat
    BY BoundsAssumption
  <2>2. AtRest \in Work
    BY DEF AtRest, Work
  <2>3. \A type \in {"SUPPORT", "PUSH"} : Queued(type) \in Event
    BY <2>1 DEF Queued, Event
  <2>4. event \in [Events -> Event]
    BY <1>1, <2>3 DEF Init
  <2> QED
    BY <1>1, <2>1, <2>2, <2>4 DEF Init, TypeOK
<1>4. NobodyForgotten /\ TickIsTrue
  BY <1>2 DEF NobodyForgotten, TickIsTrue
<1>5. \A w \in Workers : WorkerOK(w)
  BY <1>2 DEF AtRest, WorkerOK, Busy, Tells, Brought, Exhausted
<1>6. \A e \in Events : Calm(e)
  <2>1. \A w \in Workers : \A e \in Events : ~Holds(w, e)
    BY <1>2 DEF Holds, AtRest
  <2> QED
    BY <1>2, <2>1 DEF Calm
<1> QED
  BY <1>3, <1>4, <1>5, <1>6 DEF Inv, DeliveryInv

\* Every step keeps the invariant.
LEMMA InvStep == Inv /\ [Next]_vars => Inv'
<1>1. ASSUME Inv, Next
      PROVE  Inv'
  <2>1. TypeOK /\ DeliveryInv /\ \A w \in Workers : WorkerOK(w)
    BY <1>1 DEF Inv, DeliveryInv
  <2>2. TypeOK' /\ Growing
    BY <1>1, <2>1, TypeStep
  <2>3. DeliveryInv'
    BY <1>1, <2>1, <2>2, DeliveryStep
  <2>4. ASSUME NEW w \in Workers
        PROVE  WorkerOK(w)'
    <3>1. CASE WorkerStep(w) \/ Stop(w)
      BY <2>1, <3>1, WorkerMoves
    <3>2. CASE ~(WorkerStep(w) \/ Stop(w))
      <4>1. work'[w] = work[w]
        <5>1. ASSUME NEW v \in Workers, v # w, WorkerStep(v) \/ Stop(v)
              PROVE  work'[w] = work[w]
          BY <2>1, <5>1 DEF WorkerStep, Stop, claim, read, sendToSupport, push, markReceipt,
                            finishFails, finish, TypeOK
        <5>2. ASSUME \/ \E e \in Events : LeaseOver(e) \/ retryEvent(e) \/ readMessage(e)
                     \/ \E d \in Devices : unsubscribe(d)
              PROVE  work' = work
          BY <5>2 DEF LeaseOver, retryEvent, readMessage, unsubscribe
        <5> QED
          BY <1>1, <3>2, <5>1, <5>2 DEF Next
      <4> QED
        BY <2>1, <2>2, <4>1, WorkerStays
    <3> QED
      BY <3>1, <3>2
  <2>5. ASSUME NEW e \in Events
        PROVE  event'[e].disturbed \/ Calm(e)'
    BY <1>1, <2>1, <2>2, CalmStep DEF Inv
  <2> QED
    BY <2>3, <2>4, <2>5 DEF Inv
<1>2. ASSUME Inv, UNCHANGED vars
      PROVE  Inv'
  <2>1. DeliveryInv'
    BY <1>2 DEF Inv, vars, DeliveryInv, TypeOK, NobodyForgotten, TickIsTrue
  <2>2. TypeOK /\ TypeOK' /\ Growing
    BY <1>2, <2>1 DEF Inv, DeliveryInv, vars, Growing, TypeOK
  <2>3. ASSUME NEW w \in Workers
        PROVE  WorkerOK(w)'
    BY <1>2, <2>2, WorkerStays DEF Inv, vars
  <2>4. ASSUME NEW e \in Events
        PROVE  event'[e].disturbed \/ Calm(e)'
    <3>1. \A v \in Workers : /\ Holds(v, e)' <=> Holds(v, e)
                             /\ \A to \in Addressees : Sent(v, e, to) <=> Sent(v, e, to)'
      BY <1>2, SentStays DEF vars
    <3> QED
      BY <1>2, <3>1, CalmStays DEF Inv, vars
  <2> QED
    BY <2>1, <2>3, <2>4 DEF Inv
<1> QED
  BY <1>1, <1>2

\* The invariant of all the theorems.
LEMMA Invariant == Spec => []Inv
BY InvInit, InvStep, PTL DEF Spec

\* Types hold; a row says delivered and a message shows its second tick only
\* if somebody got the notification or nobody was there to get it, whatever
\* leases ran out between a sending and its record.
THEOREM DeliveriesAreTrue == Spec => []DeliveryInv
<1>1. Inv => DeliveryInv
  BY DEF Inv
<1> QED
  BY <1>1, Invariant, PTL

\* An event whose lease never ran out and that no administrator sent round again
\* comes to no device, and not to the support's number, once more than there were
\* answers and records of its deliveries lost: the claim alone keeps two workers
\* apart, and an attempt that somebody is known to have got is the last.
THEOREM SentOnce == Spec => []TwiceOnlyWhenInDoubt
<1>1. Inv => TwiceOnlyWhenInDoubt
  BY DEF Inv, Calm, TwiceOnlyWhenInDoubt
<1> QED
  BY <1>1, Invariant, PTL

\* An event that was delivered or given up changes its status only when an
\* administrator sends it round again: the result of a worker that lost its
\* lease comes to nothing.
THEOREM EndsStand == Spec => EndedStays
<1>1. ASSUME TypeOK, [Next]_vars, NEW e \in Events, Ended(e),
             event'[e].status # event[e].status
      PROVE  retryEvent(e)
  <2>0. /\ \A f \in Events : event[f] \in Event
        /\ event[e].status \in {"DELIVERED", "DEAD_LETTER"}
    BY <1>1 DEF TypeOK, Ended
  <2>1. ASSUME NEW w \in Workers, NEW type, NEW limit, claim(w, type, limit)
        PROVE  FALSE
    <3>1. PICK taken \in SUBSET Due(type) :
             event' = [f \in Events |->
               IF f \in taken
               THEN [event[f] EXCEPT !.status = "PROCESSING", !.lapsed = FALSE,
                                     !.attempts = @ + 1]
               ELSE event[f]]
      BY <2>1 DEF claim
    <3>2. e \in taken
      BY <1>1, <3>1
    <3> QED
      BY <2>0, <3>2 DEF Due, Claimable
  <2>2. ASSUME NEW w \in Workers,
               \/ read(w) \/ sendToSupport(w) \/ push(w) \/ markReceipt(w)
               \/ finishFails(w) \/ Stop(w)
        PROVE  FALSE
    BY <1>1, <2>2 DEF read, sendToSupport, push, markReceipt, finishFails, Stop
  <2>3. ASSUME NEW w \in Workers, finish(w)
        PROVE  FALSE
    <3>1. CASE Current(w) = e
      BY <1>1, <2>0, <2>3, <3>1 DEF finish, Writes
    <3>2. CASE Current(w) # e
      BY <1>1, <2>3, <3>2 DEF finish, TypeOK
    <3> QED
      BY <3>1, <3>2
  <2>4. ASSUME NEW f \in Events, LeaseOver(f) \/ readMessage(f)
        PROVE  FALSE
    BY <1>1, <2>0, <2>4 DEF LeaseOver, readMessage, TypeOK, Event
  <2>5. ASSUME NEW f \in Events, retryEvent(f)
        PROVE  retryEvent(e)
    BY <1>1, <2>5 DEF retryEvent, TypeOK
  <2>6. ASSUME (\E d \in Devices : unsubscribe(d)) \/ UNCHANGED vars
        PROVE  FALSE
    BY <1>1, <2>6 DEF unsubscribe, vars
  <2> QED
    BY <1>1, <2>1, <2>2, <2>3, <2>4, <2>5, <2>6 DEF Next, WorkerStep
<1>2. Inv /\ [Next]_vars =>
        \A e \in Events : Ended(e) /\ event'[e].status # event[e].status => retryEvent(e)
  BY <1>1 DEF Inv, DeliveryInv
<1>3. Inv /\ [Next]_vars =>
        [\A e \in Events :
           Ended(e) /\ event'[e].status # event[e].status => retryEvent(e)]_vars
  BY <1>2
<1> QED
  BY <1>3, Invariant, PTL DEF Spec, EndedStays
=============================================================================
