--------------------------- MODULE Conversations ---------------------------
(***************************************************************************)
(* A conversation: its messages and their edits and deletions in           *)
(* PostgreSQL (UnifiedConversationService and the triggers of migrations   *)
(* 026 and 029), and the browser tab of one of its two parties, which      *)
(* sends, retries, polls for what is new and keeps what it has shown on    *)
(* the device (unified-chat-workspace).                                    *)
(*                                                                         *)
(* The clock counts what the database orders: the start of a transaction,  *)
(* which is the now() it stamps its rows with, and its commit, from which  *)
(* on others read them.  Stamps are unique: a message is named by its own. *)
(* A text is named by the revision it comes from: 0 is the original, and   *)
(* the highest stamp is the current one.                                   *)
(*                                                                         *)
(* A call may be refused or lost at any time.  Pages and limits of the     *)
(* lists are larger than the conversation.  Variants whose name has a      *)
(* suffix after an underscore are mistakes for the runs to catch; no       *)
(* action uses them.                                                       *)
(***************************************************************************)
EXTENDS Naturals, FiniteSets

CONSTANTS
  Mine,         \* client message ids of the tab's user
  NoKey,        \* stands for the ids of the other party, which it never repeats
  MaxClock,     \* bound: starts and commits of transactions
  MaxTries,     \* bound: times the tab sends one message
  MaxTheirs,    \* bound: messages of the other party
  MaxRevisions, \* bound: edits and deletions
  MaxOpenings   \* bound: times the page is opened again

ASSUME NoKeyAssumption == NoKey \notin Mine

ASSUME BoundsAssumption ==
  /\ MaxClock \in Nat /\ MaxTries \in Nat /\ MaxTheirs \in Nat
  /\ MaxRevisions \in Nat /\ MaxOpenings \in Nat

VARIABLES
  clock,
  rows,     \* support_messages
  revs,     \* support_message_revisions
  open,     \* transactions under way
  calls,    \* requests to send that are on their way to the server
  answers,  \* answers on their way to the tab
  outbox,   \* the tab's optimistic entries
  tries,    \* times each of them was sent
  fetch,    \* the try whose answer the tab waits for, 0 for none
  shown,    \* the text the tab shows for each message it holds
  cursor,   \* revisionCursorRef
  poll,     \* the list request under way
  late,     \* history: messages whose text the tab took from an old reading
  beyond,   \* history: messages it took from a reading of revisions alone
  openings  \* times the page was opened again

server == <<clock, rows, revs, open>>
sending == <<calls, outbox, tries, fetch>>
tab == <<shown, cursor, late, beyond>>
vars == <<server, sending, answers, tab, poll, openings>>

-----------------------------------------------------------------------------
Keys == Mine \cup {NoKey}
Stamps == 1 .. MaxClock
Texts == 0 .. MaxClock

Row == [at : Stamps, done : Stamps, key : Keys]
Revision == [msg : Stamps, at : Stamps, done : Stamps, action : {"EDIT", "DELETE"}]

\* A transaction under way; a revision is checked, and inserted, before it
\* commits.
Transaction ==
  [kind : {"SEND", "EDIT", "DELETE"}, at : Stamps, key : Keys,
   try : 0 .. MaxTries, msg : Texts, mine : BOOLEAN, checked : BOOLEAN]

Answer ==
  [key : Keys, try : 0 .. MaxTries, msg : Stamps, text : Texts]

\* What some messages are shown as.
IsShown(f) == DOMAIN f \subseteq Stamps /\ f \in [DOMAIN f -> Texts]
Nothing == [m \in {} |-> 0]

\* A list request: from where it reads, what it has read, and the messages
\* whose revisions, and those that, only the second of its readings came upon.
Resting ==
  [step |-> "IDLE", kind |-> "DELTA", anchor |-> 0, items |-> Nothing,
   cursor |-> 0, slipped |-> {}, beyond |-> {}]

TypeOK ==
  /\ clock \in 0 .. MaxClock
  /\ rows \subseteq Row
  /\ revs \subseteq Revision
  /\ open \subseteq Transaction
  /\ calls \subseteq [key : Mine, try : 1 .. MaxTries]
  /\ answers \subseteq Answer
  /\ outbox \in [Mine -> {"NONE", "SENDING", "FAILED"}]
  /\ tries \in [Mine -> 0 .. MaxTries]
  /\ fetch \in [Mine -> 0 .. MaxTries]
  /\ IsShown(shown)
  /\ cursor \in Texts
  /\ poll.step \in {"IDLE", "START", "ROWS", "CURSOR", "ANSWER"}
  /\ poll.kind \in {"DELTA", "PAGE", "OPEN"}
  /\ IsShown(poll.items)
  /\ poll.anchor \in Texts /\ poll.cursor \in Texts
  /\ UNION {late, beyond, poll.slipped, poll.beyond} \subseteq Stamps
  /\ openings \in 0 .. MaxOpenings
  \* Every row is there once, every revision is of a message that is there.
  /\ \A r, s \in rows \cup revs : r.at = s.at => r = s
  /\ \A v \in revs : \E r \in rows : r.at = v.msg /\ r.at < v.at
  \* What the tab shows was in the database, at the latest, when it read it.
  /\ \A m \in DOMAIN shown :
       /\ \E r \in rows : r.at = m
       /\ shown[m] # 0 => \E v \in revs : v.msg = m /\ v.at = shown[m]

Init ==
  /\ clock = 0
  /\ rows = {} /\ revs = {} /\ open = {}
  /\ calls = {} /\ answers = {}
  /\ outbox = [k \in Mine |-> "NONE"]
  /\ tries = [k \in Mine |-> 0]
  /\ fetch = [k \in Mine |-> 0]
  /\ shown = Nothing
  /\ cursor = 0
  /\ poll = Resting
  /\ late = {} /\ beyond = {}
  /\ openings = 0

-----------------------------------------------------------------------------
(***************************************************************************)
(* The database.                                                           *)
(***************************************************************************)
Highest(stamps) ==
  IF stamps = {} THEN 0 ELSE CHOOSE s \in stamps : \A t \in stamps : t <= s

\* latest_revision: the text a message is read with.
Fold(m) == Highest({v.at : v \in {x \in revs : x.msg = m}})

Deleted(m) == \E v \in revs : v.msg = m /\ v.at = Fold(m) /\ v.action = "DELETE"

\* A transaction starts if all that are under way can still commit.
Begin(t) ==
  /\ clock + Cardinality(open) + 2 <= MaxClock
  /\ clock' = clock + 1
  /\ open' = open \cup {t}

Sending(key, try) ==
  [kind |-> "SEND", at |-> clock + 1, key |-> key, try |-> try, msg |-> 0,
   mine |-> key \in Mine, checked |-> TRUE]

\* A request of the tab reaches the server.
Receive(c) ==
  /\ c \in calls
  /\ calls' = calls \ {c}
  /\ Begin(Sending(c.key, c.try))
  /\ UNCHANGED <<rows, revs, outbox, tries, fetch, answers, tab, poll, openings>>

\* The other party sends.
BeginTheirs ==
  /\ Cardinality({x \in rows \cup {t \in open : t.kind = "SEND"} : x.key = NoKey})
       < MaxTheirs
  /\ Begin(Sending(NoKey, 0))
  /\ UNCHANGED <<rows, revs, sending, answers, tab, poll, openings>>

\* A message is inserted each time it is sent.
Replays_Never(t) == FALSE

\* The client message id is in the table already: ON CONFLICT DO NOTHING.
Replays(t) == \E r \in rows : r.key = t.key /\ r.key # NoKey

\* The tab still waits for the answer to this try.
Awaited(t) == t.mine /\ (t.key \in Mine => fetch[t.key] = t.try)

Reply(t, m, text) ==
  answers' = IF Awaited(t)
             THEN answers \cup
               {[key |-> t.key, try |-> t.try, msg |-> m, text |-> text]}
             ELSE answers

\* The message the answer is about: the one inserted, now or before.
Confirms(t) ==
  IF Replays(t) THEN CHOOSE m \in Stamps : \E r \in rows : r.key = t.key /\ r.at = m
  ELSE t.at

sendMessage(t) ==
  /\ t \in open
  /\ t.kind = "SEND"
  /\ IF Replays(t) THEN UNCHANGED <<clock, rows>>
     ELSE /\ clock' = clock + 1
          /\ rows' = rows \cup {[at |-> t.at, done |-> clock + 1, key |-> t.key]}
  /\ Reply(t, Confirms(t), Fold(Confirms(t)))
  /\ open' = open \ {t}
  /\ UNCHANGED <<revs, sending, tab, poll, openings>>

\* editMessage and deleteMessage begin: a party edits its own text; the
\* administrator, who may be either of the two, deletes any.
BeginRevision(action, r, mine) ==
  /\ r \in rows
  /\ action = "EDIT" => (r.key \in Mine) = mine
  /\ mine => r.at \in DOMAIN shown /\ poll.kind # "OPEN"
  /\ Cardinality(revs) + Cardinality({t \in open : t.kind # "SEND"}) < MaxRevisions
  /\ Begin([kind |-> action, at |-> clock + 1, key |-> NoKey, try |-> 0,
            msg |-> r.at, mine |-> mine, checked |-> FALSE])
  /\ UNCHANGED <<rows, revs, sending, answers, tab, poll, openings>>

\* What editMessage, deleteMessage and the trigger read before the insert.
MayRevise(m) == ~Deleted(m)

CheckRevision(t) ==
  /\ t \in open
  /\ t.kind # "SEND" /\ ~t.checked
  /\ MayRevise(t.msg)
  /\ open' = (open \ {t}) \cup {[t EXCEPT !.checked = TRUE]}
  /\ UNCHANGED <<clock, rows, revs, sending, answers, tab, poll, openings>>

\* The message is read back with the new revision before the commit.
CommitRevision(t) ==
  /\ t \in open
  /\ t.kind # "SEND" /\ t.checked
  /\ clock' = clock + 1
  /\ revs' = revs \cup
       {[msg |-> t.msg, at |-> t.at, done |-> clock + 1, action |-> t.kind]}
  /\ Reply(t, t.msg, Highest({t.at, Fold(t.msg)}))
  /\ open' = open \ {t}
  /\ UNCHANGED <<rows, sending, tab, poll, openings>>

\* A check fails, the answer of a deletion that is there already, a failure
\* of the database or of the server.
Abort(t) ==
  /\ t \in open
  /\ open' = open \ {t}
  /\ IF t.kind = "DELETE" /\ Deleted(t.msg)
     THEN Reply(t, t.msg, Fold(t.msg))
     ELSE UNCHANGED answers
  /\ UNCHANGED <<clock, rows, revs, sending, tab, poll, openings>>

-----------------------------------------------------------------------------
(***************************************************************************)
(* The tab sends.                                                          *)
(***************************************************************************)
TabOpen == poll.kind # "OPEN"

\* submitText, and the retry of an entry that failed, under the same client
\* message id.
deliverText(k) ==
  /\ TabOpen
  /\ outbox[k] = "FAILED" \/ tries[k] = 0
  /\ tries[k] < MaxTries
  /\ outbox' = [outbox EXCEPT ![k] = "SENDING"]
  /\ tries' = [tries EXCEPT ![k] = @ + 1]
  /\ fetch' = [fetch EXCEPT ![k] = tries[k] + 1]
  /\ calls' = calls \cup {[key |-> k, try |-> tries[k] + 1]}
  /\ UNCHANGED <<server, answers, tab, poll, openings>>

\* The request is refused or broken off; the server may still act on it.
markFailed(k) ==
  /\ fetch[k] # 0
  /\ fetch' = [fetch EXCEPT ![k] = 0]
  /\ outbox' = [outbox EXCEPT ![k] = IF @ = "SENDING" THEN "FAILED" ELSE @]
  /\ answers' = {a \in answers : a.key # k}
  /\ UNCHANGED <<server, calls, tries, tab, poll, openings>>

\* mergeUnifiedMessages: what comes in replaces what is there.
Merge(current, incoming) ==
  [m \in DOMAIN current \cup DOMAIN incoming |->
     IF m \in DOMAIN incoming THEN incoming[m] ELSE current[m]]

\* Every poll's answer settles what was being sent.
Settled_Sending(k, held) == outbox[k] = "SENDING"

\* The message of the entry is shown.
Settled(k, held) == \E r \in rows : r.key = k /\ r.at \in held

\* The messages shown, and the entries that go with them.
Show(messages) ==
  /\ shown' = messages
  /\ outbox' = [k \in Mine |->
       IF Settled(k, DOMAIN messages) THEN "NONE" ELSE outbox[k]]

\* The answer to a message sent, edited or deleted.  It may be older than
\* what the tab has got from a poll.
TakeAnswer(a) ==
  /\ a \in answers
  /\ answers' = answers \ {a}
  /\ Show(Merge(shown, [m \in {a.msg} |-> a.text]))
  /\ late' = IF a.text = Fold(a.msg) THEN late \ {a.msg} ELSE late \cup {a.msg}
  /\ fetch' = IF a.key = NoKey THEN fetch ELSE [fetch EXCEPT ![a.key] = 0]
  /\ UNCHANGED <<server, calls, tries, cursor, beyond, poll, openings>>

LoseAnswer(a) ==
  /\ a \in answers
  /\ a.key = NoKey
  /\ answers' = answers \ {a}
  /\ UNCHANGED <<server, sending, tab, poll, openings>>

-----------------------------------------------------------------------------
(***************************************************************************)
(* The tab polls: listMessages, from the newest message it holds.          *)
(***************************************************************************)
untouchedByPoll == <<server, calls, answers, tries, fetch, openings>>

StartPoll ==
  /\ poll.step = "IDLE"
  /\ poll' = [Resting EXCEPT
       !.step = "START",
       !.kind = IF shown = Nothing THEN "PAGE" ELSE "DELTA",
       !.anchor = Highest(DOMAIN shown),
       !.cursor = cursor]
  /\ UNCHANGED <<untouchedByPoll, outbox, tab>>

\* The newest message alone.
After_Newest(anchor) ==
  {r.at : r \in {x \in rows : x.at > anchor /\ \A y \in rows : y.at <= x.at}}

\* The messages after the anchor; a page begins at 0.
After(anchor) == {r.at : r \in {x \in rows : x.at > anchor}}

Read(messages) == [m \in messages |-> Fold(m)]

\* The rows are read, each with its latest revision.
ReadRows ==
  /\ poll.step \in {"START", "CURSOR"}
  /\ poll' = [poll EXCEPT
       !.step = IF @ = "START" THEN "ROWS" ELSE "ANSWER",
       !.items = Read(After(poll.anchor))]
  /\ UNCHANGED <<untouchedByPoll, outbox, tab>>

\* The messages it holds already are not read again.
Changed_None == {}

\* The messages with a revision after the cursor.
Changed == {v.msg : v \in {x \in revs : x.at > poll.cursor}}

\* The cursor is the time of the reading.
NewCursor_Now == clock

NewCursor == Highest({poll.cursor} \cup {v.at : v \in revs})

\* The revisions are read in a later statement.  A delta reads the messages
\* it finds changed, unless their rows were among those it has read already.
ReadRevisions ==
  LET items == IF poll.kind = "DELTA" THEN Merge(Read(Changed), poll.items)
               ELSE poll.items
  IN
  /\ poll.step = "ROWS"
  /\ poll' = [poll EXCEPT
       !.step = "ANSWER",
       !.cursor = NewCursor,
       !.items = items,
       !.slipped = {m \in Changed : m \in DOMAIN items => items[m] # Fold(m)},
       !.beyond = {m \in DOMAIN items \ DOMAIN poll.items : m > poll.anchor}]
  /\ UNCHANGED <<untouchedByPoll, outbox, tab>>

\* A page asks for its three lists at once, and they come in any order.
ReadCursorFirst ==
  /\ poll.step = "START"
  /\ poll.kind # "DELTA"
  /\ poll' = [poll EXCEPT !.step = "CURSOR", !.cursor = NewCursor]
  /\ UNCHANGED <<untouchedByPoll, outbox, tab>>

TakePoll ==
  /\ poll.step = "ANSWER"
  /\ TabOpen
  /\ Show(Merge(shown, poll.items))
  /\ cursor' = poll.cursor
  /\ late' = (late \ DOMAIN poll.items) \cup poll.slipped
  /\ beyond' = beyond \cup poll.beyond
  /\ poll' = Resting
  /\ UNCHANGED untouchedByPoll

PollFails ==
  /\ poll.step # "IDLE"
  /\ TabOpen
  /\ poll' = Resting
  /\ UNCHANGED <<untouchedByPoll, outbox, tab>>

\* The page is left and asked for again, while what it showed stays on the
\* device; its entries, and the answers it waited for, are gone.
LeavePage ==
  /\ TabOpen
  /\ openings < MaxOpenings
  /\ openings' = openings + 1
  /\ poll' = [Resting EXCEPT !.step = "START", !.kind = "OPEN"]
  /\ outbox' = [k \in Mine |-> "NONE"]
  /\ fetch' = [k \in Mine |-> 0]
  /\ answers' = {}
  /\ open' = {IF t.kind = "SEND" THEN t ELSE [t EXCEPT !.mine = FALSE] : t \in open}
  /\ UNCHANGED <<clock, rows, revs, calls, tries, tab>>

\* The page is shown with what the device kept merged over it.
OpenPage ==
  /\ poll.step = "ANSWER"
  /\ poll.kind = "OPEN"
  /\ Show(Merge(poll.items, shown))
  /\ cursor' = poll.cursor
  /\ late' = late \cup poll.slipped \cup
       {m \in DOMAIN shown \cap DOMAIN poll.items : shown[m] # poll.items[m]}
  /\ poll' = Resting
  /\ UNCHANGED <<untouchedByPoll, beyond>>

-----------------------------------------------------------------------------
Database ==
  \/ \E c \in calls : Receive(c)
  \/ BeginTheirs
  \/ \E r \in rows, action \in {"EDIT", "DELETE"}, mine \in BOOLEAN :
       BeginRevision(action, r, mine)
  \/ \E t \in open :
       sendMessage(t) \/ CheckRevision(t) \/ CommitRevision(t) \/ Abort(t)

Send ==
  \/ \E k \in Mine : deliverText(k) \/ markFailed(k)
  \/ \E a \in answers : TakeAnswer(a) \/ LoseAnswer(a)

Poll ==
  \/ StartPoll \/ ReadRows \/ ReadRevisions \/ ReadCursorFirst
  \/ TakePoll \/ PollFails
  \/ LeavePage \/ OpenPage

Next == Database \/ Send \/ Poll

Spec == Init /\ [][Next]_vars

\* The tab polls for as long as it is visible, and of all its polls some are
\* answered.
Fairness ==
  /\ WF_vars(StartPoll) /\ SF_vars(ReadRows) /\ SF_vars(ReadRevisions)
  /\ SF_vars(TakePoll) /\ WF_vars(OpenPage)

FairSpec == Spec /\ Fairness

-----------------------------------------------------------------------------
(***************************************************************************)
(* Properties.                                                             *)
(***************************************************************************)

\* However often a message is sent again, with the earlier requests still on
\* their way, under way at the server or answered in vain, it is there once.
SentOnce == \A r, s \in rows : r.key = s.key /\ r.key # NoKey => r = s

\* An optimistic entry goes only when its message is shown in its place, or
\* with the page.
EntrySettles ==
  [][\A k \in Mine : outbox[k] # "NONE" /\ outbox'[k] = "NONE" =>
       \/ poll'.kind = "OPEN"
       \/ \E r \in rows' : r.key = k /\ r.at \in DOMAIN shown']_vars

\* The poll leaves out a message for three reasons only: a message stamped
\* later moved the anchor past it, which was the answer to the user's own
\* sending, or was both written and edited between the two readings of a
\* poll, or committed before the one that is left out.
PassedBy(r) ==
  \E s \in rows :
    /\ s.at \in DOMAIN shown
    /\ s.at > r.at
    /\ s.key \in Mine \/ s.at \in beyond \/ s.done < r.done

Missing == {r \in rows : r.at \notin DOMAIN shown /\ ~PassedBy(r)}

MissedOnlyWhenPassed == \A r \in Missing : r.at > Highest(DOMAIN shown)

\* The cursor is past a revision that is not shown for three reasons only:
\* the tab took an older text (from its device, from a late answer, or from
\* the first of a poll's two readings), or the revision committed after one
\* that was stamped later.
Overtaken(m) ==
  \E v, w \in revs :
    v.msg = m /\ v.at = Fold(m) /\ w.at > v.at /\ w.done < v.done

Stale ==
  {m \in DOMAIN shown : shown[m] # Fold(m) /\ m \notin late /\ ~Overtaken(m)}

StaleOnlyWhenLate == \A m \in Stale : Fold(m) > cursor

\* A deletion is undone only by an edit that began while it was under way.
DeletionHolds ==
  \A d \in revs :
    d.action = "DELETE" /\ ~Deleted(d.msg) =>
      \E e \in revs :
        /\ e.msg = d.msg /\ e.action = "EDIT"
        /\ d.at < e.at /\ e.at < d.done

\* Types, and the two together: the database keeps one row for each message
\* and does not take back a deletion.
MessagesInv == TypeOK /\ SentOnce /\ DeletionHolds

\* The tab catches up again and again, with the messages and with their edits
\* and deletions, but for those that were passed or came too late.
TabCatchesUp == []<>(Missing = {} /\ Stale = {})
=============================================================================
