------------------------ MODULE ConversationsProofs ------------------------
(***************************************************************************)
(* Theorems of Conversations, for every value of its constants: any        *)
(* messages, tries, revisions and openings, and any number of              *)
(* transactions that overlap.                                              *)
(***************************************************************************)
EXTENDS Conversations, FiniteSetTheorems, WellFoundedInduction, TLAPS

\* What the tab may show, and the record of its list request.
Shows == UNION {[D -> Texts] : D \in SUBSET Stamps}

Request ==
  [step : {"IDLE", "START", "ROWS", "CURSOR", "ANSWER"}, kind : {"DELTA", "PAGE", "OPEN"},
   anchor : Texts, items : Shows, cursor : Texts,
   slipped : SUBSET Stamps, beyond : SUBSET Stamps]

\* Every start and every commit has a stamp of its own, and what is under way
\* can still commit.
StampsOK ==
  /\ clock \in Nat
  /\ IsFiniteSet(open) /\ clock + Cardinality(open) <= MaxClock
  /\ rows \subseteq Row /\ revs \subseteq Revision /\ open \subseteq Transaction
  /\ \A r \in rows \cup revs : r.at < r.done /\ r.done <= clock
  /\ \A r, s \in rows \cup revs : r.at = s.at => r = s
  /\ \A t \in open : t.at <= clock /\ \A r \in rows \cup revs : r.at # t.at
  /\ \A t, u \in open : t.at = u.at => t = u

\* There is a message m, which has had the text x.
Known(m, x) ==
  /\ \E r \in rows : r.at = m
  /\ x # 0 => \E v \in revs : v.msg = m /\ v.at = x

\* A revision is of a message that was there when it began.
RevisionsOK ==
  /\ \A v \in revs : \E r \in rows : r.at = v.msg /\ r.at < v.at
  /\ \A t \in open : t.kind # "SEND" => \E r \in rows : r.at = t.msg /\ r.at < t.at

\* A message the tab hears of in an answer is its user's own, or one it shows.
AnswersOK ==
  /\ answers \subseteq Answer
  /\ \A t \in open :
       /\ t.kind = "SEND" => (t.mine <=> t.key \in Mine)
       /\ t.kind # "SEND" => t.key = NoKey /\ (t.mine => t.msg \in DOMAIN shown)
  /\ \A a \in answers :
       /\ Known(a.msg, a.text)
       /\ (\E r \in rows : r.at = a.msg /\ r.key \in Mine) \/ a.msg \in DOMAIN shown

TabOK ==
  /\ calls \subseteq [key : Mine, try : 1 .. MaxTries]
  /\ outbox \in [Mine -> {"NONE", "SENDING", "FAILED"}]
  /\ tries \in [Mine -> 0 .. MaxTries] /\ fetch \in [Mine -> 0 .. MaxTries]
  /\ late \subseteq Stamps /\ beyond \subseteq Stamps
  /\ openings \in 0 .. MaxOpenings
  /\ shown \in Shows /\ \A m \in DOMAIN shown : Known(m, shown[m])

\* A cursor is the stamp of a revision that is there.
IsCursor(c) == c \in Texts /\ (c # 0 => \E w \in revs : w.at = c)

PollOK ==
  /\ poll \in Request
  /\ \A m \in DOMAIN poll.items : Known(m, poll.items[m])
  /\ IsCursor(cursor) /\ IsCursor(poll.cursor)
  /\ poll.anchor # 0 => poll.anchor \in DOMAIN shown
  /\ poll.kind # "DELTA" => poll.anchor = 0 /\ poll.beyond = {}
  /\ poll.step = "CURSOR" => poll.kind # "DELTA"
  /\ poll.step \in {"IDLE", "START", "CURSOR"} => DOMAIN poll.items = {}
  /\ poll.step \in {"IDLE", "START", "ROWS"} => poll.cursor <= cursor
  /\ poll.step # "ANSWER" => poll.slipped = {} /\ poll.beyond = {}

\* A message past the anchor that a poll did not read was written after those
\* that it did.
PollSkips ==
  \A r, s \in rows :
    (/\ s.at \in DOMAIN poll.items /\ r.at \notin DOMAIN poll.items
     /\ poll.anchor < r.at /\ r.at < s.at)
    => s.done < r.done \/ s.at \in poll.beyond

\* A text the poll has read is the one its cursor stands for, and what it has
\* not read has not changed.
PollIsCurrent ==
  /\ \A m \in DOMAIN poll.items \ poll.slipped :
       poll.items[m] # Fold(m) /\ Fold(m) <= poll.cursor => Overtaken(m)
  /\ poll.step # "CURSOR" =>
       \A m \in Stamps \ (DOMAIN poll.items \cup poll.slipped) :
         cursor < Fold(m) /\ Fold(m) <= poll.cursor => Overtaken(m)

\* No edit can undo deletion d any more but one that began before it committed.
Undone(d) ==
  \E e \in revs : e.msg = d.msg /\ e.action = "EDIT" /\ d.at < e.at /\ e.at < d.done

Final(d) ==
  /\ \A v \in revs : v.msg = d.msg /\ d.at < v.at => v.action = "DELETE"
  /\ \A t \in open : t.kind = "EDIT" /\ t.checked /\ t.msg = d.msg => t.at < d.done

DeletionsOK == \A d \in revs : d.action = "DELETE" => Undone(d) \/ Final(d)

ChatInv ==
  /\ StampsOK /\ RevisionsOK /\ AnswersOK /\ TabOK /\ PollOK
  /\ SentOnce /\ DeletionsOK
  /\ MissedOnlyWhenPassed /\ PollSkips
  /\ StaleOnlyWhenLate /\ PollIsCurrent

-----------------------------------------------------------------------------
\* A set of numbers up to a bound has a highest one.
LEMMA Greatest ==
  ASSUME NEW n \in Nat, NEW S, S \subseteq 0 .. n, S # {}
  PROVE  \E x \in S : \A y \in S : y <= x
<1> DEFINE T == {i \in 0 .. n : n - i \in S}
<1>1. T \subseteq Nat /\ T # {}
  <2>1. PICK s \in S : s \in 0 .. n
    OBVIOUS
  <2>2. n - s \in 0 .. n /\ n - (n - s) = s
    BY <2>1
  <2>3. n - s \in T
    BY <2>1, <2>2
  <2> QED
    BY <2>3
<1>2. PICK x \in T : \A y \in T : ~(<<y, x>> \in OpToRel(<, Nat))
  <2> HIDE DEF T
  <2> QED
    BY <1>1, WFMin, NatLessThanWellFounded, Zenon
<1>3. \A y \in T : ~(y < x)
  <2> HIDE DEF T
  <2> QED
    BY <1>1, <1>2 DEF OpToRel
<1>4. n - x \in S /\ x \in 0 .. n
  OBVIOUS
<1>5. ASSUME NEW y \in S
      PROVE  y <= n - x
  <2>1. y \in 0 .. n
    OBVIOUS
  <2>2. n - y \in 0 .. n /\ n - (n - y) = y
    BY <2>1
  <2>3. n - y \in T
    BY <2>2
  <2>4. ~(n - y < x)
    BY <1>3, <2>3
  <2> QED
    BY <1>4, <2>1, <2>2, <2>4
<1> QED
  BY <1>4, <1>5

\* What Highest returns.
IsHighest(S, x) ==
  /\ x \in Texts
  /\ x # 0 => x \in S
  /\ \A y \in S : y <= x

\* Highest is the largest of a set of stamps, and 0 of none.
LEMMA HighestIs ==
  ASSUME NEW S \in SUBSET Texts
  PROVE  IsHighest(S, Highest(S))
<1>1. MaxClock \in Nat
  BY BoundsAssumption DEF BoundsAssumption
<1>2. CASE S = {}
  BY <1>1, <1>2 DEF IsHighest, Highest, Texts
<1>3. CASE S # {}
  <2>1. \E x \in S : \A y \in S : y <= x
    BY <1>1, <1>3, Greatest DEF Texts
  <2>2. Highest(S) \in S /\ \A y \in S : y <= Highest(S)
    BY <1>3, <2>1 DEF Highest
  <2> QED
    BY <2>2 DEF IsHighest
<1> QED
  BY <1>2, <1>3

\* There is only one such number.
LEMMA HighestOnly ==
  ASSUME NEW S \in SUBSET Texts, NEW x, NEW y, IsHighest(S, x), IsHighest(S, y)
  PROVE  x = y
<1>1. MaxClock \in Nat
  BY BoundsAssumption DEF BoundsAssumption
<1>2. x \in Nat /\ y \in Nat
  BY <1>1 DEF IsHighest, Texts
<1>3. x <= y \/ x = 0
  BY DEF IsHighest
<1>4. y <= x \/ y = 0
  BY DEF IsHighest
<1> QED
  BY <1>2, <1>3, <1>4

\* The text of a message, by the revisions R there are: 0 is the original.
IsFold(R, m, x) ==
  /\ x \in Texts
  /\ x # 0 => \E v \in R : v.msg = m /\ v.at = x
  /\ \A v \in R : v.msg = m => v.at <= x

\* The largest stamp of a message's revisions is what IsFold says.
LEMMA HighestFold ==
  ASSUME NEW R \in SUBSET Revision, NEW m, NEW S,
         S = {v.at : v \in {x \in R : x.msg = m}}
  PROVE  S \in SUBSET Texts /\ \A x : IsHighest(S, x) <=> IsFold(R, m, x)
<1>1. MaxClock \in Nat
  BY BoundsAssumption DEF BoundsAssumption
<1>2. \A v \in R : v.at \in Texts
  BY <1>1 DEF Revision, Stamps, Texts
<1>3. \A x : x \in S <=> \E v \in R : v.msg = m /\ v.at = x
  OBVIOUS
<1>4. S \in SUBSET Texts
  BY <1>2, <1>3
<1>5. \A x : (\A y \in S : y <= x) <=> (\A v \in R : v.msg = m => v.at <= x)
  BY <1>3
<1> QED
  BY <1>3, <1>4, <1>5 DEF IsHighest, IsFold

\* A text computed as Fold computes it is the fold of those revisions.
LEMMA FoldOf ==
  ASSUME NEW R \in SUBSET Revision, NEW m, NEW f,
         f = Highest({v.at : v \in {x \in R : x.msg = m}})
  PROVE  IsFold(R, m, f)
<1> DEFINE S == {v.at : v \in {x \in R : x.msg = m}}
<1>1. S \in SUBSET Texts /\ \A x : IsHighest(S, x) <=> IsFold(R, m, x)
  BY HighestFold
<1>2. f = Highest(S)
  OBVIOUS
<1> HIDE DEF S
<1> QED
  BY <1>1, <1>2, HighestIs

\* A message has one fold.
LEMMA FoldOnly ==
  ASSUME NEW R \in SUBSET Revision, NEW m, NEW x, NEW y, IsFold(R, m, x), IsFold(R, m, y)
  PROVE  x = y
<1> DEFINE S == {v.at : v \in {z \in R : z.msg = m}}
<1>1. S \in SUBSET Texts /\ \A z : IsHighest(S, z) <=> IsFold(R, m, z)
  BY HighestFold
<1> HIDE DEF S
<1> QED
  BY <1>1, HighestOnly

\* Fold is that text, before and after a step.
LEMMA FoldNow ==
  ASSUME revs \subseteq Revision
  PROVE  \A m : IsFold(revs, m, Fold(m))
BY FoldOf DEF Fold

\* The same of the state a step leads to.
LEMMA FoldThen ==
  ASSUME revs' \subseteq Revision
  PROVE  \A m : IsFold(revs', m, Fold(m)')
BY FoldOf DEF Fold

\* What may be shown are functions from messages to texts.
LEMMA ShowsAre == \A f : f \in Shows <=> IsShown(f)
<1> TAKE f
<1>1. ASSUME f \in Shows PROVE IsShown(f)
  <2>1. PICK D \in SUBSET Stamps : f \in [D -> Texts]
    BY <1>1 DEF Shows
  <2> QED
    BY <2>1 DEF IsShown
<1>2. ASSUME IsShown(f) PROVE f \in Shows
  BY <1>2 DEF IsShown, Shows
<1> QED
  BY <1>1, <1>2

-----------------------------------------------------------------------------
\* What a step does to the database, with the tab's view left alone or not.
view == <<shown, cursor, late, beyond, poll>>

\* A transaction begins.
Begins(t) ==
  /\ t \in Transaction /\ t.at = clock + 1
  /\ clock + Cardinality(open) + 2 <= MaxClock
  /\ clock' = clock + 1 /\ open' = open \cup {t}
  /\ t.kind = "SEND" => (t.mine <=> t.key \in Mine)
  /\ t.kind # "SEND" =>
       /\ ~t.checked /\ t.key = NoKey
       /\ \E r \in rows : r.at = t.msg
       /\ t.mine => t.msg \in DOMAIN shown
  /\ UNCHANGED <<rows, revs, answers, view>>

\* A message is inserted and committed.
Writes(t, r) ==
  /\ t.kind = "SEND" /\ ~Replays(t)
  /\ r \in Row /\ r.at = t.at /\ r.done = clock + 1 /\ r.key = t.key
  /\ clock' = clock + 1 /\ rows' = rows \cup {r} /\ open' = open \ {t}
  /\ UNCHANGED <<revs, view>>

\* The check of a revision finds no deletion.
Checks(t, u) ==
  /\ t.kind # "SEND" /\ ~Deleted(t.msg)
  /\ u \in Transaction /\ u.checked
  /\ u.kind = t.kind /\ u.at = t.at /\ u.key = t.key
  /\ u.msg = t.msg /\ u.mine = t.mine
  /\ open' = (open \ {t}) \cup {u}
  /\ UNCHANGED <<clock, rows, revs, answers, view>>

\* A revision is committed.
Revises(t, v) ==
  /\ t.kind # "SEND" /\ t.checked
  /\ v \in Revision
  /\ v.msg = t.msg /\ v.at = t.at /\ v.done = clock + 1 /\ v.action = t.kind
  /\ clock' = clock + 1 /\ revs' = revs \cup {v} /\ open' = open \ {t}
  /\ UNCHANGED <<rows, view>>

\* No row changes, and transactions end at most, or lose their caller.
Rests ==
  /\ UNCHANGED <<clock, rows, revs>>
  /\ open' \subseteq Transaction
  /\ IsFiniteSet(open') /\ Cardinality(open') <= Cardinality(open)
  /\ \A t, u \in open' : t.at = u.at => t = u
  /\ \A u \in open' :
       \E t \in open :
         /\ u.kind = t.kind /\ u.at = t.at /\ u.key = t.key /\ u.msg = t.msg
         /\ u.checked = t.checked /\ (u.mine => t.mine)
         /\ u.kind = "SEND" => u.mine = t.mine

\* A finite set is one smaller, or one larger.
LEMMA OneMore ==
  ASSUME NEW S, IsFiniteSet(S), NEW x, NEW T, T = S \cup {x}
  PROVE  IsFiniteSet(T) /\ Cardinality(T) <= Cardinality(S) + 1 /\ Cardinality(T) \in Nat
<1>1. IsFiniteSet(T) /\ Cardinality(T) = IF x \in S THEN Cardinality(S) ELSE Cardinality(S) + 1
  BY FS_AddElement
<1>2. Cardinality(S) \in Nat
  BY FS_CardinalityType
<1> QED
  BY <1>1, <1>2

\* A finite set loses one element and one from its size.
LEMMA OneLess ==
  ASSUME NEW S, IsFiniteSet(S), NEW x \in S, NEW T, T = S \ {x}
  PROVE  IsFiniteSet(T) /\ Cardinality(T) + 1 = Cardinality(S) /\ Cardinality(T) \in Nat
<1>1. IsFiniteSet(T) /\ Cardinality(T) = Cardinality(S) - 1
  BY FS_RemoveElement
<1>2. Cardinality(S) \in Nat /\ Cardinality(T) \in Nat
  BY <1>1, FS_CardinalityType
<1> QED
  BY <1>1, <1>2

\* With transactions as they are, or one less, nothing has happened.
LEMMA SameRests ==
  ASSUME StampsOK, UNCHANGED <<clock, rows, revs>>,
         open' = open \/ \E t \in open : open' = open \ {t}
  PROVE  Rests
<1>1. /\ IsFiniteSet(open) /\ Cardinality(open) \in Nat /\ open \subseteq Transaction
      /\ \A t, u \in open : t.at = u.at => t = u
  BY FS_CardinalityType DEF StampsOK
<1>2. open' \subseteq open
  OBVIOUS
<1>3. IsFiniteSet(open') /\ Cardinality(open') <= Cardinality(open)
  <2>1. CASE open' = open
    BY <1>1, <2>1
  <2>2. ASSUME NEW t \in open, open' = open \ {t}
        PROVE  IsFiniteSet(open') /\ Cardinality(open') <= Cardinality(open)
    BY <1>1, <2>2, OneLess
  <2> QED
    BY <2>1, <2>2
<1> QED
  BY <1>1, <1>2, <1>3 DEF Rests

-----------------------------------------------------------------------------
\* The steps of the database are of these forms.
LEMMA Bounds ==
  /\ MaxClock \in Nat /\ MaxTries \in Nat /\ MaxOpenings \in Nat
  /\ Stamps = 1 .. MaxClock /\ Texts = 0 .. MaxClock
BY BoundsAssumption DEF BoundsAssumption, Stamps, Texts

\* A transaction that begins takes the next stamp and leaves room for the open ones to end.
LEMMA BeginStep ==
  ASSUME StampsOK, TabOK, NEW t, Begin(t), NEW key \in Keys, NEW try \in 0 .. MaxTries,
         t = Sending(key, try), UNCHANGED <<rows, revs, answers, view>>
  PROVE  Begins(t)
<1>1. /\ clock \in Nat /\ Cardinality(open) \in Nat
      /\ clock + Cardinality(open) + 2 <= MaxClock
      /\ clock' = clock + 1 /\ open' = open \cup {t}
  BY FS_CardinalityType DEF StampsOK, Begin
<1>2. clock + 1 \in Stamps /\ 0 \in Texts
  BY <1>1, Bounds
<1>3. PICK mine \in BOOLEAN : mine = (key \in Mine)
  <2>1. (key \in Mine) \in BOOLEAN
    OBVIOUS
  <2> QED
    BY <2>1, Zenon
<1>4. t = [kind |-> "SEND", at |-> clock + 1, key |-> key, try |-> try, msg |-> 0,
           mine |-> mine, checked |-> TRUE]
  BY <1>3 DEF Sending
<1>5. /\ t \in Transaction /\ t.at = clock + 1 /\ t.kind = "SEND"
      /\ t.mine = mine /\ t.key = key
  BY <1>2, <1>4 DEF Transaction
<1> QED
  BY <1>1, <1>3, <1>5 DEF Begins

\* Every step of the database has one of the five forms, and none touches the tab.
LEMMA DatabaseSteps ==
  ASSUME StampsOK, RevisionsOK, TabOK, Database
  PROVE  \/ \E t : Begins(t)
         \/ \E t \in open : \E r : Writes(t, r)
         \/ \E t \in open : \E u : Checks(t, u)
         \/ \E t \in open : \E v : Revises(t, v)
         \/ Rests /\ UNCHANGED view
<1> DEFINE Goal ==
      \/ \E t : Begins(t)
      \/ \E t \in open : \E r : Writes(t, r)
      \/ \E t \in open : \E u : Checks(t, u)
      \/ \E t \in open : \E v : Revises(t, v)
      \/ Rests /\ UNCHANGED view
<1>0. /\ clock \in Nat /\ open \subseteq Transaction
      /\ IsFiniteSet(open) /\ Cardinality(open) \in Nat
      /\ clock + Cardinality(open) <= MaxClock
      /\ rows \subseteq Row
  BY FS_CardinalityType DEF StampsOK
<1>1. ASSUME NEW c \in calls, Receive(c)
      PROVE  Goal
  <2>1. c.key \in Keys /\ c.try \in 0 .. MaxTries
    BY Bounds DEF TabOK, Keys
  <2>2. Begin(Sending(c.key, c.try)) /\ UNCHANGED <<rows, revs, answers, view>>
    BY <1>1 DEF Receive, view, tab
  <2>3. PICK t : t = Sending(c.key, c.try)
    OBVIOUS
  <2>4. Begins(t)
    BY <2>1, <2>2, <2>3, BeginStep
  <2> QED
    BY <2>4
<1>2. ASSUME BeginTheirs
      PROVE  Goal
  <2>1. NoKey \in Keys /\ 0 \in 0 .. MaxTries
    BY Bounds DEF Keys
  <2>2. Begin(Sending(NoKey, 0)) /\ UNCHANGED <<rows, revs, answers, view>>
    BY <1>2 DEF BeginTheirs, view, tab
  <2>3. PICK t : t = Sending(NoKey, 0)
    OBVIOUS
  <2>4. Begins(t)
    BY <2>1, <2>2, <2>3, BeginStep
  <2> QED
    BY <2>4
<1>3. ASSUME NEW r \in rows, NEW action \in {"EDIT", "DELETE"}, NEW mine \in BOOLEAN,
             BeginRevision(action, r, mine)
      PROVE  Goal
  <2>1. PICK t : t = [kind |-> action, at |-> clock + 1, key |-> NoKey, try |-> 0,
                      msg |-> r.at, mine |-> mine, checked |-> FALSE]
    OBVIOUS
  <2>2. /\ Begin(t) /\ UNCHANGED <<rows, revs, answers, view>>
        /\ mine => r.at \in DOMAIN shown
    BY <1>3, <2>1 DEF BeginRevision, view, tab
  <2>3. /\ clock + Cardinality(open) + 2 <= MaxClock
        /\ clock' = clock + 1 /\ open' = open \cup {t}
    BY <2>2 DEF Begin
  <2>4. clock + 1 \in Stamps /\ r.at \in Texts /\ 0 \in 0 .. MaxTries /\ NoKey \in Keys
    BY <1>0, <2>3, Bounds DEF Row, Keys
  <2>5. /\ t \in Transaction /\ t.at = clock + 1 /\ t.kind # "SEND"
        /\ ~t.checked /\ t.key = NoKey /\ t.msg = r.at /\ t.mine = mine
    BY <2>1, <2>4 DEF Transaction
  <2>6. Begins(t)
    BY <2>2, <2>3, <2>5 DEF Begins
  <2> QED
    BY <2>6
<1>4. ASSUME NEW t \in open, sendMessage(t)
      PROVE  Goal
  <2>1. /\ t.kind = "SEND" /\ open' = open \ {t} /\ UNCHANGED <<revs, view>>
        /\ IF Replays(t) THEN UNCHANGED <<clock, rows>>
           ELSE /\ clock' = clock + 1
                /\ rows' = rows \cup {[at |-> t.at, done |-> clock + 1, key |-> t.key]}
    BY <1>4 DEF sendMessage, view, tab
  <2>2. CASE Replays(t)
    BY <2>1, <2>2, SameRests
  <2>3. CASE ~Replays(t)
    <3>1. PICK r : r = [at |-> t.at, done |-> clock + 1, key |-> t.key]
      OBVIOUS
    <3>2. clock + 1 \in Stamps
      <4>1. Cardinality(open) # 0
        BY <1>0, FS_EmptySet
      <4> QED
        BY <1>0, <4>1, Bounds
    <3>3. r \in Row /\ r.at = t.at /\ r.done = clock + 1 /\ r.key = t.key
      BY <1>0, <3>1, <3>2 DEF Row, Transaction
    <3>4. Writes(t, r)
      BY <2>1, <2>3, <3>1, <3>3 DEF Writes
    <3> QED
      BY <3>4
  <2> QED
    BY <2>2, <2>3
<1>5. ASSUME NEW t \in open, CheckRevision(t)
      PROVE  Goal
  <2>1. PICK u : u = [t EXCEPT !.checked = TRUE]
    OBVIOUS
  <2>2. /\ t.kind # "SEND" /\ ~Deleted(t.msg) /\ open' = (open \ {t}) \cup {u}
        /\ UNCHANGED <<clock, rows, revs, answers, view>>
    BY <1>5, <2>1 DEF CheckRevision, MayRevise, view, tab
  <2>3. /\ u \in Transaction /\ u.checked
        /\ u.kind = t.kind /\ u.at = t.at /\ u.key = t.key
        /\ u.msg = t.msg /\ u.mine = t.mine
    BY <1>0, <2>1 DEF Transaction
  <2>4. Checks(t, u)
    BY <2>2, <2>3 DEF Checks
  <2> QED
    BY <2>4
<1>6. ASSUME NEW t \in open, CommitRevision(t)
      PROVE  Goal
  <2>1. PICK v : v = [msg |-> t.msg, at |-> t.at, done |-> clock + 1, action |-> t.kind]
    OBVIOUS
  <2>2. /\ t.kind # "SEND" /\ t.checked /\ open' = open \ {t}
        /\ clock' = clock + 1 /\ revs' = revs \cup {v}
        /\ UNCHANGED <<rows, view>>
    BY <1>6, <2>1 DEF CommitRevision, view, tab
  <2>3. clock + 1 \in Stamps
    <3>1. Cardinality(open) # 0
      BY <1>0, FS_EmptySet
    <3> QED
      BY <1>0, <3>1, Bounds
  <2>4. /\ v \in Revision /\ v.msg = t.msg /\ v.at = t.at /\ v.done = clock + 1
        /\ v.action = t.kind
    <3>1. t.msg \in Stamps
      BY <1>0, <2>2 DEF RevisionsOK, Row
    <3> QED
      BY <1>0, <2>1, <2>2, <2>3, <3>1 DEF Revision, Transaction
  <2>5. Revises(t, v)
    BY <2>2, <2>4 DEF Revises
  <2> QED
    BY <2>5
<1>7. ASSUME NEW t \in open, Abort(t)
      PROVE  Goal
  <2>1. open' = open \ {t} /\ UNCHANGED <<clock, rows, revs, view>>
    BY <1>7 DEF Abort, view, tab
  <2> QED
    BY <2>1, SameRests
<1> QED
  BY <1>1, <1>2, <1>3, <1>4, <1>5, <1>6, <1>7 DEF Database

-----------------------------------------------------------------------------
\* The tab's steps change no row, and no transaction but for who waits for it.
LEMMA LeaveRests ==
  ASSUME StampsOK, LeavePage
  PROVE  Rests
<1> DEFINE left(t) == IF t.kind = "SEND" THEN t ELSE [t EXCEPT !.mine = FALSE]
           f == [t \in open |-> left(t)]
<1>1. /\ IsFiniteSet(open) /\ open \subseteq Transaction
      /\ \A t, u \in open : t.at = u.at => t = u
  BY DEF StampsOK
<1>2. UNCHANGED <<clock, rows, revs>> /\ open' = {left(t) : t \in open}
  BY DEF LeavePage
<1>3. ASSUME NEW t \in open
      PROVE  /\ left(t) \in Transaction /\ left(t).kind = t.kind /\ left(t).at = t.at
             /\ left(t).key = t.key /\ left(t).msg = t.msg /\ left(t).checked = t.checked
             /\ left(t).mine => t.mine
             /\ left(t).kind = "SEND" => left(t).mine = t.mine
  <2>1. CASE t.kind = "SEND"
    BY <1>1, <2>1
  <2>2. CASE t.kind # "SEND"
    <3>1. PICK u : u = [t EXCEPT !.mine = FALSE]
      OBVIOUS
    <3>2. /\ u \in Transaction /\ u.kind = t.kind /\ u.at = t.at /\ u.key = t.key
          /\ u.msg = t.msg /\ u.checked = t.checked /\ u.mine = FALSE
      BY <1>1, <3>1 DEF Transaction
    <3>3. left(t) = u
      BY <2>2, <3>1
    <3> QED
      BY <2>2, <3>2, <3>3
  <2> QED
    BY <2>1, <2>2
<1>4. f \in Surjection(open, open')
  BY <1>2 DEF Surjection
<1>5. IsFiniteSet(open') /\ Cardinality(open') <= Cardinality(open)
  BY <1>1, <1>4, FS_Surjection
<1> HIDE DEF left, f
<1>6. open' \subseteq Transaction
  BY <1>2, <1>3
<1>7. \A u \in open' :
        \E t \in open :
          /\ u.kind = t.kind /\ u.at = t.at /\ u.key = t.key /\ u.msg = t.msg
          /\ u.checked = t.checked /\ (u.mine => t.mine)
          /\ u.kind = "SEND" => u.mine = t.mine
  <2> TAKE u \in open'
  <2>1. PICK t \in open : u = left(t)
    BY <1>2
  <2> QED
    BY <1>3, <2>1
<1>8. \A u, v \in open' : u.at = v.at => u = v
  <2>1. SUFFICES ASSUME NEW u \in open', NEW v \in open', u.at = v.at
                 PROVE  u = v
    OBVIOUS
  <2>2. PICK s \in open : u = left(s)
    BY <1>2
  <2>3. PICK t \in open : v = left(t)
    BY <1>2
  <2>4. s = t
    BY <1>1, <1>3, <2>1, <2>2, <2>3
  <2> QED
    BY <2>2, <2>3, <2>4
<1> QED
  BY <1>2, <1>5, <1>6, <1>7, <1>8 DEF Rests

\* A step of the tab leaves the database alone.
LEMMA TabRests ==
  ASSUME StampsOK, Send \/ Poll
  PROVE  Rests
<1>1. CASE Send
  <2>1. UNCHANGED <<clock, rows, revs, open>>
    BY <1>1 DEF Send, deliverText, markFailed, TakeAnswer, LoseAnswer, server
  <2> QED
    BY <2>1, SameRests
<1>2. CASE Poll
  <2>1. CASE LeavePage
    BY <2>1, LeaveRests
  <2>2. CASE ~LeavePage
    <3>1. UNCHANGED <<clock, rows, revs, open>>
      BY <1>2, <2>2 DEF Poll, StartPoll, ReadRows, ReadRevisions, ReadCursorFirst,
        TakePoll, PollFails, OpenPage, untouchedByPoll, server
    <3> QED
      BY <3>1, SameRests
  <2> QED
    BY <2>1, <2>2
<1> QED
  BY <1>1, <1>2

-----------------------------------------------------------------------------
\* Every part of the invariant about the database is kept by the five forms.
DatabaseStep ==
  \/ \E t : Begins(t)
  \/ \E t \in open : \E r : Writes(t, r)
  \/ \E t \in open : \E u : Checks(t, u)
  \/ \E t \in open : \E v : Revises(t, v)
  \/ Rests

\* A number more of transactions and commits fits, and one less does.
LEMMA StampsKept ==
  ASSUME StampsOK, DatabaseStep
  PROVE  StampsOK'
<1>0. /\ clock \in Nat
      /\ IsFiniteSet(open) /\ Cardinality(open) \in Nat
      /\ clock + Cardinality(open) <= MaxClock
      /\ rows \subseteq Row /\ revs \subseteq Revision /\ open \subseteq Transaction
      /\ \A r \in rows \cup revs : r.at \in Nat /\ r.done \in Nat
      /\ \A t \in open : t.at \in Nat
  <2>1. Stamps \subseteq Nat
    BY Bounds
  <2> QED
    BY <2>1, FS_CardinalityType DEF StampsOK, Row, Revision, Transaction
<1>1. /\ \A r \in rows \cup revs : r.at < r.done /\ r.done <= clock
      /\ \A r, s \in rows \cup revs : r.at = s.at => r = s
      /\ \A t \in open : t.at <= clock /\ \A r \in rows \cup revs : r.at # t.at
      /\ \A t, u \in open : t.at = u.at => t = u
  BY DEF StampsOK
<1>2. ASSUME NEW t, Begins(t) PROVE StampsOK'
  <2>1. /\ t \in Transaction /\ t.at = clock + 1
        /\ clock + Cardinality(open) + 2 <= MaxClock
        /\ clock' = clock + 1 /\ open' = open \cup {t}
        /\ rows' = rows /\ revs' = revs
    BY <1>2 DEF Begins
  <2>2. IsFiniteSet(open') /\ clock' + Cardinality(open') <= MaxClock
    <3>1. /\ IsFiniteSet(open') /\ Cardinality(open') <= Cardinality(open) + 1
          /\ Cardinality(open') \in Nat
      BY <1>0, <2>1, OneMore
    <3> QED
      BY <1>0, <2>1, <3>1, Bounds
  <2>3. \A r \in rows' \cup revs' : r.at < r.done /\ r.done <= clock'
    BY <1>0, <1>1, <2>1
  <2>4. \A u \in open' : u.at <= clock' /\ \A r \in rows' \cup revs' : r.at # u.at
    BY <1>0, <1>1, <2>1
  <2>5. \A u, v \in open' : u.at = v.at => u = v
    BY <1>0, <1>1, <2>1
  <2> QED
    BY <1>0, <1>1, <2>1, <2>2, <2>3, <2>4, <2>5 DEF StampsOK
<1>3. ASSUME NEW t \in open, NEW r, NEW v,
             Writes(t, r) \/ Revises(t, v)
      PROVE  StampsOK'
  <2>1. /\ clock' = clock + 1 /\ open' = open \ {t}
        /\ rows' \subseteq Row /\ revs' \subseteq Revision
    BY <1>0, <1>3 DEF Writes, Revises
  <2>2. \E n : /\ rows' \cup revs' = (rows \cup revs) \cup {n}
               /\ n.at = t.at /\ n.done = clock + 1
    <3>1. CASE Writes(t, r)
      <4>1. /\ rows' \cup revs' = (rows \cup revs) \cup {r}
            /\ r.at = t.at /\ r.done = clock + 1
        BY <3>1 DEF Writes
      <4> QED
        BY <4>1
    <3>2. CASE Revises(t, v)
      <4>1. /\ rows' \cup revs' = (rows \cup revs) \cup {v}
            /\ v.at = t.at /\ v.done = clock + 1
        BY <3>2 DEF Revises
      <4> QED
        BY <4>1
    <3> QED
      BY <1>3, <3>1, <3>2
  <2>3. PICK n : /\ rows' \cup revs' = (rows \cup revs) \cup {n}
                 /\ n.at = t.at /\ n.done = clock + 1
    BY <2>2
  <2>4. IsFiniteSet(open') /\ clock' + Cardinality(open') <= MaxClock
    <3>1. /\ IsFiniteSet(open') /\ Cardinality(open') + 1 = Cardinality(open)
          /\ Cardinality(open') \in Nat
      BY <1>0, <2>1, OneLess
    <3> QED
      BY <1>0, <2>1, <3>1, Bounds
  <2>5. \A s \in rows' \cup revs' : s.at < s.done /\ s.done <= clock'
    BY <1>0, <1>1, <2>1, <2>3
  <2>6. \A s, u \in rows' \cup revs' : s.at = u.at => s = u
    BY <1>1, <2>3
  <2>7. \A u \in open' : u.at <= clock' /\ \A s \in rows' \cup revs' : s.at # u.at
    BY <1>0, <1>1, <2>1, <2>3
  <2>8. clock' \in Nat /\ open' \subseteq Transaction
    BY <1>0, <2>1
  <2> QED
    BY <1>1, <2>1, <2>4, <2>5, <2>6, <2>7, <2>8 DEF StampsOK
<1>4. ASSUME NEW t \in open, NEW u, Checks(t, u) PROVE StampsOK'
  <2>1. /\ u \in Transaction /\ u.at = t.at /\ open' = (open \ {t}) \cup {u}
        /\ clock' = clock /\ rows' = rows /\ revs' = revs
    BY <1>4 DEF Checks
  <2>2. IsFiniteSet(open') /\ clock' + Cardinality(open') <= MaxClock
    <3>1. PICK S : S = open \ {t}
      OBVIOUS
    <3>2. IsFiniteSet(S) /\ Cardinality(S) + 1 = Cardinality(open) /\ Cardinality(S) \in Nat
      BY <1>0, <3>1, OneLess
    <3>3. /\ IsFiniteSet(open') /\ Cardinality(open') <= Cardinality(S) + 1
          /\ Cardinality(open') \in Nat
      BY <2>1, <3>1, <3>2, OneMore
    <3> QED
      BY <1>0, <2>1, <3>2, <3>3, Bounds
  <2>3. \A w \in open' : w.at <= clock' /\ \A s \in rows' \cup revs' : s.at # w.at
    BY <1>1, <2>1
  <2>4. \A v, w \in open' : v.at = w.at => v = w
    BY <1>1, <2>1
  <2> QED
    BY <1>0, <1>1, <2>1, <2>2, <2>3, <2>4 DEF StampsOK
<1>5. ASSUME Rests PROVE StampsOK'
  <2>1. /\ clock' = clock /\ rows' = rows /\ revs' = revs
        /\ open' \subseteq Transaction
        /\ IsFiniteSet(open') /\ Cardinality(open') <= Cardinality(open)
        /\ \A t, u \in open' : t.at = u.at => t = u
        /\ \A u \in open' : \E t \in open : u.at = t.at
    BY <1>5 DEF Rests
  <2>2. clock' + Cardinality(open') <= MaxClock
    <3>1. Cardinality(open') \in Nat
      BY <2>1, FS_CardinalityType
    <3> QED
      BY <1>0, <2>1, <3>1, Bounds
  <2>3. \A u \in open' : u.at <= clock' /\ \A s \in rows' \cup revs' : s.at # u.at
    BY <1>1, <2>1
  <2> QED
    BY <1>0, <1>1, <2>1, <2>2, <2>3 DEF StampsOK
<1> QED
  BY <1>2, <1>3, <1>4, <1>5 DEF DatabaseStep

\* Rows are never taken back.
LEMMA DatabaseGrows ==
  ASSUME DatabaseStep
  PROVE  /\ rows \subseteq rows' /\ revs \subseteq revs'
         /\ \A m, x : Known(m, x) => Known(m, x)'
<1>1. rows \subseteq rows' /\ revs \subseteq revs'
  BY DEF DatabaseStep, Begins, Writes, Checks, Revises, Rests
<1> QED
  BY <1>1 DEF Known

\* What is under way was so before, or has just begun.
LEMMA UnderWay ==
  ASSUME DatabaseStep, NEW u \in open'
  PROVE  \/ Begins(u)
         \/ \E t \in open :
              /\ u.kind = t.kind /\ u.at = t.at /\ u.key = t.key /\ u.msg = t.msg
              /\ u.mine => t.mine
              /\ u.kind = "SEND" => u.mine = t.mine
              /\ u.kind # "SEND" /\ u.checked => t.checked \/ ~Deleted(t.msg)
<1>1. ASSUME NEW t, Begins(t) PROVE u = t \/ u \in open
  BY <1>1 DEF Begins
<1>2. ASSUME NEW t \in open, NEW r, Writes(t, r) \/ Revises(t, r) PROVE u \in open
  BY <1>2 DEF Writes, Revises
<1>3. ASSUME NEW t \in open, NEW v, Checks(t, v)
      PROVE  \/ u \in open
             \/ /\ u.kind = t.kind /\ u.at = t.at /\ u.key = t.key /\ u.msg = t.msg
                /\ u.mine = t.mine /\ u.kind # "SEND" /\ ~Deleted(t.msg)
  BY <1>3 DEF Checks
<1>4. ASSUME Rests
      PROVE  \E t \in open :
               /\ u.kind = t.kind /\ u.at = t.at /\ u.key = t.key /\ u.msg = t.msg
               /\ u.mine => t.mine
               /\ u.kind = "SEND" => u.mine = t.mine
               /\ u.checked = t.checked
  BY <1>4 DEF Rests
<1> QED
  BY <1>1, <1>2, <1>3, <1>4 DEF DatabaseStep

\* Revisions follow the messages they are of.
LEMMA RevisionsKept ==
  ASSUME StampsOK, RevisionsOK, DatabaseStep
  PROVE  RevisionsOK'
<1>1. rows \subseteq rows' /\ revs \subseteq revs'
  BY DatabaseGrows
<1>2. /\ \A v \in revs : \E r \in rows : r.at = v.msg /\ r.at < v.at
      /\ \A t \in open : t.kind # "SEND" => \E r \in rows : r.at = t.msg /\ r.at < t.at
  BY DEF RevisionsOK
<1>3. ASSUME NEW u \in open', u.kind # "SEND"
      PROVE  \E r \in rows' : r.at = u.msg /\ r.at < u.at
  <2>1. CASE Begins(u)
    <3>1. u.at = clock + 1 /\ \E r \in rows : r.at = u.msg
      BY <1>3, <2>1 DEF Begins
    <3>2. /\ clock \in Nat
          /\ \A r \in rows : r.at \in Nat /\ r.done \in Nat /\ r.at < r.done /\ r.done <= clock
      BY Bounds DEF StampsOK, Row
    <3> QED
      BY <1>1, <3>1, <3>2
  <2>2. ASSUME NEW t \in open, u.kind = t.kind, u.at = t.at, u.msg = t.msg
        PROVE  \E r \in rows' : r.at = u.msg /\ r.at < u.at
    BY <1>1, <1>2, <1>3, <2>2
  <2> QED
    BY <2>1, <2>2, UnderWay
<1>4. ASSUME NEW v \in revs'
      PROVE  \E r \in rows' : r.at = v.msg /\ r.at < v.at
  <2>1. v \in revs \/ \E t \in open : t.kind # "SEND" /\ v.msg = t.msg /\ v.at = t.at
    BY <1>4 DEF DatabaseStep, Begins, Writes, Checks, Revises, Rests
  <2> QED
    BY <1>1, <1>2, <2>1
<1> QED
  BY <1>3, <1>4 DEF RevisionsOK

\* A message is inserted only if it is not there.
LEMMA SentOnceKept ==
  ASSUME StampsOK, SentOnce, DatabaseStep
  PROVE  SentOnce'
<1>1. CASE rows' = rows
  BY <1>1 DEF SentOnce
<1>2. ASSUME NEW t \in open, NEW r, Writes(t, r) PROVE SentOnce'
  <2>1. rows' = rows \cup {r} /\ r.key = t.key
    BY <1>2 DEF Writes
  <2>2. ~\E s \in rows : s.key = r.key /\ s.key # NoKey
    BY <1>2, <2>1 DEF Writes, Replays
  <2> QED
    BY <2>1, <2>2 DEF SentOnce
<1> QED
  BY <1>1, <1>2 DEF DatabaseStep, Begins, Checks, Revises, Rests

\* Where no edit can undo a deletion any more, the message is deleted.
LEMMA FinalIsDeleted ==
  ASSUME StampsOK, NEW d \in revs, d.action = "DELETE",
         \A v \in revs : v.msg = d.msg /\ d.at < v.at => v.action = "DELETE"
  PROVE  Deleted(d.msg)
<1>1. IsFold(revs, d.msg, Fold(d.msg))
  BY FoldNow DEF StampsOK
<1>2. \A v \in revs : v.at \in Nat /\ v.at # 0
  BY Bounds DEF StampsOK, Revision
<1>3. d.at <= Fold(d.msg) /\ Fold(d.msg) \in Nat
  BY <1>1, Bounds DEF IsFold
<1>4. PICK v \in revs : v.msg = d.msg /\ v.at = Fold(d.msg)
  BY <1>1, <1>2, <1>3 DEF IsFold
<1>5. v.at = d.at => v = d
  BY DEF StampsOK
<1>6. v.action = "DELETE"
  BY <1>2, <1>3, <1>4, <1>5
<1> QED
  BY <1>4, <1>6 DEF Deleted

\* The hard case is the edit that is checked: it finds the deletion, or one
\* that undid it.
LEMMA DeletionsKept ==
  ASSUME StampsOK, DeletionsOK, DatabaseStep
  PROVE  DeletionsOK'
<1>0. /\ clock \in Nat
      /\ \A v \in revs : v.at \in Nat /\ v.done \in Nat /\ v.at < v.done /\ v.done <= clock
      /\ \A t \in open : t.at \in Nat /\ t.at <= clock
      /\ \A v \in revs, t \in open : v.at # t.at
  BY Bounds DEF StampsOK, Revision, Transaction
<1>1. rows \subseteq rows' /\ revs \subseteq revs'
  BY DatabaseGrows
<1>2. SUFFICES ASSUME NEW d \in revs', d.action = "DELETE"
               PROVE  Undone(d)' \/ Final(d)'
  BY DEF DeletionsOK
<1>3. ASSUME NEW t \in open, NEW v, Revises(t, v), d = v
      PROVE  Undone(d)' \/ Final(d)'
  <2>1. /\ v.at = t.at /\ v.done = clock + 1 /\ v.action = t.kind /\ v.msg = t.msg
        /\ revs' = revs \cup {v} /\ open' = open \ {t}
    BY <1>3 DEF Revises
  <2>2. CASE \E e \in revs : e.msg = d.msg /\ e.action = "EDIT" /\ d.at < e.at
    <3>1. PICK e \in revs : e.msg = d.msg /\ e.action = "EDIT" /\ d.at < e.at
      BY <2>2
    <3>2. e.at < d.done
      BY <1>0, <1>3, <2>1, <3>1
    <3> QED
      BY <1>1, <3>1, <3>2 DEF Undone
  <2>3. CASE ~\E e \in revs : e.msg = d.msg /\ e.action = "EDIT" /\ d.at < e.at
    <3>1. \A e \in revs' : e.msg = d.msg /\ d.at < e.at => e.action = "DELETE"
      <4>1. \A e \in revs : e.action \in {"EDIT", "DELETE"}
        BY DEF StampsOK, Revision
      <4> QED
        BY <1>2, <1>3, <2>1, <2>3, <4>1
    <3>2. \A u \in open' : u.at < d.done
      BY <1>0, <1>3, <2>1
    <3> QED
      BY <3>1, <3>2 DEF Final
  <2> QED
    BY <2>2, <2>3
<1>4. ASSUME d \in revs
      PROVE  Undone(d)' \/ Final(d)'
  <2>1. CASE Undone(d)
    BY <1>1, <2>1 DEF Undone
  <2>2. CASE Final(d) /\ ~Undone(d)
    <3>1. /\ \A v \in revs : v.msg = d.msg /\ d.at < v.at => v.action = "DELETE"
          /\ \A t \in open : t.kind = "EDIT" /\ t.checked /\ t.msg = d.msg => t.at < d.done
      BY <2>2 DEF Final
    <3>2. Deleted(d.msg)
      BY <1>2, <1>4, <3>1, FinalIsDeleted
    <3>3. \A u \in open' : u.kind = "EDIT" /\ u.checked /\ u.msg = d.msg => u.at < d.done
      <4>1. SUFFICES ASSUME NEW u \in open', u.kind = "EDIT", u.checked, u.msg = d.msg
                     PROVE  u.at < d.done
        OBVIOUS
      <4>2. ~Begins(u)
        BY <4>1 DEF Begins
      <4>3. PICK t \in open :
              /\ u.kind = t.kind /\ u.at = t.at /\ u.msg = t.msg
              /\ u.kind # "SEND" /\ u.checked => t.checked \/ ~Deleted(t.msg)
        BY <4>2, UnderWay
      <4> QED
        BY <3>1, <3>2, <4>1, <4>3
    <3>4. CASE revs' = revs
      BY <3>1, <3>3, <3>4 DEF Final
    <3>5. ASSUME NEW t \in open, NEW v, Revises(t, v)
          PROVE  Undone(d)' \/ Final(d)'
      <4>1. /\ v.at = t.at /\ v.action = t.kind /\ v.msg = t.msg /\ t.checked
            /\ revs' = revs \cup {v} /\ t.kind # "SEND"
        BY <3>5 DEF Revises
      <4>2. CASE v.msg = d.msg /\ v.action = "EDIT" /\ d.at < v.at
        <5>1. v.at < d.done
          BY <3>1, <4>1, <4>2
        <5> QED
          BY <4>1, <4>2, <5>1 DEF Undone
      <4>3. CASE ~(v.msg = d.msg /\ v.action = "EDIT" /\ d.at < v.at)
        <5>1. v.action \in {"EDIT", "DELETE"}
          BY <4>1 DEF StampsOK, Transaction
        <5>2. \A e \in revs' : e.msg = d.msg /\ d.at < e.at => e.action = "DELETE"
          BY <3>1, <4>1, <4>3, <5>1
        <5> QED
          BY <3>3, <5>2 DEF Final
      <4> QED
        BY <4>2, <4>3
    <3> QED
      BY <3>4, <3>5 DEF DatabaseStep, Begins, Writes, Checks, Rests
  <2> QED
    BY <1>2, <1>4, <2>1, <2>2 DEF DeletionsOK
<1> QED
  BY <1>2, <1>3, <1>4 DEF DatabaseStep, Begins, Writes, Checks, Revises, Rests

-----------------------------------------------------------------------------
\* What a step of the tab does to what it shows.  f is g with h merged over it:
Blends(f, g, h) ==
  /\ f \in Shows
  /\ \A m : m \in DOMAIN f <=> m \in DOMAIN g \/ m \in DOMAIN h
  /\ \A m \in DOMAIN f : f[m] = IF m \in DOMAIN h THEN h[m] ELSE g[m]

\* A request that has read nothing, of a page that asks for everything, or
\* from where the tab is.
Fresh(p) ==
  /\ p \in Request
  /\ p.step \in {"IDLE", "START"} /\ DOMAIN p.items = {}
  /\ p.slipped = {} /\ p.beyond = {}
  /\ \/ p.anchor = 0 /\ p.cursor = 0
     \/ /\ p.anchor = Highest(DOMAIN shown) /\ p.cursor = cursor
        /\ p.kind # "DELTA" => DOMAIN shown = {}

Renews == Fresh(poll') /\ UNCHANGED <<shown, cursor, late, beyond>>

Takes(a) ==
  /\ a \in answers
  /\ Blends(shown', shown, [m \in {a.msg} |-> a.text])
  /\ late' = IF a.text = Fold(a.msg) THEN late \ {a.msg} ELSE late \cup {a.msg}
  /\ UNCHANGED <<cursor, beyond, poll>>

Lists(p) ==
  /\ poll.step \in {"START", "CURSOR"} /\ p.step \in {"ROWS", "ANSWER"}
  /\ p.step = "ROWS" <=> poll.step = "START"
  /\ \A m : m \in DOMAIN p.items <=> \E r \in rows : r.at = m /\ poll.anchor < r.at
  /\ \A m \in DOMAIN p.items : p.items[m] = Fold(m)
  /\ p.cursor = poll.cursor /\ p.slipped = poll.slipped /\ p.beyond = poll.beyond

Seconds(p) ==
  /\ poll.step = "ROWS" /\ p.step = "ANSWER" /\ p.cursor = NewCursor
  /\ \A m \in DOMAIN poll.items : m \in DOMAIN p.items /\ p.items[m] = poll.items[m]
  /\ \A m \in DOMAIN p.items \ DOMAIN poll.items :
       /\ m \in Changed /\ p.items[m] = Fold(m)
       /\ m <= poll.anchor \/ m \in p.beyond
  /\ poll.kind # "DELTA" => p.beyond = {}
  /\ \A m \in Changed :
       m \in p.slipped \/ (m \in DOMAIN p.items /\ p.items[m] = Fold(m))

Firsts(p) ==
  /\ poll.kind # "DELTA" /\ poll.step = "START" /\ p.step = "CURSOR" /\ p.cursor = NewCursor
  /\ p.items = poll.items /\ p.slipped = poll.slipped /\ p.beyond = poll.beyond

Reads ==
  /\ poll' \in Request /\ poll'.kind = poll.kind /\ poll'.anchor = poll.anchor
  /\ Lists(poll') \/ Seconds(poll') \/ Firsts(poll')
  /\ UNCHANGED <<shown, cursor, late, beyond>>

Polls ==
  /\ poll.step = "ANSWER"
  /\ Blends(shown', shown, poll.items)
  /\ cursor' = poll.cursor
  /\ late' = (late \ DOMAIN poll.items) \cup poll.slipped
  /\ beyond' = beyond \cup poll.beyond
  /\ poll' = Resting

Opens ==
  /\ poll.step = "ANSWER" /\ poll.kind = "OPEN"
  /\ Blends(shown', poll.items, shown)
  /\ cursor' = poll.cursor
  /\ late' = late \cup poll.slipped \cup
       {m \in DOMAIN shown \cap DOMAIN poll.items : shown[m] # poll.items[m]}
  /\ UNCHANGED beyond
  /\ poll' = Resting

ViewStep ==
  \/ UNCHANGED view
  \/ Renews \/ Reads \/ Polls \/ Opens
  \/ \E a \in answers : Takes(a)

\* What the operators of the module return.
LEMMA MergeIs ==
  ASSUME NEW g \in Shows, NEW h \in Shows
  PROVE  Blends(Merge(g, h), g, h)
<1> DEFINE f == Merge(g, h)
<1>1. IsShown(g) /\ IsShown(h)
  BY ShowsAre
<1>2. /\ f = [m \in DOMAIN g \cup DOMAIN h |-> IF m \in DOMAIN h THEN h[m] ELSE g[m]]
      /\ DOMAIN f = DOMAIN g \cup DOMAIN h
  BY DEF Merge
<1>3. \A m \in DOMAIN g \cup DOMAIN h :
        (IF m \in DOMAIN h THEN h[m] ELSE g[m]) \in Texts
  BY <1>1 DEF IsShown
<1>4. IsShown(f)
  BY <1>1, <1>2, <1>3 DEF IsShown
<1>5. f \in Shows
  BY <1>4, ShowsAre
<1> QED
  BY <1>2, <1>5 DEF Blends

\* What a statement reads of a set of messages is their folds.
LEMMA ReadIs ==
  ASSUME StampsOK, NEW S \in SUBSET Stamps
  PROVE  Read(S) \in Shows /\ DOMAIN Read(S) = S /\ \A m \in S : Read(S)[m] = Fold(m)
<1>1. \A m : Fold(m) \in Texts
  BY FoldNow DEF StampsOK, IsFold
<1>2. DOMAIN Read(S) = S /\ \A m \in S : Read(S)[m] = Fold(m)
  BY DEF Read
<1>3. IsShown(Read(S))
  BY <1>1 DEF Read, IsShown
<1> QED
  BY <1>2, <1>3, ShowsAre

\* What the two statements of a poll select, and the cursor they end at.
LEMMA ReadingIs ==
  ASSUME StampsOK, RevisionsOK, poll \in Request
  PROVE  /\ After(poll.anchor) \subseteq Stamps /\ Changed \subseteq Stamps
         /\ NewCursor \in Texts
         /\ IsHighest({poll.cursor} \cup {v.at : v \in revs}, NewCursor)
         /\ \A m : m \in After(poll.anchor) <=> \E r \in rows : r.at = m /\ poll.anchor < r.at
<1>1. /\ \A m : m \in After(poll.anchor) <=> \E r \in rows : r.at = m /\ poll.anchor < r.at
      /\ After(poll.anchor) \subseteq Stamps
  <2>1. poll.anchor \in Nat /\ \A r \in rows : r.at \in Nat /\ r.at \in Stamps
    BY Bounds DEF StampsOK, Row, Request
  <2>2. \A i, j \in Nat : i > j <=> j < i
    OBVIOUS
  <2> QED
    BY <2>1, <2>2 DEF After
<1>2. Changed \subseteq Stamps
  BY DEF Changed, StampsOK, Revision
<1>3. IsHighest({poll.cursor} \cup {v.at : v \in revs}, NewCursor)
  <2>1. PICK S : S = {poll.cursor} \cup {v.at : v \in revs}
    OBVIOUS
  <2>2. S \in SUBSET Texts
    <3>1. poll.cursor \in Texts /\ \A v \in revs : v.at \in Texts
      BY Bounds DEF StampsOK, Request, Revision
    <3> QED
      BY <2>1, <3>1
  <2>3. NewCursor = Highest(S)
    BY <2>1 DEF NewCursor
  <2> QED
    BY <2>1, <2>2, <2>3, HighestIs
<1> QED
  BY <1>1, <1>2, <1>3 DEF IsHighest

\* A poll that rests holds nothing.
LEMMA RestingIs == Fresh(Resting) /\ Resting.anchor = 0 /\ Resting.cursor = 0
<1>1. Nothing \in Shows /\ DOMAIN Nothing = {}
  <2>1. IsShown(Nothing) /\ DOMAIN Nothing = {}
    BY DEF Nothing, IsShown
  <2> QED
    BY <2>1, ShowsAre
<1>2. 0 \in Texts
  BY Bounds
<1> QED
  BY <1>1, <1>2 DEF Fresh, Resting, Request

\* The steps of the tab are of these forms.
LEMMA RenewSteps ==
  ASSUME StampsOK, TabOK, PollOK, StartPoll \/ PollFails \/ LeavePage
  PROVE  Renews
<1>1. /\ Fresh(Resting) /\ Resting.anchor = 0 /\ Resting.cursor = 0
      /\ Resting \in Request
  BY RestingIs DEF Fresh
<1>2. CASE StartPoll
  <2>1. PICK kind \in {"DELTA", "PAGE", "OPEN"} :
          kind = IF shown = Nothing THEN "PAGE" ELSE "DELTA"
    OBVIOUS
  <2>2. PICK anchor : anchor = Highest(DOMAIN shown)
    OBVIOUS
  <2>3. anchor \in Texts /\ cursor \in Texts
    <3>1. IsShown(shown)
      BY ShowsAre DEF TabOK
    <3>2. DOMAIN shown \in SUBSET Texts
      BY <3>1, Bounds DEF IsShown
    <3> QED
      BY <2>2, <3>2, HighestIs DEF IsHighest, PollOK, IsCursor
  <2>4. poll' = [Resting EXCEPT !.step = "START", !.kind = kind, !.anchor = anchor,
                                !.cursor = cursor]
    BY <1>2, <2>1, <2>2 DEF StartPoll
  <2>5. PICK p : p = poll'
    OBVIOUS
  <2>6. /\ p \in Request /\ p.step = "START" /\ p.kind = kind /\ p.anchor = anchor
        /\ p.cursor = cursor /\ p.items = Resting.items
        /\ p.slipped = Resting.slipped /\ p.beyond = Resting.beyond
    BY <1>1, <2>3, <2>4, <2>5 DEF Request
  <2>7. kind # "DELTA" => DOMAIN shown = {}
    BY <2>1 DEF Nothing
  <2>8. Fresh(p)
    BY <1>1, <2>2, <2>6, <2>7 DEF Fresh
  <2> QED
    BY <1>2, <2>5, <2>8 DEF Renews, StartPoll, tab
<1>3. CASE PollFails
  BY <1>1, <1>3 DEF Renews, PollFails, tab
<1>4. CASE LeavePage
  <2>1. PICK p : p = poll'
    OBVIOUS
  <2>2. p = [Resting EXCEPT !.step = "START", !.kind = "OPEN"]
    BY <1>4, <2>1 DEF LeavePage
  <2>3. /\ p \in Request /\ p.step = "START" /\ p.anchor = 0 /\ p.cursor = 0
        /\ p.items = Resting.items
        /\ p.slipped = Resting.slipped /\ p.beyond = Resting.beyond
    BY <1>1, <2>2 DEF Request
  <2>4. Fresh(p)
    BY <1>1, <2>3 DEF Fresh
  <2> QED
    BY <1>4, <2>1, <2>4 DEF Renews, LeavePage, tab
<1> QED
  BY <1>2, <1>3, <1>4

\* The statement that lists the messages after the anchor is a reading.
LEMMA ListSteps ==
  ASSUME StampsOK, RevisionsOK, TabOK, PollOK, ReadRows
  PROVE  Reads
<1>1. poll \in Request /\ poll.step \in {"START", "CURSOR"} /\ UNCHANGED tab
  BY DEF ReadRows, PollOK
<1>2. PICK step \in {"ROWS", "ANSWER"} :
        step = IF poll.step = "START" THEN "ROWS" ELSE "ANSWER"
  OBVIOUS
<1>3. PICK S \in SUBSET Stamps : S = After(poll.anchor)
  BY <1>1, ReadingIs
<1>4. PICK items \in Shows :
        /\ items = Read(S) /\ DOMAIN items = S /\ \A m \in S : items[m] = Fold(m)
  BY ReadIs
<1>5. PICK p : p = poll'
  OBVIOUS
<1>6. p = [poll EXCEPT !.step = step, !.items = items]
  BY <1>2, <1>3, <1>4, <1>5 DEF ReadRows
<1>7. /\ p \in Request /\ p.step = step /\ p.items = items /\ p.kind = poll.kind
      /\ p.anchor = poll.anchor /\ p.cursor = poll.cursor
      /\ p.slipped = poll.slipped /\ p.beyond = poll.beyond
  BY <1>1, <1>6 DEF Request
<1>8. \A m : m \in DOMAIN p.items <=> \E r \in rows : r.at = m /\ poll.anchor < r.at
  BY <1>1, <1>3, <1>4, <1>7, ReadingIs
<1>9. Lists(p)
  BY <1>1, <1>2, <1>4, <1>7, <1>8 DEF Lists
<1> QED
  BY <1>1, <1>5, <1>7, <1>9 DEF Reads, tab

\* So is the one that reads the revisions after it.
LEMMA SecondSteps ==
  ASSUME StampsOK, RevisionsOK, TabOK, PollOK, ReadRevisions
  PROVE  Reads
<1>1. poll \in Request /\ poll.step = "ROWS" /\ UNCHANGED tab
  BY DEF ReadRevisions, PollOK
<1>2. PICK items :
        items = IF poll.kind = "DELTA" THEN Merge(Read(Changed), poll.items) ELSE poll.items
  OBVIOUS
<1>3. /\ items \in Shows
      /\ \A m \in DOMAIN poll.items : m \in DOMAIN items /\ items[m] = poll.items[m]
      /\ \A m \in DOMAIN items \ DOMAIN poll.items : m \in Changed /\ items[m] = Fold(m)
  <2>1. poll.items \in Shows
    BY <1>1 DEF Request
  <2>2. CASE poll.kind = "DELTA"
    <3>1. PICK read \in Shows :
            /\ read = Read(Changed) /\ DOMAIN read = Changed
            /\ \A m \in Changed : read[m] = Fold(m)
      BY <1>1, ReadingIs, ReadIs
    <3>2. Blends(items, read, poll.items)
      BY <1>2, <2>1, <2>2, <3>1, MergeIs
    <3> QED
      BY <3>1, <3>2 DEF Blends
  <2> QED
    BY <1>2, <2>1, <2>2
<1>4. PICK new \in Texts : new = NewCursor
  BY <1>1, ReadingIs
<1>5. PICK slipped \in SUBSET Stamps :
        slipped = {m \in Changed : m \in DOMAIN items => items[m] # Fold(m)}
  BY <1>1, ReadingIs
<1>6. PICK found \in SUBSET Stamps :
        found = {m \in DOMAIN items \ DOMAIN poll.items : m > poll.anchor}
  <2>1. IsShown(items)
    BY <1>3, ShowsAre
  <2> QED
    BY <2>1 DEF IsShown
<1>7. PICK p : p = poll'
  OBVIOUS
<1>8. p = [poll EXCEPT !.step = "ANSWER", !.cursor = new, !.items = items,
                       !.slipped = slipped, !.beyond = found]
  BY <1>2, <1>4, <1>5, <1>6, <1>7 DEF ReadRevisions
<1>9. /\ p \in Request /\ p.step = "ANSWER" /\ p.cursor = new /\ p.items = items
      /\ p.slipped = slipped /\ p.beyond = found
      /\ p.kind = poll.kind /\ p.anchor = poll.anchor
  BY <1>1, <1>3, <1>8 DEF Request
<1>10. \A m \in DOMAIN items \ DOMAIN poll.items : m <= poll.anchor \/ m \in found
  <2>1. IsShown(items)
    BY <1>3, ShowsAre
  <2>2. poll.anchor \in Nat /\ \A m \in DOMAIN items : m \in Nat
    BY <1>1, <2>1, Bounds DEF IsShown, Request
  <2> QED
    BY <1>6, <2>2
<1>11. \A m \in Changed : m \in slipped \/ (m \in DOMAIN items /\ items[m] = Fold(m))
  BY <1>5
<1>12. poll.kind # "DELTA" => found = {}
  BY <1>2, <1>6
<1>13. Seconds(p)
  BY <1>1, <1>3, <1>4, <1>9, <1>10, <1>11, <1>12 DEF Seconds
<1> QED
  BY <1>1, <1>7, <1>9, <1>13 DEF Reads, tab

\* So is the one of a page that reads its cursor first.
LEMMA FirstSteps ==
  ASSUME StampsOK, RevisionsOK, TabOK, PollOK, ReadCursorFirst
  PROVE  Reads
<1>1. poll \in Request /\ poll.step = "START" /\ poll.kind # "DELTA" /\ UNCHANGED tab
  BY DEF ReadCursorFirst, PollOK
<1>2. PICK new \in Texts : new = NewCursor
  BY <1>1, ReadingIs
<1>3. PICK p : p = poll'
  OBVIOUS
<1>4. p = [poll EXCEPT !.step = "CURSOR", !.cursor = new]
  BY <1>2, <1>3 DEF ReadCursorFirst
<1>5. /\ p \in Request /\ p.step = "CURSOR" /\ p.cursor = new /\ p.items = poll.items
      /\ p.slipped = poll.slipped /\ p.beyond = poll.beyond
      /\ p.kind = poll.kind /\ p.anchor = poll.anchor
  BY <1>1, <1>4 DEF Request
<1>6. Firsts(p)
  BY <1>1, <1>2, <1>5 DEF Firsts
<1> QED
  BY <1>1, <1>3, <1>5, <1>6 DEF Reads, tab

\* Every step of the tab has one of the forms of ViewStep.
LEMMA ViewSteps ==
  ASSUME StampsOK, RevisionsOK, AnswersOK, TabOK, PollOK, Send \/ Poll
  PROVE  ViewStep
<1>0. shown \in Shows /\ poll.items \in Shows
  BY DEF TabOK, PollOK, Request
<1>1. CASE \E k \in Mine : deliverText(k) \/ markFailed(k)
  BY <1>1 DEF ViewStep, deliverText, markFailed, view, tab
<1>2. CASE \E a \in answers : LoseAnswer(a)
  BY <1>2 DEF ViewStep, LoseAnswer, view, tab
<1>3. ASSUME NEW a \in answers, TakeAnswer(a)
      PROVE  ViewStep
  <2>1. PICK h : h = [m \in {a.msg} |-> a.text]
    OBVIOUS
  <2>2. h \in Shows
    <3>1. a.msg \in Stamps /\ a.text \in Texts
      BY DEF AnswersOK, Answer
    <3>2. IsShown(h)
      BY <2>1, <3>1 DEF IsShown
    <3> QED
      BY <3>2, ShowsAre
  <2>3. shown' = Merge(shown, h)
    BY <1>3, <2>1 DEF TakeAnswer, Show
  <2>4. Blends(shown', shown, h)
    BY <1>0, <2>2, <2>3, MergeIs
  <2>5. Takes(a)
    BY <1>3, <2>1, <2>4 DEF Takes, TakeAnswer
  <2> QED
    BY <2>5 DEF ViewStep
<1>4. CASE StartPoll \/ PollFails \/ LeavePage
  BY <1>4, RenewSteps DEF ViewStep
<1>5. CASE ReadRows \/ ReadRevisions \/ ReadCursorFirst
  BY <1>5, ListSteps, SecondSteps, FirstSteps DEF ViewStep
<1>6. CASE TakePoll
  <2>1. Blends(shown', shown, poll.items)
    BY <1>0, <1>6, MergeIs DEF TakePoll, Show
  <2> QED
    BY <1>6, <2>1 DEF ViewStep, Polls, TakePoll
<1>7. CASE OpenPage
  <2>1. Blends(shown', poll.items, shown)
    BY <1>0, <1>7, MergeIs DEF OpenPage, Show
  <2> QED
    BY <1>7, <2>1 DEF ViewStep, Opens, OpenPage
<1> QED
  BY <1>1, <1>2, <1>3, <1>4, <1>5, <1>6, <1>7 DEF Send, Poll

-----------------------------------------------------------------------------
\* A step changes rows or what the tab shows, not both.
Changes ==
  /\ DatabaseStep
  /\ ViewStep
  /\ UNCHANGED <<rows, revs>> \/ UNCHANGED view

\* Every step changes the database or the tab, in one of their forms, and not both.
LEMMA AllSteps ==
  ASSUME StampsOK, RevisionsOK, AnswersOK, TabOK, PollOK, [Next]_vars
  PROVE  Changes
<1>1. CASE Database
  <2>1. DatabaseStep
    BY <1>1, DatabaseSteps DEF DatabaseStep
  <2>2. UNCHANGED view
    BY <1>1, DatabaseSteps DEF Begins, Writes, Checks, Revises
  <2> QED
    BY <2>1, <2>2 DEF Changes, ViewStep
<1>2. CASE Send \/ Poll
  <2>1. Rests
    BY <1>2, TabRests
  <2> QED
    BY <1>2, <2>1, ViewSteps DEF Changes, DatabaseStep, Rests
<1>3. CASE UNCHANGED vars
  <2>1. UNCHANGED <<clock, rows, revs, open, view>>
    BY <1>3 DEF vars, server, tab, view
  <2> QED
    BY <2>1, SameRests DEF Changes, DatabaseStep, ViewStep
<1> QED
  BY <1>1, <1>2, <1>3 DEF Next

\* The tab forgets no message.
LEMMA ViewGrows ==
  ASSUME ViewStep
  PROVE  DOMAIN shown \subseteq DOMAIN shown' /\ beyond \subseteq beyond'
<1>1. CASE UNCHANGED view
  BY <1>1 DEF view
<1>2. CASE Renews \/ Reads
  BY <1>2 DEF Renews, Reads
<1>3. CASE Polls
  BY <1>3 DEF Polls, Blends
<1>4. CASE Opens
  BY <1>4 DEF Opens, Blends
<1>5. ASSUME NEW a \in answers, Takes(a)
      PROVE  DOMAIN shown \subseteq DOMAIN shown' /\ beyond \subseteq beyond'
  BY <1>5 DEF Takes, Blends
<1> QED
  BY <1>1, <1>2, <1>3, <1>4, <1>5 DEF ViewStep

\* The text of a message and those it had are known of it.
LEMMA FoldIsKnown ==
  ASSUME StampsOK, NEW m, \E r \in rows : r.at = m
  PROVE  Known(m, Fold(m)) /\ m \in Stamps /\ Fold(m) \in Texts
<1>1. IsFold(revs, m, Fold(m))
  BY FoldNow DEF StampsOK
<1>2. m \in Stamps
  BY DEF StampsOK, Row
<1> QED
  BY <1>1, <1>2 DEF Known, IsFold

\* An answer that the tab waits for is about a message that is there, as it
\* is now.
IsReply(a, t) ==
  /\ t.mine
  /\ a \in Answer /\ Known(a.msg, a.text)'
  /\ t.kind = "SEND" => \E r \in rows' : r.at = a.msg /\ r.key \in Mine
  /\ t.kind # "SEND" => a.msg = t.msg

\* The answer to a request is about the message and the text it replied with.
LEMMA ReplyIs ==
  ASSUME NEW t \in Transaction, NEW m \in Stamps, NEW text \in Texts, Reply(t, m, text),
         NEW a \in answers', a \notin answers
  PROVE  t.mine /\ a \in Answer /\ a.msg = m /\ a.text = text
<1>1. t.mine /\ a = [key |-> t.key, try |-> t.try, msg |-> m, text |-> text]
  BY DEF Reply, Awaited
<1> QED
  BY <1>1 DEF Answer, Transaction

\* What sendMessage confirms is a message of the user that is committed with it.
LEMMA ConfirmsIs ==
  ASSUME StampsOK, RevisionsOK, NEW t \in open, sendMessage(t), t.key \in Mine,
         NEW m, m = Confirms(t), NEW x, x = Fold(m)
  PROVE  /\ m \in Stamps /\ x \in Texts
         /\ \E r \in rows' : r.at = m /\ r.key \in Mine
         /\ Known(m, x)'
<1>1. /\ rows \subseteq Row /\ open \subseteq Transaction /\ revs' = revs
      /\ NoKey \notin Mine
  BY NoKeyAssumption DEF StampsOK, sendMessage
<1>2. /\ m \in Stamps
      /\ \E r \in rows' : r.at = m /\ r.key \in Mine
  <2>1. CASE Replays(t)
    <3>1. PICK r \in rows : r.key = t.key
      BY <2>1 DEF Replays
    <3>2. \E n \in Stamps : \E s \in rows : s.key = t.key /\ s.at = n
      BY <1>1, <3>1 DEF Row
    <3>3. /\ m \in Stamps
          /\ \E s \in rows : s.key = t.key /\ s.at = m
      BY <2>1, <3>2 DEF Confirms
    <3>4. rows' = rows
      BY <2>1 DEF sendMessage
    <3> QED
      BY <3>3, <3>4
  <2>2. CASE ~Replays(t)
    <3>1. m = t.at /\ t.at \in Stamps
      BY <1>1, <2>2 DEF Confirms, Transaction
    <3>2. PICK r \in rows' : r = [at |-> t.at, done |-> clock + 1, key |-> t.key]
      BY <2>2 DEF sendMessage
    <3> QED
      BY <3>1, <3>2
  <2> QED
    BY <2>1, <2>2
<1>3. IsFold(revs, m, x)
  BY FoldNow DEF StampsOK
<1>4. x \in Texts /\ (x # 0 => \E v \in revs' : v.msg = m /\ v.at = x)
  BY <1>1, <1>3 DEF IsFold
<1> QED
  BY <1>2, <1>4 DEF Known

\* Every new answer replies to the transaction that ends.
LEMMA Replies ==
  ASSUME StampsOK, RevisionsOK, AnswersOK, NEW t \in open,
         sendMessage(t) \/ CommitRevision(t) \/ Abort(t),
         NEW a \in answers', a \notin answers
  PROVE  IsReply(a, t)
<1>0. t \in Transaction /\ (t.kind # "SEND" => t.msg \in Stamps)
  BY DEF StampsOK, RevisionsOK, Row
<1>1. CASE sendMessage(t)
  <2>1. t.kind = "SEND" /\ (t.mine <=> t.key \in Mine)
    BY <1>1 DEF sendMessage, AnswersOK
  <2>2. PICK m : m = Confirms(t)
    OBVIOUS
  <2>3. PICK x : x = Fold(m)
    OBVIOUS
  <2>4. Reply(t, m, x)
    BY <1>1, <2>2, <2>3 DEF sendMessage
  <2>5. t.mine
    BY <2>4 DEF Reply, Awaited
  <2>6. /\ m \in Stamps /\ x \in Texts
        /\ \E r \in rows' : r.at = m /\ r.key \in Mine
        /\ Known(m, x)'
    BY <1>1, <2>1, <2>2, <2>3, <2>5, ConfirmsIs
  <2>7. t.mine /\ a \in Answer /\ a.msg = m /\ a.text = x
    BY <1>0, <2>4, <2>6, ReplyIs
  <2>8. Known(a.msg, a.text)'
    BY <2>6, <2>7
  <2> QED
    BY <2>1, <2>6, <2>7, <2>8 DEF IsReply
<1>2. CASE CommitRevision(t) \/ Abort(t)
  <2>1. PICK m : m = t.msg
    OBVIOUS
  <2>2. IsFold(revs, m, Fold(m))
    BY FoldNow DEF StampsOK
  <2>3. t.kind # "SEND" /\ m \in Stamps
    BY <1>0, <1>2, <2>1 DEF CommitRevision, Abort
  <2>4. \E r \in rows' : r.at = m
    BY <1>2, <2>1, <2>3 DEF RevisionsOK, CommitRevision, Abort
  <2>5. CASE CommitRevision(t)
    <3>1. PICK x : x = Highest({t.at, Fold(m)})
      OBVIOUS
    <3>2. /\ Reply(t, m, x)
          /\ revs' = revs \cup
               {[msg |-> m, at |-> t.at, done |-> clock + 1, action |-> t.kind]}
      BY <2>1, <2>5, <3>1 DEF CommitRevision
    <3>3. IsHighest({t.at, Fold(m)}, x)
      <4>1. t.at \in Texts /\ Fold(m) \in Texts
        BY <1>0, <2>2, Bounds DEF IsFold, Transaction
      <4>2. PICK S : S = {t.at, Fold(m)}
        OBVIOUS
      <4> QED
        BY <3>1, <4>1, <4>2, HighestIs
    <3>4. x \in Texts /\ (x # 0 => x = t.at \/ x = Fold(m))
      BY <3>3 DEF IsHighest
    <3>5. \E v \in revs' : v.msg = m /\ v.at = t.at
      <4>1. PICK v \in revs' :
              v = [msg |-> m, at |-> t.at, done |-> clock + 1, action |-> t.kind]
        BY <3>2
      <4> QED
        BY <4>1
    <3>6. Fold(m) # 0 => \E v \in revs' : v.msg = m /\ v.at = Fold(m)
      BY <2>2, <3>2 DEF IsFold
    <3>7. x # 0 => \E v \in revs' : v.msg = m /\ v.at = x
      BY <3>4, <3>5, <3>6
    <3>8. t.mine /\ a \in Answer /\ a.msg = m /\ a.text = x
      BY <1>0, <2>3, <3>2, <3>4, ReplyIs
    <3>9. Known(a.msg, a.text)'
      BY <2>4, <3>7, <3>8 DEF Known
    <3> QED
      BY <2>1, <2>3, <3>8, <3>9 DEF IsReply
  <2>6. CASE Abort(t)
    <3>1. PICK x : x = Fold(m)
      OBVIOUS
    <3>2. Reply(t, m, x) /\ revs' = revs
      BY <2>1, <2>6, <3>1 DEF Abort
    <3>3. x \in Texts /\ (x # 0 => \E v \in revs' : v.msg = m /\ v.at = x)
      BY <2>2, <3>1, <3>2 DEF IsFold
    <3>4. t.mine /\ a \in Answer /\ a.msg = m /\ a.text = x
      BY <1>0, <2>3, <3>2, <3>3, ReplyIs
    <3>5. Known(a.msg, a.text)'
      BY <2>4, <3>3, <3>4 DEF Known
    <3> QED
      BY <2>1, <2>3, <3>4, <3>5 DEF IsReply
  <2> QED
    BY <1>2, <2>5, <2>6
<1> QED
  BY <1>1, <1>2

\* What the tab hears of stays its own or what it shows.
LEMMA AnswersKept ==
  ASSUME StampsOK, RevisionsOK, AnswersOK, TabOK, Changes, [Next]_vars
  PROVE  AnswersOK'
<1>0. /\ rows \subseteq rows' /\ DOMAIN shown \subseteq DOMAIN shown'
      /\ \A m, x : Known(m, x) => Known(m, x)'
  BY DatabaseGrows, ViewGrows DEF Changes
<1>1. ASSUME NEW u \in open'
      PROVE  /\ u.kind = "SEND" => (u.mine <=> u.key \in Mine)
             /\ u.kind # "SEND" => u.key = NoKey /\ (u.mine => u.msg \in DOMAIN shown')
  <2>1. CASE Begins(u)
    BY <1>0, <2>1 DEF Begins
  <2>2. ASSUME NEW t \in open, u.kind = t.kind, u.key = t.key, u.msg = t.msg,
               u.mine => t.mine, u.kind = "SEND" => u.mine = t.mine
        PROVE  /\ u.kind = "SEND" => (u.mine <=> u.key \in Mine)
               /\ u.kind # "SEND" => u.key = NoKey /\ (u.mine => u.msg \in DOMAIN shown')
    BY <1>0, <2>2 DEF AnswersOK
  <2> QED
    BY <2>1, <2>2, UnderWay DEF Changes
<1>2. ASSUME NEW a \in answers'
      PROVE  a \in answers \/ \E t \in open : IsReply(a, t)
  <2>1. CASE Send \/ Poll \/ UNCHANGED vars
    BY <2>1 DEF Send, Poll, deliverText, markFailed, TakeAnswer, LoseAnswer, StartPoll,
      ReadRows, ReadRevisions, ReadCursorFirst, TakePoll, PollFails, LeavePage, OpenPage,
      untouchedByPoll, vars
  <2>2. ASSUME NEW t \in open, sendMessage(t) \/ CommitRevision(t) \/ Abort(t)
        PROVE  a \in answers \/ IsReply(a, t)
    BY <2>2, Replies
  <2>3. CASE Database
    BY <2>2, <2>3 DEF Database, Receive, BeginTheirs, BeginRevision, CheckRevision
  <2> QED
    BY <2>1, <2>3 DEF Next
<1>3. ASSUME NEW a \in answers'
      PROVE  /\ a \in Answer /\ Known(a.msg, a.text)'
             /\ (\E r \in rows' : r.at = a.msg /\ r.key \in Mine) \/ a.msg \in DOMAIN shown'
  <2>1. CASE a \in answers
    BY <1>0, <2>1 DEF AnswersOK
  <2>2. ASSUME NEW t \in open, IsReply(a, t)
        PROVE  /\ a \in Answer /\ Known(a.msg, a.text)'
               /\ \/ \E r \in rows' : r.at = a.msg /\ r.key \in Mine
                  \/ a.msg \in DOMAIN shown'
    BY <1>0, <2>2 DEF IsReply, AnswersOK
  <2> QED
    BY <1>2, <2>1, <2>2
<1> QED
  BY <1>1, <1>3 DEF AnswersOK

-----------------------------------------------------------------------------
\* The tab's entries and tries.
SendingOK ==
  /\ calls \subseteq [key : Mine, try : 1 .. MaxTries]
  /\ outbox \in [Mine -> {"NONE", "SENDING", "FAILED"}]
  /\ tries \in [Mine -> 0 .. MaxTries] /\ fetch \in [Mine -> 0 .. MaxTries]
  /\ openings \in 0 .. MaxOpenings

\* Showing messages only ever empties the outbox.
LEMMA ShowOutbox ==
  ASSUME outbox \in [Mine -> {"NONE", "SENDING", "FAILED"}], NEW f, Show(f)
  PROVE  outbox' \in [Mine -> {"NONE", "SENDING", "FAILED"}]
BY DEF Show

\* The types of the calls, the outbox, the tries and the openings are kept by every step.
LEMMA SendingKept ==
  ASSUME AnswersOK, TabOK, [Next]_vars
  PROVE  SendingOK'
<1>0. SendingOK
  BY DEF TabOK, SendingOK
<1>1. /\ MaxTries \in Nat /\ MaxOpenings \in Nat
      /\ 0 \in 0 .. MaxTries /\ \A n \in 0 .. MaxTries : n < MaxTries => n + 1 \in 1 .. MaxTries
      /\ \A n \in 0 .. MaxTries : n < MaxTries => n + 1 \in 0 .. MaxTries
  BY Bounds
<1>2. ASSUME NEW k \in Mine, deliverText(k)
      PROVE  SendingOK'
  <2>1. tries[k] \in 0 .. MaxTries /\ tries[k] < MaxTries
    BY <1>0, <1>2 DEF SendingOK, deliverText
  <2>2. PICK n : n = tries[k] + 1
    OBVIOUS
  <2>3. n \in 1 .. MaxTries /\ n \in 0 .. MaxTries
    BY <1>1, <2>1, <2>2
  <2>4. /\ outbox' = [outbox EXCEPT ![k] = "SENDING"]
        /\ tries' = [tries EXCEPT ![k] = n] /\ fetch' = [fetch EXCEPT ![k] = n]
        /\ calls' = calls \cup {[key |-> k, try |-> n]} /\ openings' = openings
    BY <1>2, <2>2 DEF deliverText
  <2> QED
    BY <1>0, <2>3, <2>4 DEF SendingOK
<1>3. ASSUME NEW k \in Mine, markFailed(k)
      PROVE  SendingOK'
  <2>1. PICK s \in {"NONE", "SENDING", "FAILED"} :
          s = IF outbox[k] = "SENDING" THEN "FAILED" ELSE outbox[k]
    BY <1>0 DEF SendingOK
  <2>2. /\ outbox' = [outbox EXCEPT ![k] = s] /\ fetch' = [fetch EXCEPT ![k] = 0]
        /\ UNCHANGED <<calls, tries, openings>>
    BY <1>3, <2>1 DEF markFailed
  <2> QED
    BY <1>0, <1>1, <2>2 DEF SendingOK
<1>4. ASSUME NEW a \in answers, TakeAnswer(a)
      PROVE  SendingOK'
  <2>1. outbox' \in [Mine -> {"NONE", "SENDING", "FAILED"}]
    BY <1>0, <1>4, ShowOutbox DEF SendingOK, TakeAnswer
  <2>2. a.key = NoKey \/ a.key \in Mine
    BY DEF AnswersOK, Answer, Keys
  <2>3. fetch' = fetch \/ (a.key \in Mine /\ fetch' = [fetch EXCEPT ![a.key] = 0])
    BY <1>4, <2>2 DEF TakeAnswer
  <2>4. UNCHANGED <<calls, tries, openings>>
    BY <1>4 DEF TakeAnswer
  <2> QED
    BY <1>0, <1>1, <2>1, <2>3, <2>4 DEF SendingOK
<1>5. CASE LeavePage
  <2>1. /\ openings < MaxOpenings /\ openings' = openings + 1
        /\ outbox' = [k \in Mine |-> "NONE"] /\ fetch' = [k \in Mine |-> 0]
        /\ UNCHANGED <<calls, tries>>
    BY <1>5 DEF LeavePage
  <2>2. openings' \in 0 .. MaxOpenings
    BY <1>0, <1>1, <2>1 DEF SendingOK
  <2> QED
    BY <1>0, <1>1, <2>1, <2>2 DEF SendingOK
<1>6. CASE TakePoll \/ OpenPage
  <2>1. outbox' \in [Mine -> {"NONE", "SENDING", "FAILED"}]
    BY <1>0, <1>6, ShowOutbox DEF SendingOK, TakePoll, OpenPage
  <2> QED
    BY <1>0, <1>6, <2>1 DEF SendingOK, TakePoll, OpenPage, untouchedByPoll
<1>7. CASE \/ \E a \in answers : LoseAnswer(a)
           \/ StartPoll \/ ReadRows \/ ReadRevisions \/ ReadCursorFirst \/ PollFails
           \/ UNCHANGED vars
  BY <1>0, <1>7 DEF SendingOK, LoseAnswer, StartPoll, ReadRows, ReadRevisions,
    ReadCursorFirst, PollFails, untouchedByPoll, sending, vars
<1>8. CASE Database
  BY <1>0, <1>8 DEF SendingOK, Database, Receive, BeginTheirs, BeginRevision, sendMessage,
    CheckRevision, CommitRevision, Abort, sending
<1> QED
  BY <1>2, <1>3, <1>4, <1>5, <1>6, <1>7, <1>8 DEF Next, Send, Poll

\* What the tab shows is in the database.
LEMMA TabKept ==
  ASSUME StampsOK, AnswersOK, TabOK, PollOK, Changes, [Next]_vars
  PROVE  TabOK'
<1>0. \A m, x : Known(m, x) => Known(m, x)'
  BY DatabaseGrows DEF Changes
<1>1. SendingOK'
  BY SendingKept
<1>2. /\ shown \in Shows /\ poll.items \in Shows
      /\ \A m \in DOMAIN shown : Known(m, shown[m])
      /\ \A m \in DOMAIN poll.items : Known(m, poll.items[m])
      /\ late \subseteq Stamps /\ beyond \subseteq Stamps
      /\ poll.slipped \subseteq Stamps /\ poll.beyond \subseteq Stamps
  BY DEF TabOK, PollOK, Request
<1> DEFINE Good ==
      /\ shown' \in Shows /\ late' \subseteq Stamps /\ beyond' \subseteq Stamps
      /\ \A m \in DOMAIN shown' : Known(m, shown'[m])
<1>3. ASSUME UNCHANGED <<shown, late, beyond>>
      PROVE  Good
  BY <1>2, <1>3
<1>4. ASSUME Polls \/ Opens
      PROVE  Good
  <2>1. /\ shown' \in Shows
        /\ \A m \in DOMAIN shown' : Known(m, shown'[m])
    BY <1>2, <1>4 DEF Polls, Opens, Blends
  <2>2. beyond' \subseteq Stamps
    BY <1>2, <1>4 DEF Polls, Opens
  <2>3. late' \subseteq Stamps
    <3>1. DOMAIN shown \subseteq Stamps
      BY <1>2, ShowsAre DEF IsShown
    <3> QED
      BY <1>2, <1>4, <3>1 DEF Polls, Opens
  <2> QED
    BY <2>1, <2>2, <2>3
<1>5. ASSUME NEW a \in answers, Takes(a)
      PROVE  Good
  <2>1. a.msg \in Stamps /\ Known(a.msg, a.text)
    BY DEF AnswersOK, Answer
  <2>2. /\ shown' \in Shows
        /\ \A m : m \in DOMAIN shown' <=> m \in DOMAIN shown \/ m = a.msg
        /\ \A m \in DOMAIN shown' : shown'[m] = IF m = a.msg THEN a.text ELSE shown[m]
    BY <1>5 DEF Takes, Blends
  <2>3. \A m \in DOMAIN shown' : Known(m, shown'[m])
    BY <1>2, <2>1, <2>2
  <2>4. late' \subseteq Stamps /\ beyond' \subseteq Stamps
    BY <1>2, <1>5, <2>1 DEF Takes
  <2> QED
    BY <2>2, <2>3, <2>4
<1>6. Good
  BY <1>3, <1>4, <1>5 DEF Changes, ViewStep, Renews, Reads, view
<1>7. (\A m \in DOMAIN shown : Known(m, shown[m]))'
  <2> SUFFICES ASSUME NEW m, NEW x, m \in DOMAIN shown', x = shown'[m]
               PROVE  Known(m, x)'
    BY DEF Known
  <2> QED
    BY <1>0, <1>6
<1> QED
  BY <1>1, <1>6, <1>7 DEF SendingOK, TabOK

-----------------------------------------------------------------------------
\* The list request is in order, whatever it has read.
LEMMA CursorStays ==
  ASSUME revs \subseteq revs', NEW c, IsCursor(c)
  PROVE  IsCursor(c)'
BY DEF IsCursor

\* A fresh poll starts from the tab's own cursor and from a message it shows, or from none.
LEMMA FreshIs ==
  ASSUME StampsOK, TabOK, PollOK, NEW p, Fresh(p)
  PROVE  /\ IsCursor(p.cursor) /\ p.cursor <= cursor
         /\ p.anchor # 0 => p.anchor \in DOMAIN shown
         /\ p.kind # "DELTA" => p.anchor = 0 /\ p.beyond = {}
<1>1. IsCursor(0) /\ IsCursor(cursor) /\ 0 <= cursor /\ cursor <= cursor
  BY Bounds DEF IsCursor, PollOK
<1>2. IsHighest(DOMAIN shown, Highest(DOMAIN shown))
  <2>1. PICK S : S = DOMAIN shown
    OBVIOUS
  <2>2. S \in SUBSET Texts
    <3>1. IsShown(shown)
      BY ShowsAre DEF TabOK
    <3> QED
      BY <2>1, <3>1, Bounds DEF IsShown
  <2> QED
    BY <2>1, <2>2, HighestIs
<1> QED
  BY <1>1, <1>2 DEF Fresh, IsHighest

\* The cursor of an answer is one the tab may hold.
LEMMA NewCursorIs ==
  ASSUME StampsOK, RevisionsOK, PollOK
  PROVE  IsCursor(NewCursor)
<1>1. /\ poll \in Request /\ IsCursor(poll.cursor)
  BY DEF PollOK
<1>2. /\ NewCursor \in Texts
      /\ IsHighest({poll.cursor} \cup {v.at : v \in revs}, NewCursor)
  BY <1>1, ReadingIs
<1>3. NewCursor # 0 => NewCursor = poll.cursor \/ \E v \in revs : v.at = NewCursor
  BY <1>2 DEF IsHighest
<1> QED
  BY <1>1, <1>2, <1>3 DEF IsCursor

\* Every step keeps PollOK.
LEMMA PollKept ==
  ASSUME StampsOK, RevisionsOK, AnswersOK, TabOK, PollOK, Changes
  PROVE  PollOK'
<1>0. /\ revs \subseteq revs' /\ DOMAIN shown \subseteq DOMAIN shown'
      /\ \A m, x : Known(m, x) => Known(m, x)'
      /\ \A c : IsCursor(c) => IsCursor(c)'
  BY DatabaseGrows, ViewGrows, CursorStays DEF Changes
<1>1. /\ poll \in Request /\ \A m \in DOMAIN poll.items : Known(m, poll.items[m])
      /\ IsCursor(cursor) /\ IsCursor(poll.cursor)
      /\ poll.anchor # 0 => poll.anchor \in DOMAIN shown
      /\ poll.kind # "DELTA" => poll.anchor = 0 /\ poll.beyond = {}
      /\ poll.step = "CURSOR" => poll.kind # "DELTA"
      /\ poll.step \in {"IDLE", "START", "CURSOR"} => DOMAIN poll.items = {}
      /\ poll.step \in {"IDLE", "START", "ROWS"} => poll.cursor <= cursor
      /\ poll.step # "ANSWER" => poll.slipped = {} /\ poll.beyond = {}
  BY DEF PollOK
\* What is needed of the next request and cursor.
<1> DEFINE Fit(p, c) ==
      /\ p \in Request /\ \A m \in DOMAIN p.items : Known(m, p.items[m])
      /\ IsCursor(c) /\ IsCursor(p.cursor)
      /\ p.anchor # 0 => p.anchor \in DOMAIN shown
      /\ p.kind # "DELTA" => p.anchor = 0 /\ p.beyond = {}
      /\ p.step = "CURSOR" => p.kind # "DELTA"
      /\ p.step \in {"IDLE", "START", "CURSOR"} => DOMAIN p.items = {}
      /\ p.step \in {"IDLE", "START", "ROWS"} => p.cursor <= c
      /\ p.step # "ANSWER" => p.slipped = {} /\ p.beyond = {}
<1>2. ASSUME NEW p, Fresh(p)
      PROVE  Fit(p, cursor)
  <2>1. /\ p \in Request /\ p.step \in {"IDLE", "START"} /\ DOMAIN p.items = {}
        /\ p.slipped = {} /\ p.beyond = {}
    BY <1>2 DEF Fresh
  <2>2. /\ IsCursor(p.cursor) /\ p.cursor <= cursor
        /\ p.anchor # 0 => p.anchor \in DOMAIN shown
        /\ p.kind # "DELTA" => p.anchor = 0 /\ p.beyond = {}
    BY <1>2, FreshIs
  <2> QED
    BY <1>1, <2>1, <2>2
<1>3. ASSUME NEW p, p = poll', Reads
      PROVE  Fit(p, cursor)
  <2>1. p \in Request /\ p.kind = poll.kind /\ p.anchor = poll.anchor
    BY <1>3 DEF Reads
  <2>2. CASE Lists(p)
    <3>1. \A m \in DOMAIN p.items : Known(m, p.items[m])
      <4>1. \A m \in DOMAIN p.items : p.items[m] = Fold(m) /\ \E r \in rows : r.at = m
        BY <2>2 DEF Lists
      <4> QED
        BY <4>1, FoldIsKnown
    <3>2. p.step = "ROWS" => p.cursor <= cursor /\ p.slipped = {} /\ p.beyond = {}
      BY <1>1, <2>2 DEF Lists
    <3> QED
      BY <1>1, <2>1, <2>2, <3>1, <3>2 DEF Lists
  <2>3. CASE Seconds(p)
    <3>1. \A m \in DOMAIN p.items : Known(m, p.items[m])
      <4> TAKE m \in DOMAIN p.items
      <4>1. CASE m \in DOMAIN poll.items
        BY <1>1, <2>3, <4>1 DEF Seconds
      <4>2. CASE m \notin DOMAIN poll.items
        <5>1. m \in Changed /\ p.items[m] = Fold(m)
          BY <2>3, <4>2 DEF Seconds
        <5>2. \E r \in rows : r.at = m
          BY <5>1 DEF Changed, RevisionsOK
        <5> QED
          BY <5>1, <5>2, FoldIsKnown
      <4> QED
        BY <4>1, <4>2
    <3>2. IsCursor(p.cursor)
      BY <2>3, NewCursorIs DEF Seconds
    <3> QED
      BY <1>1, <2>1, <2>3, <3>1, <3>2 DEF Seconds
  <2>4. CASE Firsts(p)
    <3>1. IsCursor(p.cursor)
      BY <2>4, NewCursorIs DEF Firsts
    <3> QED
      BY <1>1, <2>1, <2>4, <3>1 DEF Firsts
  <2> QED
    BY <1>3, <2>2, <2>3, <2>4 DEF Reads
<1>4. PICK p : p = poll'
  OBVIOUS
<1>5. PICK c : c = cursor'
  OBVIOUS
<1>6. Fit(p, c)
  <2>1. CASE UNCHANGED view \/ \E a \in answers : Takes(a)
    BY <1>1, <1>4, <1>5, <2>1 DEF view, Takes
  <2>2. CASE Renews
    BY <1>2, <1>4, <1>5, <2>2 DEF Renews
  <2>3. CASE Reads
    BY <1>3, <1>4, <1>5, <2>3 DEF Reads
  <2>4. CASE Polls \/ Opens
    <3>1. p = Resting /\ c = poll.cursor
      BY <1>4, <1>5, <2>4 DEF Polls, Opens
    <3>2. Fit(p, cursor) /\ p.cursor = 0
      BY <1>2, <3>1, RestingIs
    <3>3. 0 <= poll.cursor
      BY <1>1, Bounds DEF IsCursor
    <3> QED
      BY <1>1, <3>1, <3>2, <3>3
  <2> QED
    BY <2>1, <2>2, <2>3, <2>4 DEF Changes, ViewStep
<1>7. /\ p \in Request /\ \A m \in DOMAIN p.items : Known(m, p.items[m])'
      /\ IsCursor(c)' /\ IsCursor(p.cursor)'
      /\ p.anchor # 0 => p.anchor \in DOMAIN shown'
      /\ p.kind # "DELTA" => p.anchor = 0 /\ p.beyond = {}
      /\ p.step = "CURSOR" => p.kind # "DELTA"
      /\ p.step \in {"IDLE", "START", "CURSOR"} => DOMAIN p.items = {}
      /\ p.step \in {"IDLE", "START", "ROWS"} => p.cursor <= c
      /\ p.step # "ANSWER" => p.slipped = {} /\ p.beyond = {}
  <2>1. \A m \in DOMAIN p.items : Known(m, p.items[m])'
    BY <1>0, <1>6
  <2>2. IsCursor(c)' /\ IsCursor(p.cursor)'
    BY <1>0, <1>6
  <2> QED
    BY <1>0, <1>6, <2>1, <2>2
<1> QED
  BY <1>4, <1>5, <1>7 DEF PollOK

-----------------------------------------------------------------------------
\* MissedOnlyWhenPassed, message by message.
Behind ==
  \A r \in rows, n \in DOMAIN shown :
    r.at \notin DOMAIN shown /\ r.at < n => PassedBy(r)

\* The newest message of what is shown bounds it from above.
LEMMA NewestIs ==
  ASSUME NEW f \in Shows
  PROVE  /\ IsHighest(DOMAIN f, Highest(DOMAIN f))
         /\ DOMAIN f \subseteq Nat /\ DOMAIN f \subseteq Stamps
<1>1. DOMAIN f \subseteq Stamps
  BY ShowsAre DEF IsShown
<1>2. PICK S : S = DOMAIN f
  OBVIOUS
<1>3. S \in SUBSET Texts /\ S \subseteq Nat
  BY <1>1, <1>2, Bounds
<1> QED
  BY <1>1, <1>2, <1>3, HighestIs

\* MissedOnlyWhenPassed, said without Highest, of the state a step starts from.
LEMMA MissedNow ==
  ASSUME StampsOK, TabOK, MissedOnlyWhenPassed
  PROVE  Behind
<1>1. PICK h : h = Highest(DOMAIN shown)
  OBVIOUS
<1>2. \A n \in DOMAIN shown : n \in Nat /\ n <= h
  BY <1>1, NewestIs DEF TabOK, IsHighest
<1>3. h \in Nat /\ \A r \in rows : r.at \in Nat
  BY <1>1, Bounds, NewestIs DEF TabOK, IsHighest, StampsOK, Row
<1>4. \A r \in rows : r.at \notin DOMAIN shown /\ ~PassedBy(r) => r.at > h
  BY <1>1 DEF MissedOnlyWhenPassed, Missing
<1> QED
  BY <1>2, <1>3, <1>4 DEF Behind

\* And back again, of the state it leads to.
LEMMA MissedThen ==
  ASSUME StampsOK', TabOK', Behind'
  PROVE  MissedOnlyWhenPassed'
<1>1. PICK h : h = Highest(DOMAIN shown)'
  OBVIOUS
<1>2. IsHighest(DOMAIN shown', h) /\ DOMAIN shown' \subseteq Nat
  BY <1>1, NewestIs DEF TabOK
<1>3. h \in Nat /\ \A r \in rows' : r.at \in Nat /\ r.at # 0
  BY <1>2, Bounds DEF IsHighest, StampsOK, Row
<1>4. \A r \in rows', n \in DOMAIN shown' :
        r.at \notin DOMAIN shown' /\ r.at < n => PassedBy(r)'
  BY DEF Behind
<1>5. ASSUME NEW r \in rows', r.at \notin DOMAIN shown', ~PassedBy(r)'
      PROVE  r.at > h
  <2>1. CASE h = 0
    BY <1>3, <2>1
  <2>2. CASE h # 0
    <3>1. h \in DOMAIN shown'
      BY <1>2, <2>2 DEF IsHighest
    <3>2. ~(r.at < h) /\ r.at # h
      BY <1>4, <1>5, <3>1
    <3> QED
      BY <1>3, <3>2
  <2> QED
    BY <2>1, <2>2
<1> QED
  BY <1>1, <1>5 DEF MissedOnlyWhenPassed, Missing

\* A row is the only one of its stamp.
LEMMA RowOf ==
  ASSUME StampsOK, NEW r \in rows, NEW s \in rows, r.at = s.at
  PROVE  r = s
BY DEF StampsOK

\* A row that is there was written before one that is not yet.
LEMMA RowSteps ==
  ASSUME StampsOK, DatabaseStep, NEW r \in rows', r \notin rows
  PROVE  /\ r.done = clock + 1 /\ ~(UNCHANGED <<rows, revs>>)
         /\ \A s \in rows : s.done < r.done /\ s.at # r.at
<1>1. PICK t \in open : \E q : Writes(t, q)
  BY DEF DatabaseStep, Begins, Checks, Revises, Rests
<1>2. /\ rows' = rows \cup {r} /\ r.done = clock + 1 /\ r.at = t.at
  BY <1>1 DEF Writes
<1>3. \A s \in rows : s.done \in Nat /\ s.done <= clock /\ s.at # t.at /\ clock \in Nat
  BY Bounds DEF StampsOK, Row
<1> QED
  BY <1>2, <1>3

\* No step lets a message fall behind unless it was passed in one of the three ways.
LEMMA MissedKept ==
  ASSUME StampsOK, AnswersOK, TabOK, PollOK, Behind, PollSkips, Changes
  PROVE  Behind'
<1>0. /\ rows \subseteq rows' /\ DOMAIN shown \subseteq DOMAIN shown' /\ beyond \subseteq beyond'
      /\ DatabaseStep /\ ViewStep
  BY DatabaseGrows, ViewGrows DEF Changes
<1>1. SUFFICES ASSUME NEW r \in rows', NEW n \in DOMAIN shown',
                      r.at \notin DOMAIN shown', r.at < n
               PROVE  PassedBy(r)'
  BY DEF Behind
<1>2. CASE r \in rows /\ n \in DOMAIN shown
  <2>1. PassedBy(r)
    BY <1>0, <1>1, <1>2 DEF Behind
  <2> QED
    BY <1>0, <2>1 DEF PassedBy
<1>3. CASE r \notin rows
  <2>1. UNCHANGED view
    BY <1>3, <1>0, RowSteps DEF Changes
  <2>2. PICK s \in rows : s.at = n
    BY <1>1, <2>1 DEF TabOK, Known, view
  <2>3. s.done < r.done
    BY <1>0, <1>3, RowSteps
  <2> QED
    BY <1>0, <1>1, <2>2, <2>3 DEF PassedBy
<1>4. CASE r \in rows /\ n \notin DOMAIN shown
  <2>0. rows' = rows
    BY <1>1, <1>4 DEF Changes, view
  <2>1. ASSUME NEW a \in answers, Takes(a)
        PROVE  PassedBy(r)'
    <3>1. n = a.msg
      BY <1>1, <1>4, <2>1 DEF Takes, Blends
    <3>2. PICK s \in rows : s.at = n /\ s.key \in Mine
      BY <1>4, <3>1 DEF AnswersOK
    <3> QED
      BY <1>1, <2>0, <3>2 DEF PassedBy
  <2>2. ASSUME Polls \/ Opens
        PROVE  PassedBy(r)'
    <3>1. n \in DOMAIN poll.items /\ r.at \notin DOMAIN poll.items
      BY <1>1, <1>4, <2>2 DEF Polls, Opens, Blends
    <3>2. PICK s \in rows : s.at = n
      BY <3>1 DEF PollOK, Known
    <3>3. poll.beyond \subseteq beyond'
      BY <2>2 DEF Polls, Opens, PollOK
    <3>4. CASE poll.anchor < r.at
      <4>1. s.done < r.done \/ s.at \in poll.beyond
        BY <1>1, <1>4, <3>1, <3>2, <3>4 DEF PollSkips
      <4> QED
        BY <1>1, <2>0, <3>2, <3>3, <4>1 DEF PassedBy
    <3>5. CASE ~(poll.anchor < r.at)
      <4>1. poll.anchor \in Nat /\ r.at \in Nat /\ r.at # 0
        BY <1>4, Bounds DEF PollOK, Request, StampsOK, Row
      <4>2. poll.anchor \in DOMAIN shown
        BY <3>5, <4>1 DEF PollOK
      <4>3. r.at \notin DOMAIN shown /\ r.at # poll.anchor
        BY <1>0, <1>1, <4>2
      <4>4. PassedBy(r)
        BY <1>4, <3>5, <4>1, <4>2, <4>3 DEF Behind
      <4> QED
        BY <1>0, <4>4 DEF PassedBy
    <3> QED
      BY <3>4, <3>5
  <2> QED
    BY <1>0, <1>1, <1>4, <2>1, <2>2 DEF ViewStep, Renews, Reads, view
<1> QED
  BY <1>2, <1>3, <1>4

\* No step makes an open poll skip a message it had no reason to.
LEMMA SkipsKept ==
  ASSUME StampsOK, TabOK, PollOK, PollSkips, Changes
  PROVE  PollSkips'
<1>0. DatabaseStep /\ ViewStep
  BY DEF Changes
<1>1. SUFFICES ASSUME NEW r \in rows', NEW s \in rows',
                      s.at \in DOMAIN poll'.items, r.at \notin DOMAIN poll'.items,
                      poll'.anchor < r.at, r.at < s.at
               PROVE  s.done < r.done \/ s.at \in poll'.beyond
  BY DEF PollSkips
<1>2. CASE UNCHANGED poll
  <2>1. PICK q \in rows : q.at = s.at
    BY <1>1, <1>2 DEF PollOK, Known
  <2>2. s \in rows
    BY <1>0, <2>1, RowSteps
  <2>3. CASE r \in rows
    BY <1>1, <1>2, <2>2, <2>3 DEF PollSkips
  <2>4. CASE r \notin rows
    BY <1>0, <2>2, <2>4, RowSteps
  <2> QED
    BY <2>3, <2>4
<1>3. CASE ~UNCHANGED poll
  <2>0. rows' = rows
    BY <1>3 DEF Changes, view
  <2>1. ~(Renews \/ Polls \/ Opens)
    BY <1>1, RestingIs DEF Renews, Polls, Opens, Fresh
  <2>2. Reads
    BY <1>0, <1>3, <2>1 DEF ViewStep, Takes, view
  <2>3. PICK p : p = poll'
    OBVIOUS
  <2>4. p.anchor = poll.anchor /\ (Lists(p) \/ Seconds(p) \/ Firsts(p))
    BY <2>2, <2>3 DEF Reads
  <2>5. ~Lists(p)
    BY <1>1, <2>0, <2>3, <2>4 DEF Lists
  <2>6. ~Firsts(p)
    BY <1>1, <2>3 DEF Firsts, PollOK
  <2>7. Seconds(p)
    BY <2>4, <2>5, <2>6
  <2>8. CASE s.at \in DOMAIN poll.items
    <3>1. r.at \notin DOMAIN poll.items /\ poll.beyond = {}
      BY <1>1, <2>3, <2>7 DEF Seconds, PollOK
    <3> QED
      BY <1>1, <2>0, <2>3, <2>4, <2>8, <3>1 DEF PollSkips
  <2>9. CASE s.at \notin DOMAIN poll.items
    <3>1. s.at <= poll.anchor \/ s.at \in p.beyond
      BY <1>1, <2>3, <2>7, <2>9 DEF Seconds
    <3>2. poll.anchor \in Nat /\ r.at \in Nat /\ s.at \in Nat
      BY <1>1, <2>0, Bounds DEF PollOK, Request, StampsOK, Row
    <3> QED
      BY <1>1, <2>3, <2>4, <3>1, <3>2
  <2> QED
    BY <2>8, <2>9
<1> QED
  BY <1>2, <1>3

-----------------------------------------------------------------------------
\* StaleOnlyWhenLate, message by message.
Current ==
  \A m \in DOMAIN shown \ late :
    shown[m] # Fold(m) /\ Fold(m) <= cursor => Overtaken(m)

\* StaleOnlyWhenLate, said without Stale, of the state a step starts from.
LEMMA StaleNow ==
  ASSUME StampsOK, PollOK, StaleOnlyWhenLate
  PROVE  Current
<1>1. \A m : Fold(m) \in Nat /\ cursor \in Nat
  BY FoldNow, Bounds DEF StampsOK, IsFold, PollOK, IsCursor
<1>2. \A m \in DOMAIN shown \ late : shown[m] # Fold(m) /\ ~Overtaken(m) => Fold(m) > cursor
  BY DEF StaleOnlyWhenLate, Stale
<1> QED
  BY <1>1, <1>2 DEF Current

\* And back again, of the state it leads to.
LEMMA StaleThen ==
  ASSUME StampsOK', PollOK', Current'
  PROVE  StaleOnlyWhenLate'
<1>1. \A m : Fold(m)' \in Nat /\ cursor' \in Nat
  BY FoldThen, Bounds DEF StampsOK, IsFold, PollOK, IsCursor
<1>2. \A m \in DOMAIN shown' \ late' :
        shown'[m] # Fold(m)' /\ ~(Overtaken(m)') => Fold(m)' > cursor'
  BY <1>1 DEF Current
<1> QED
  BY <1>2 DEF StaleOnlyWhenLate, Stale

\* A revision that is committed under a cursor that is past it was overtaken.
LEMMA FoldMoves ==
  ASSUME StampsOK, StampsOK', DatabaseStep, NEW c, IsCursor(c), NEW m,
         Fold(m)' # Fold(m), Fold(m)' <= c
  PROVE  Overtaken(m)'
<1>1. IsFold(revs, m, Fold(m)) /\ IsFold(revs', m, Fold(m)')
  BY FoldNow, FoldThen DEF StampsOK
<1>2. PICK t \in open : \E x : Revises(t, x)
  <2>1. revs' # revs
    BY DEF Fold
  <2> QED
    BY <2>1 DEF DatabaseStep, Begins, Writes, Checks, Rests
<1>3. PICK v : Revises(t, v)
  BY <1>2
<1>4. revs' = revs \cup {v} /\ v.at = t.at /\ v.done = clock + 1
  BY <1>3 DEF Revises
<1>5. /\ \A x \in revs : x.at \in Nat /\ x.done \in Nat /\ x.done <= clock /\ x.at # t.at
      /\ t.at \in Nat /\ t.at # 0 /\ clock \in Nat
      /\ Fold(m) \in Nat /\ Fold(m)' \in Nat /\ c \in Nat
  BY <1>1, Bounds DEF StampsOK, Revision, Transaction, IsFold, IsCursor
<1>6. Fold(m) <= Fold(m)'
  <2>1. Fold(m) # 0 => \E x \in revs : x.msg = m /\ x.at = Fold(m)
    BY <1>1 DEF IsFold
  <2>2. \A x \in revs : x.msg = m => x.at <= Fold(m)'
    BY <1>1, <1>4 DEF IsFold
  <2> QED
    BY <1>5, <2>1, <2>2
<1>7. v.msg = m /\ v.at = Fold(m)'
  <2>1. PICK w \in revs' : w.msg = m /\ w.at = Fold(m)'
    BY <1>1, <1>5, <1>6 DEF IsFold
  <2>2. w \notin revs
    BY <1>1, <1>5, <1>6, <2>1 DEF IsFold
  <2> QED
    BY <1>4, <2>1, <2>2
<1>8. PICK w \in revs : w.at = c
  BY <1>4, <1>5, <1>7 DEF IsCursor
<1>9. w.at > v.at /\ w.done < v.done
  BY <1>4, <1>5, <1>7, <1>8
<1> QED
  BY <1>4, <1>7, <1>8, <1>9 DEF Overtaken

\* A message whose fold a step leaves behind a cursor is overtaken, if it was or the fold moved.
LEMMA StaysOvertaken ==
  ASSUME StampsOK, StampsOK', DatabaseStep, NEW c, IsCursor(c), NEW m, Fold(m)' <= c,
         Fold(m)' = Fold(m) => Overtaken(m)
  PROVE  Overtaken(m)'
<1>1. CASE Fold(m)' = Fold(m)
  <2>1. revs \subseteq revs'
    BY DatabaseGrows
  <2>2. PICK x : x = Fold(m)
    OBVIOUS
  <2>3. \E v, w \in revs : v.msg = m /\ v.at = x /\ w.at > v.at /\ w.done < v.done
    BY <1>1, <2>2 DEF Overtaken
  <2> QED
    BY <1>1, <2>1, <2>2, <2>3 DEF Overtaken
<1>2. CASE Fold(m)' # Fold(m)
  BY <1>2, FoldMoves
<1> QED
  BY <1>1, <1>2

\* Where no revision is written, no fold changes.
LEMMA SameFold ==
  ASSUME UNCHANGED revs
  PROVE  \A m : Fold(m)' = Fold(m) /\ (Overtaken(m) => Overtaken(m)')
BY DEF Fold, Overtaken

\* No step leaves a message stale behind the cursor unless it was overtaken.
LEMMA CurrentKept ==
  ASSUME StampsOK, StampsOK', TabOK, PollOK, Current, PollIsCurrent, Changes
  PROVE  Current'
<1>0. DatabaseStep /\ ViewStep /\ IsCursor(cursor)
  BY DEF Changes, PollOK
<1>1. SUFFICES ASSUME NEW m \in DOMAIN shown', m \notin late',
                      shown'[m] # Fold(m)', Fold(m)' <= cursor'
               PROVE  Overtaken(m)'
  BY DEF Current
<1>2. CASE UNCHANGED view
  <2>1. /\ m \in DOMAIN shown \ late /\ shown[m] # Fold(m)' /\ Fold(m)' <= cursor
    BY <1>1, <1>2 DEF view
  <2>2. Fold(m)' = Fold(m) => Overtaken(m)
    BY <2>1 DEF Current
  <2> QED
    BY <1>0, <2>1, <2>2, StaysOvertaken
<1>3. CASE ~UNCHANGED view
  <2>0. Fold(m)' = Fold(m) /\ (Overtaken(m) => Overtaken(m)')
    BY <1>3, SameFold DEF Changes
  <2>1. PICK x : x = Fold(m)
    OBVIOUS
  <2>2. /\ x \in Nat /\ cursor \in Nat /\ poll.cursor \in Nat
        /\ shown'[m] # x /\ x <= cursor'
    BY <1>1, <2>0, <2>1, FoldNow, Bounds DEF StampsOK, IsFold, PollOK, IsCursor
  <2>3. m \in DOMAIN shown \ late /\ shown[m] # x /\ x <= cursor => Overtaken(m)
    BY <2>1 DEF Current
  <2>4. m \in DOMAIN poll.items \ poll.slipped /\ poll.items[m] # x /\ x <= poll.cursor
          => Overtaken(m)
    BY <2>1 DEF PollIsCurrent
  <2>5. ASSUME poll.step # "CURSOR", m \in DOMAIN shown,
               m \notin DOMAIN poll.items, m \notin poll.slipped,
               cursor < x, x <= poll.cursor
        PROVE  Overtaken(m)
    <3>1. DOMAIN shown \subseteq Stamps
      BY NewestIs DEF TabOK
    <3> QED
      BY <2>1, <2>5, <3>1 DEF PollIsCurrent
  <2>6. CASE Renews \/ Reads
    BY <1>1, <2>0, <2>2, <2>3, <2>6 DEF Renews, Reads
  <2>7. ASSUME NEW a \in answers, Takes(a)
        PROVE  Overtaken(m)'
    <3>1. m # a.msg
      <4>1. shown'[a.msg] = a.text
        BY <2>7 DEF Takes, Blends
      <4>2. a.text # Fold(a.msg) => a.msg \in late'
        BY <2>7 DEF Takes
      <4> QED
        BY <1>1, <2>0, <4>1, <4>2
    <3>2. m \in DOMAIN shown \ late /\ shown[m] # x /\ x <= cursor
      BY <1>1, <2>2, <2>7, <3>1 DEF Takes, Blends
    <3> QED
      BY <2>0, <2>3, <3>2
  <2>8. CASE Polls
    <3>1. m \notin poll.slipped /\ x <= poll.cursor
      BY <1>1, <2>2, <2>8 DEF Polls
    <3>2. CASE m \in DOMAIN poll.items
      BY <2>0, <2>2, <2>4, <2>8, <3>1, <3>2 DEF Polls, Blends
    <3>3. CASE m \notin DOMAIN poll.items
      <4>1. m \in DOMAIN shown \ late /\ shown[m] # x
        BY <1>1, <2>2, <2>8, <3>3 DEF Polls, Blends
      <4>2. poll.step = "ANSWER"
        BY <2>8 DEF Polls
      <4> QED
        BY <2>0, <2>2, <2>3, <2>5, <3>1, <3>3, <4>1, <4>2
    <3> QED
      BY <3>2, <3>3
  <2>9. CASE Opens
    <3>1. m \notin poll.slipped /\ x <= poll.cursor /\ m \notin late
      BY <1>1, <2>2, <2>9 DEF Opens
    <3>2. poll.step = "ANSWER"
      BY <2>9 DEF Opens
    <3>3. CASE m \notin DOMAIN shown
      BY <1>1, <2>0, <2>2, <2>4, <2>9, <3>1, <3>3 DEF Opens, Blends
    <3>4. CASE m \in DOMAIN shown
      <4>1. shown[m] # x
        BY <1>1, <2>2, <2>9, <3>4 DEF Opens, Blends
      <4>2. m \in DOMAIN poll.items => poll.items[m] = shown[m]
        BY <1>1, <2>9, <3>4 DEF Opens
      <4> QED
        BY <2>0, <2>2, <2>3, <2>4, <2>5, <3>1, <3>2, <3>4, <4>1, <4>2
    <3> QED
      BY <3>3, <3>4
  <2> QED
    BY <1>0, <1>3, <2>6, <2>7, <2>8, <2>9 DEF ViewStep
<1> QED
  BY <1>2, <1>3

\* What a poll has read is current, or has been overtaken since.
LEMMA PollCurrentKept ==
  ASSUME StampsOK, StampsOK', RevisionsOK, TabOK, PollOK, PollOK', PollIsCurrent, Changes
  PROVE  PollIsCurrent'
<1>0. /\ DatabaseStep /\ ViewStep /\ IsCursor(poll.cursor)
      /\ poll.cursor \in Nat /\ cursor \in Nat /\ \A m : Fold(m) \in Nat
  BY FoldNow, Bounds DEF Changes, StampsOK, IsFold, PollOK, IsCursor
<1>1. ASSUME NEW m \in DOMAIN poll'.items, m \notin poll'.slipped,
             poll'.items[m] # Fold(m)', Fold(m)' <= poll'.cursor
      PROVE  Overtaken(m)'
  <2>1. CASE UNCHANGED poll
    <3>1. Fold(m)' = Fold(m) => Overtaken(m)
      BY <1>1, <2>1 DEF PollIsCurrent
    <3> QED
      BY <1>0, <1>1, <2>1, <3>1, StaysOvertaken
  <2>2. CASE ~UNCHANGED poll
    <3>0. Fold(m)' = Fold(m) /\ (Overtaken(m) => Overtaken(m)')
      BY <2>2, SameFold DEF Changes, view
    <3>1. ~(Renews \/ Polls \/ Opens)
      BY <1>1, RestingIs DEF Renews, Polls, Opens, Fresh
    <3>2. Reads
      BY <1>0, <2>2, <3>1 DEF ViewStep, Takes, view
    <3>3. PICK p : p = poll'
      OBVIOUS
    <3>4. Lists(p) \/ Seconds(p) \/ Firsts(p)
      BY <3>2, <3>3 DEF Reads
    <3>5. ~Lists(p) /\ ~Firsts(p)
      BY <1>1, <3>0, <3>3 DEF Lists, Firsts, PollOK
    <3>6. Seconds(p)
      BY <3>4, <3>5
    <3>7. /\ m \in DOMAIN poll.items /\ m \notin poll.slipped
          /\ poll.items[m] # Fold(m) /\ m \notin Changed
      BY <1>1, <3>0, <3>3, <3>6 DEF Seconds, PollOK
    <3>8. Fold(m) <= poll.cursor
      <4>1. IsFold(revs, m, Fold(m))
        BY FoldNow DEF StampsOK
      <4>2. CASE Fold(m) = 0
        BY <1>0, <4>2
      <4>3. CASE Fold(m) # 0
        <5>1. PICK v \in revs : v.msg = m /\ v.at = Fold(m)
          BY <4>1, <4>3 DEF IsFold
        <5>2. ~(v.at > poll.cursor)
          BY <3>7, <5>1 DEF Changed
        <5> QED
          BY <1>0, <5>1, <5>2
      <4> QED
        BY <4>2, <4>3
    <3> QED
      BY <3>0, <3>7, <3>8 DEF PollIsCurrent
  <2> QED
    BY <2>1, <2>2
<1>2. ASSUME poll'.step # "CURSOR", NEW m \in Stamps,
             m \notin DOMAIN poll'.items, m \notin poll'.slipped,
             cursor' < Fold(m)', Fold(m)' <= poll'.cursor
      PROVE  Overtaken(m)'
  <2>1. CASE UNCHANGED <<poll, cursor>>
    <3>1. Fold(m)' = Fold(m) => Overtaken(m)
      BY <1>2, <2>1 DEF PollIsCurrent
    <3> QED
      BY <1>0, <1>2, <2>1, <3>1, StaysOvertaken
  <2>2. CASE ~UNCHANGED <<poll, cursor>>
    <3>0. Fold(m)' = Fold(m) /\ UNCHANGED <<rows, revs>>
      BY <2>2, SameFold DEF Changes, view
    <3>1. poll'.step \notin {"IDLE", "START", "ROWS"}
      <4>1. poll'.cursor \in Nat /\ cursor' \in Nat
        BY Bounds DEF PollOK, IsCursor
      <4>2. ~(poll'.cursor <= cursor')
        BY <1>0, <1>2, <3>0, <4>1
      <4> QED
        BY <4>2 DEF PollOK
    <3>2. ~(Renews \/ Polls \/ Opens)
      BY <3>1, RestingIs DEF Renews, Polls, Opens, Fresh
    <3>3. Reads
      BY <1>0, <2>2, <3>2 DEF ViewStep, Takes, view
    <3>4. PICK p : p = poll'
      OBVIOUS
    <3>5. Lists(p) \/ Seconds(p)
      BY <1>2, <3>3, <3>4 DEF Reads, Firsts
    <3>6. cursor < Fold(m)
      BY <1>2, <3>0, <3>3 DEF Reads
    <3>7. PICK v \in revs : v.msg = m /\ v.at = Fold(m)
      BY <1>0, <3>6, FoldNow DEF StampsOK, IsFold
    <3>8. ~Lists(p)
      <4>1. SUFFICES ASSUME Lists(p) PROVE FALSE
        OBVIOUS
      <4>2. poll.step = "CURSOR" /\ poll.anchor = 0
        BY <3>1, <3>4, <4>1 DEF Lists, PollOK
      <4>3. PICK r \in rows : r.at = m
        BY <3>7 DEF RevisionsOK
      <4>4. 0 < m
        BY Bounds
      <4> QED
        BY <1>2, <3>4, <4>1, <4>2, <4>3, <4>4 DEF Lists
    <3>9. ~Seconds(p)
      <4>1. SUFFICES ASSUME Seconds(p) PROVE FALSE
        OBVIOUS
      <4>2. m \notin Changed
        BY <1>2, <3>4, <4>1 DEF Seconds
      <4>3. ~(v.at > poll.cursor)
        BY <3>7, <4>2 DEF Changed
      <4>4. poll.cursor <= cursor
        BY <4>1 DEF Seconds, PollOK
      <4> QED
        BY <1>0, <3>6, <3>7, <4>3, <4>4
    <3> QED
      BY <3>5, <3>8, <3>9
  <2> QED
    BY <2>1, <2>2
<1> QED
  BY <1>1, <1>2 DEF PollIsCurrent

-----------------------------------------------------------------------------
\* The invariant is inductive.
LEMMA ChatStep == ChatInv /\ [Next]_vars => ChatInv'
<1> SUFFICES ASSUME ChatInv, [Next]_vars PROVE ChatInv'
  OBVIOUS
<1>0. /\ StampsOK /\ RevisionsOK /\ AnswersOK /\ TabOK /\ PollOK
      /\ SentOnce /\ DeletionsOK
      /\ MissedOnlyWhenPassed /\ PollSkips
      /\ StaleOnlyWhenLate /\ PollIsCurrent
  BY DEF ChatInv
<1>1. Changes /\ DatabaseStep
  BY <1>0, AllSteps DEF Changes
<1>2. StampsOK' /\ RevisionsOK' /\ SentOnce' /\ DeletionsOK'
  BY <1>0, <1>1, StampsKept, RevisionsKept, SentOnceKept, DeletionsKept
<1>3. AnswersOK' /\ TabOK' /\ PollOK'
  BY <1>0, <1>1, AnswersKept, TabKept, PollKept
<1>4. MissedOnlyWhenPassed' /\ PollSkips'
  BY <1>0, <1>1, <1>2, <1>3, MissedNow, MissedKept, MissedThen, SkipsKept
<1>5. StaleOnlyWhenLate' /\ PollIsCurrent'
  BY <1>0, <1>1, <1>2, <1>3, StaleNow, CurrentKept, StaleThen, PollCurrentKept
<1> QED
  BY <1>2, <1>3, <1>4, <1>5 DEF ChatInv

\* At the beginning there is nothing.
LEMMA ChatInit == Init => ChatInv
<1> SUFFICES ASSUME Init PROVE ChatInv
  OBVIOUS
<1>1. /\ clock = 0 /\ rows = {} /\ revs = {} /\ open = {}
      /\ calls = {} /\ answers = {} /\ shown = Nothing /\ cursor = 0
      /\ poll = Resting /\ late = {} /\ beyond = {}
  BY DEF Init
<1>2. /\ Fresh(Resting) /\ Resting.anchor = 0 /\ Resting.cursor = 0
      /\ Resting.step = "IDLE"
  BY RestingIs DEF Resting
<1>3. Nothing \in Shows /\ DOMAIN Nothing = {}
  <2>1. IsShown(Nothing) /\ DOMAIN Nothing = {}
    BY DEF Nothing, IsShown
  <2> QED
    BY <2>1, ShowsAre
<1>4. StampsOK /\ RevisionsOK /\ AnswersOK /\ SentOnce /\ DeletionsOK
  BY <1>1, Bounds, FS_EmptySet
    DEF StampsOK, RevisionsOK, AnswersOK, SentOnce, DeletionsOK
<1>5. TabOK
  BY <1>1, <1>3, Bounds DEF Init, TabOK
<1>6. PollOK
  BY <1>1, <1>2, Bounds DEF PollOK, Fresh, IsCursor
<1>7. PollSkips /\ PollIsCurrent
  <2>1. \A m : Fold(m) = 0
    BY <1>1, <1>4, FoldNow DEF StampsOK, IsFold
  <2> QED
    BY <1>1, <1>2, <2>1 DEF PollSkips, PollIsCurrent, Fresh
<1>8. MissedOnlyWhenPassed
  BY <1>1 DEF MissedOnlyWhenPassed, Missing
<1>9. StaleOnlyWhenLate
  BY <1>1, <1>3 DEF StaleOnlyWhenLate, Stale
<1> QED
  BY <1>4, <1>5, <1>6, <1>7, <1>8, <1>9 DEF ChatInv

\* ChatInv holds in every state of the specification.
LEMMA ChatAlways == Spec => []ChatInv
<1>1. Init => ChatInv
  BY ChatInit
<1>2. ChatInv /\ [Next]_vars => ChatInv'
  BY ChatStep
<1> QED
  BY <1>1, <1>2, PTL DEF Spec

-----------------------------------------------------------------------------
\* The types of the module.
LEMMA TypesHold == ChatInv => TypeOK
<1> SUFFICES ASSUME ChatInv PROVE TypeOK
  OBVIOUS
<1>0. StampsOK /\ RevisionsOK /\ AnswersOK /\ TabOK /\ PollOK
  BY DEF ChatInv
<1>1. clock \in 0 .. MaxClock
  <2>1. Cardinality(open) \in Nat
    BY <1>0, FS_CardinalityType DEF StampsOK
  <2> QED
    BY <1>0, <2>1, Bounds DEF StampsOK
<1>2. /\ IsShown(shown) /\ IsShown(poll.items) /\ cursor \in Texts
      /\ poll.step \in {"IDLE", "START", "ROWS", "CURSOR", "ANSWER"}
      /\ poll.kind \in {"DELTA", "PAGE", "OPEN"}
      /\ poll.anchor \in Texts /\ poll.cursor \in Texts
      /\ poll.slipped \subseteq Stamps /\ poll.beyond \subseteq Stamps
  BY <1>0, ShowsAre DEF TabOK, PollOK, Request, IsCursor
<1>3. UNION {late, beyond, poll.slipped, poll.beyond} \subseteq Stamps
  BY <1>0, <1>2 DEF TabOK
<1>4. \A m \in DOMAIN shown :
        /\ \E r \in rows : r.at = m
        /\ shown[m] # 0 => \E v \in revs : v.msg = m /\ v.at = shown[m]
  BY <1>0 DEF TabOK, Known
<1>5. /\ \A r, s \in rows \cup revs : r.at = s.at => r = s
      /\ \A v \in revs : \E r \in rows : r.at = v.msg /\ r.at < v.at
  BY <1>0 DEF StampsOK, RevisionsOK
<1> QED
  BY <1>0, <1>1, <1>2, <1>3, <1>4, <1>5 DEF TypeOK, StampsOK, AnswersOK, TabOK

\* A deletion that no edit can undo any more holds.
LEMMA DeletionsHold == ChatInv => DeletionHolds
<1> SUFFICES ASSUME ChatInv, NEW d \in revs, d.action = "DELETE", ~Deleted(d.msg)
             PROVE  \E e \in revs :
                      /\ e.msg = d.msg /\ e.action = "EDIT"
                      /\ d.at < e.at /\ e.at < d.done
  BY DEF DeletionHolds
<1>1. StampsOK /\ (Undone(d) \/ Final(d))
  BY DEF ChatInv, DeletionsOK
<1>2. ~Final(d)
  BY <1>1, FinalIsDeleted DEF Final
<1> QED
  BY <1>1, <1>2 DEF Undone

\* MessagesInv: a message is there once however often it is sent, a deletion is
\* undone only by an edit that overlaps it, and everything has its type
\* (UnifiedConversationService, migrations 026 and 029).
THEOREM MessagesAreRight == Spec => []MessagesInv
<1>1. ChatInv => MessagesInv
  BY TypesHold, DeletionsHold DEF MessagesInv, ChatInv
<1> QED
  BY <1>1, ChatAlways, PTL

\* MissedOnlyWhenPassed: a poll leaves out a message that is older than the
\* newest one shown for the three named reasons only.
THEOREM NoneMissedUnpassed == Spec => []MissedOnlyWhenPassed
<1>1. ChatInv => MissedOnlyWhenPassed
  BY DEF ChatInv
<1> QED
  BY <1>1, ChatAlways, PTL

\* StaleOnlyWhenLate: the cursor of revisions is past a text that is not shown
\* for the three named reasons only.
THEOREM NoneStaleUnlessLate == Spec => []StaleOnlyWhenLate
<1>1. ChatInv => StaleOnlyWhenLate
  BY DEF ChatInv
<1> QED
  BY <1>1, ChatAlways, PTL

\* EntrySettles: an optimistic entry goes only when its message is shown in its
\* place, or with the page (unified-chat-workspace).
THEOREM EntriesSettle == Spec => EntrySettles
<1> DEFINE Settles ==
      \A k \in Mine : outbox[k] # "NONE" /\ outbox'[k] = "NONE" =>
        \/ poll'.kind = "OPEN"
        \/ \E r \in rows' : r.key = k /\ r.at \in DOMAIN shown'
<1>1. ASSUME TabOK, [Next]_vars
      PROVE  Settles
  <2>0. outbox \in [Mine -> {"NONE", "SENDING", "FAILED"}]
    BY <1>1 DEF TabOK
  <2>1. ASSUME NEW f, Show(f), rows' = rows
        PROVE  Settles
    BY <2>1 DEF Show, Settled
  <2>2. CASE UNCHANGED outbox
    BY <2>2
  <2>3. CASE \E k \in Mine : deliverText(k) \/ markFailed(k)
    <3>1. PICK k \in Mine : deliverText(k) \/ markFailed(k)
      BY <2>3
    <3>2. \/ outbox' = [outbox EXCEPT ![k] = "SENDING"]
          \/ outbox' = [outbox EXCEPT ![k] = IF outbox[k] = "SENDING" THEN "FAILED" ELSE outbox[k]]
      BY <3>1 DEF deliverText, markFailed
    <3> QED
      BY <2>0, <3>2
  <2>4. CASE (\E a \in answers : TakeAnswer(a)) \/ TakePoll \/ OpenPage
    BY <2>1, <2>4 DEF TakeAnswer, TakePoll, OpenPage, untouchedByPoll, server
  <2>5. CASE LeavePage
    <3>1. poll' = [Resting EXCEPT !.step = "START", !.kind = "OPEN"]
      BY <2>5 DEF LeavePage
    <3>2. poll'.kind = "OPEN"
      BY <3>1 DEF Resting
    <3> QED
      BY <3>2
  <2>6. \/ UNCHANGED outbox
        \/ \E k \in Mine : deliverText(k) \/ markFailed(k)
        \/ (\E a \in answers : TakeAnswer(a)) \/ TakePoll \/ OpenPage \/ LeavePage
    <3>1. Database => UNCHANGED outbox
      BY DEF Database, Receive, BeginTheirs, BeginRevision, sendMessage, CheckRevision,
        CommitRevision, Abort, sending
    <3>2. /\ (\E a \in answers : LoseAnswer(a)) => UNCHANGED outbox
          /\ StartPoll \/ ReadRows \/ ReadRevisions \/ ReadCursorFirst \/ PollFails
               => UNCHANGED outbox
          /\ UNCHANGED vars => UNCHANGED outbox
      BY DEF LoseAnswer, StartPoll, ReadRows, ReadRevisions, ReadCursorFirst, PollFails,
        sending, vars
    <3> QED
      BY <1>1, <3>1, <3>2 DEF Next, Send, Poll
  <2> QED
    BY <2>2, <2>3, <2>4, <2>5, <2>6
<1>2. ChatInv => TabOK
  BY DEF ChatInv
<1> QED
  BY <1>1, <1>2, ChatAlways, PTL DEF Spec, EntrySettles
=============================================================================
