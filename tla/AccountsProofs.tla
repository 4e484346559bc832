--------------------------- MODULE AccountsProofs ---------------------------
(***************************************************************************)
(* Theorems of Accounts, for every value of its constants: any people and  *)
(* calls, any number of passwords, sessions, links and recoveries.         *)
(***************************************************************************)
EXTENDS Accounts, FiniteSetTheorems, SequenceTheorems, TLAPS

Registered(u) == user[u].status # "NONE"

\* The people: who is unknown has no address, no number and no role to lose;
\* who is verified is beyond pending; and one administrator at most.
PeopleOK ==
  /\ user \in [Users -> Account]
  /\ roles \in [Users -> SUBSET {"STUDENT", "ADMIN"}]
  /\ \A u \in Users :
       /\ ~Registered(u) =>
            ~user[u].email /\ user[u].phone # "PENDING" /\ "ADMIN" \notin roles[u]
       /\ Verified(u) <=> user[u].status \in {"ACTIVE", "SUSPENDED"}
  /\ \A u, v \in Administrators : u = v

\* A table of links: of those of one person one at most still works.
LinksOK(s) ==
  /\ s \in Seq(Link) /\ Len(s) <= MaxLinks
  /\ \A i, j \in DOMAIN s :
       Live(s[i]) /\ Live(s[j]) /\ s[i].user = s[j].user => i = j

\* Only who is registered has links.
OwnersOK ==
  /\ \A i \in DOMAIN verify : Registered(verify[i].user)
  /\ \A i \in DOMAIN reset : Registered(reset[i].user)

\* An approved recovery holds a link of its own account, which still works.
HoldsLink(r) ==
  /\ recovery[r].link \in DOMAIN reset
  /\ Live(reset[recovery[r].link])
  /\ reset[recovery[r].link].user = recovery[r].user

RecoveriesOK ==
  /\ recovery \in Seq(Recovery)
  /\ \A r \in DOMAIN recovery :
       /\ Registered(recovery[r].user)
       /\ recovery[r].status = "APPROVED" => HoldsLink(r)
  /\ \A q, r \in DOMAIN recovery :
       /\ recovery[q].status = "APPROVED"
       /\ recovery[r].status = "APPROVED"
       /\ recovery[q].user = recovery[r].user
       => q = r

SessionsOK == session \in Seq(Session) /\ LiveSessionIsCurrent

\* What a call holds is stale, but not without any truth: an administrator
\* keeps the role, and a link stays its person's.
Truthful(t) ==
  /\ t.step # "IDLE" => t.user \in Users
  /\ "ADMIN" \in t.roles => t.user \in Administrators
  /\ t.step = "RESET" => t.link \in DOMAIN reset /\ reset[t.link].user = t.user

CallsOK == call \in [Calls -> Call] /\ \A c \in Calls : Truthful(call[c])

Inv ==
  /\ PeopleOK
  /\ LinksOK(verify) /\ LinksOK(reset) /\ OwnersOK
  /\ RecoveriesOK
  /\ SessionsOK
  /\ CallsOK

-----------------------------------------------------------------------------
\* A function on the places of a sequence is a sequence.
LEMMA MapSeq ==
  ASSUME NEW S, NEW T, NEW s \in Seq(S), NEW f \in [DOMAIN s -> T]
  PROVE  f \in Seq(T) /\ Len(f) = Len(s) /\ DOMAIN f = DOMAIN s
<1>1. Len(s) \in Nat /\ DOMAIN s = 1 .. Len(s)
  OBVIOUS
<1>2. f \in [1 .. Len(s) -> T]
  BY <1>1
<1>3. f \in Seq(T)
  BY <1>1, <1>2
<1>4. DOMAIN f = 1 .. Len(s)
  BY <1>2
<1> QED
  BY <1>1, <1>3, <1>4

\* A sequence with one element more.
LEMMA Extended ==
  ASSUME NEW S, NEW s \in Seq(S), NEW x \in S
  PROVE  /\ Append(s, x) \in Seq(S)
         /\ Len(Append(s, x)) = Len(s) + 1
         /\ DOMAIN Append(s, x) = DOMAIN s \cup {Len(s) + 1}
         /\ Len(s) + 1 \notin DOMAIN s
         /\ Append(s, x)[Len(s) + 1] = x
         /\ \A i \in DOMAIN s : Append(s, x)[i] = s[i]
<1>1. Len(s) \in Nat /\ DOMAIN s = 1 .. Len(s)
  OBVIOUS
<1>2. /\ Append(s, x) \in Seq(S) /\ Len(Append(s, x)) = Len(s) + 1
      /\ DOMAIN Append(s, x) = 1 .. Len(s) + 1
  OBVIOUS
<1>3. /\ Append(s, x)[Len(s) + 1] = x
      /\ \A i \in 1 .. Len(s) : Append(s, x)[i] = s[i]
  OBVIOUS
<1> QED
  BY <1>1, <1>2, <1>3

\* The links of one table, after some were revoked, spent, expired or
\* deleted: places and people stay, and none works that did not.
Fewer(s, t) ==
  /\ t \in Seq(Link) /\ Len(t) = Len(s) /\ DOMAIN t = DOMAIN s
  /\ \A i \in DOMAIN s : t[i].user = s[i].user /\ (Live(t[i]) => Live(s[i]))

\* Revoking ends the links of one person, all but the one that is kept.
LEMMA RevokeFewer ==
  ASSUME NEW s \in Seq(Link), NEW u, NEW kept
  PROVE  /\ Fewer(s, RevokeBut(s, u, kept))
         /\ \A i \in DOMAIN s :
              /\ s[i].user = u /\ i # kept => ~Live(RevokeBut(s, u, kept)[i])
              /\ s[i].user # u \/ i = kept => RevokeBut(s, u, kept)[i] = s[i]
<1> DEFINE t == RevokeBut(s, u, kept)
<1>1. \A i \in DOMAIN s : s[i] \in Link
  OBVIOUS
<1>2. \A i \in DOMAIN s : [s[i] EXCEPT !.status = "REVOKED"] \in Link
  BY <1>1 DEF Link
<1>3. t \in [DOMAIN s -> Link]
  BY <1>1, <1>2 DEF RevokeBut
<1>4. t \in Seq(Link) /\ Len(t) = Len(s) /\ DOMAIN t = DOMAIN s
  BY <1>3, MapSeq
<1>5. \A i \in DOMAIN s :
        IF s[i].user = u /\ i # kept /\ Live(s[i])
        THEN t[i].user = s[i].user /\ t[i].status = "REVOKED"
        ELSE t[i] = s[i]
  BY <1>1 DEF RevokeBut, Link
<1> HIDE DEF t
<1>6. Fewer(s, t)
  BY <1>4, <1>5 DEF Fewer, Live
<1>7. \A i \in DOMAIN s :
        /\ s[i].user = u /\ i # kept => ~Live(t[i])
        /\ s[i].user # u \/ i = kept => t[i] = s[i]
  BY <1>5 DEF Live
<1> QED
  BY <1>6, <1>7 DEF t

\* One link changes its status and does not work afterwards, or did before.
LEMMA StatusFewer ==
  ASSUME NEW s \in Seq(Link), NEW i \in DOMAIN s,
         NEW x \in {"LIVE", "EXPIRED", "USED", "REVOKED"},
         x \in {"LIVE", "EXPIRED"} => Live(s[i])
  PROVE  /\ Fewer(s, [s EXCEPT ![i].status = x])
         /\ [s EXCEPT ![i].status = x][i].status = x
<1> DEFINE y == [s[i] EXCEPT !.status = x]
           t == [s EXCEPT ![i] = y]
<1>1. \A j \in DOMAIN s : s[j] \in Link
  OBVIOUS
<1>2. y \in Link /\ y.user = s[i].user /\ y.status = x
  BY <1>1 DEF Link
<1> HIDE DEF y
<1>3. t \in [DOMAIN s -> Link]
  BY <1>1, <1>2
<1>4. t \in Seq(Link) /\ Len(t) = Len(s) /\ DOMAIN t = DOMAIN s
  BY <1>3, MapSeq
<1>5. \A j \in DOMAIN s : t[j] = IF j = i THEN y ELSE s[j]
  OBVIOUS
<1> HIDE DEF t
<1>6. Fewer(s, t) /\ t[i].status = x
  BY <1>2, <1>4, <1>5 DEF Fewer, Live
<1> QED
  BY <1>6 DEF t, y

\* A clean-up touches no link that can be used.
LEMMA CleanedFewer ==
  ASSUME NEW s \in Seq(Link), NEW old
  PROVE  /\ Fewer(s, Cleaned(s, old))
         /\ \A i \in DOMAIN s : s[i].status = "LIVE" => Cleaned(s, old)[i] = s[i]
<1> DEFINE t == Cleaned(s, old)
<1>1. \A i \in DOMAIN s : s[i] \in Link
  OBVIOUS
<1>2. \A i \in DOMAIN s : [s[i] EXCEPT !.status = "REVOKED"] \in Link
  BY <1>1 DEF Link
<1>3. t \in [DOMAIN s -> Link]
  BY <1>1, <1>2 DEF Cleaned
<1>4. t \in Seq(Link) /\ Len(t) = Len(s) /\ DOMAIN t = DOMAIN s
  BY <1>3, MapSeq
<1>5. \A i \in DOMAIN s :
        IF i \in old /\ s[i].status = "EXPIRED"
        THEN t[i].user = s[i].user /\ t[i].status = "REVOKED"
        ELSE t[i] = s[i]
  BY <1>1 DEF Cleaned, Link
<1> HIDE DEF t
<1> QED
  BY <1>4, <1>5 DEF Fewer, Live, t

\* Sessions that were ended open nothing, and the others stay as they are.
LEMMA EndedSessions ==
  ASSUME session \in Seq(Session), NEW ended
  PROVE  LET t == SessionsWithout(ended) IN
         /\ t \in Seq(Session) /\ Len(t) = Len(session) /\ DOMAIN t = DOMAIN session
         /\ \A i \in DOMAIN session :
              /\ i \in ended => ~Usable(t[i])
              /\ i \notin ended => t[i] = session[i]
<1> DEFINE t == SessionsWithout(ended)
           y(i) == [session[i] EXCEPT !.status = "OVER", !.password = 0, !.roles = {}]
<1>1. \A i \in DOMAIN session : session[i] \in Session
  OBVIOUS
<1>2. 0 \in 0 .. MaxPasswords
  BY BoundsAssumption DEF BoundsAssumption
<1>3. \A i \in DOMAIN session : y(i) \in Session /\ y(i).status = "OVER"
  BY <1>1, <1>2 DEF Session
<1> HIDE DEF y
<1>4. t = [i \in DOMAIN session |-> IF i \in ended THEN y(i) ELSE session[i]]
  BY DEF SessionsWithout, y
<1>5. t \in [DOMAIN session -> Session]
  BY <1>1, <1>3, <1>4
<1>6. t \in Seq(Session) /\ Len(t) = Len(session) /\ DOMAIN t = DOMAIN session
  BY <1>5, MapSeq
<1>7. \A i \in DOMAIN session : t[i] = IF i \in ended THEN y(i) ELSE session[i]
  BY <1>4
<1> HIDE DEF t
<1> QED
  BY <1>3, <1>6, <1>7 DEF Usable, t

\* Recoveries, after some were decided or let go of: none is approved that was
\* not.
Undone(t) ==
  /\ t \in Seq(Recovery) /\ Len(t) = Len(recovery) /\ DOMAIN t = DOMAIN recovery
  /\ \A r \in DOMAIN recovery :
       /\ t[r].user = recovery[r].user
       /\ t[r].status = "APPROVED" => t[r] = recovery[r]

\* Recoveries that are rewritten row by row, without a new approval.
LEMMA UndoneMap ==
  ASSUME recovery \in Seq(Recovery), NEW t \in [DOMAIN recovery -> Recovery],
         \A r \in DOMAIN recovery :
           \/ t[r] = recovery[r]
           \/ t[r].user = recovery[r].user /\ t[r].status # "APPROVED"
  PROVE  Undone(t)
BY MapSeq DEF Undone

\* The ways the operations let go of recoveries.
LEMMA ExpireUndone ==
  ASSUME recovery \in Seq(Recovery), NEW u
  PROVE  /\ Undone(expireApproved(u))
         /\ \A r \in DOMAIN recovery :
              recovery[r].user = u => expireApproved(u)[r].status # "APPROVED"
<1> DEFINE t == expireApproved(u)
           y(r) == [recovery[r] EXCEPT !.status = "LINK_EXPIRED", !.link = 0]
<1>0. 0 \in 0 .. MaxLinks
  BY BoundsAssumption DEF BoundsAssumption
<1>1. \A r \in DOMAIN recovery : recovery[r] \in Recovery
  OBVIOUS
<1>2. ASSUME NEW r \in DOMAIN recovery
      PROVE  y(r) \in Recovery /\ y(r).user = recovery[r].user
             /\ y(r).status = "LINK_EXPIRED"
  BY <1>0, <1>1, <1>2 DEF Recovery
<1> HIDE DEF y
<1>3. t = [r \in DOMAIN recovery |->
             IF recovery[r].user = u /\ recovery[r].status = "APPROVED"
             THEN y(r) ELSE recovery[r]]
  BY DEF expireApproved, y
<1> HIDE DEF t
<1>4. t \in [DOMAIN recovery -> Recovery]
  BY <1>1, <1>2, <1>3
<1>5. Undone(t)
  BY <1>2, <1>3, <1>4, UndoneMap
<1> QED
  BY <1>2, <1>3, <1>5 DEF t

\* A reset completes the recovery that holds its link, and ends the others
\* that its person was approved.
LEMMA CompletedUndone ==
  ASSUME recovery \in Seq(Recovery), NEW i
  PROVE  /\ Undone(completedBy(i))
         /\ \A r \in DOMAIN recovery :
              recovery[r].user = reset[i].user => completedBy(i)[r].status # "APPROVED"
<1> DEFINE t == completedBy(i)
           s(r) == IF recovery[r].link = i THEN "COMPLETED" ELSE "LINK_EXPIRED"
           y(r) == [recovery[r] EXCEPT !.status = s(r), !.link = 0]
<1>0. 0 \in 0 .. MaxLinks
  BY BoundsAssumption DEF BoundsAssumption
<1>1. \A r \in DOMAIN recovery : recovery[r] \in Recovery
  OBVIOUS
<1>2. ASSUME NEW r \in DOMAIN recovery
      PROVE  y(r) \in Recovery /\ y(r).user = recovery[r].user
             /\ y(r).status # "APPROVED"
  BY <1>0, <1>1, <1>2 DEF Recovery
<1> HIDE DEF y
<1>3. t = [r \in DOMAIN recovery |->
             IF recovery[r].status = "APPROVED" /\ recovery[r].user = reset[i].user
             THEN y(r) ELSE recovery[r]]
  BY DEF completedBy, y
<1> HIDE DEF t
<1>4. t \in [DOMAIN recovery -> Recovery]
  BY <1>1, <1>2, <1>3
<1>5. Undone(t)
  BY <1>2, <1>3, <1>4, UndoneMap
<1> QED
  BY <1>2, <1>3, <1>5 DEF t

\* Before links are deleted, no approved recovery refers to one that may be.
LEMMA LetGoUndone ==
  ASSUME recovery \in Seq(Recovery)
  PROVE  /\ Undone(letGo)
         /\ \A r \in DOMAIN recovery :
              letGo[r].status = "APPROVED" =>
                reset[recovery[r].link].status \notin {"EXPIRED", "REVOKED"}
<1> DEFINE y(r) == [recovery[r] EXCEPT !.status = "LINK_EXPIRED", !.link = 0]
           z(r) == [recovery[r] EXCEPT !.status = "EXPIRED"]
           t == letGo
<1>0. 0 \in 0 .. MaxLinks
  BY BoundsAssumption DEF BoundsAssumption
<1>1. \A r \in DOMAIN recovery : recovery[r] \in Recovery
  OBVIOUS
<1>2. ASSUME NEW r \in DOMAIN recovery
      PROVE  /\ y(r) \in Recovery /\ y(r).user = recovery[r].user
             /\ z(r) \in Recovery /\ z(r).user = recovery[r].user
             /\ y(r).status # "APPROVED" /\ z(r).status # "APPROVED"
  BY <1>0, <1>1, <1>2 DEF Recovery
<1> HIDE DEF y, z
<1>3. t = [r \in DOMAIN recovery |->
             IF /\ recovery[r].status = "APPROVED"
                /\ reset[recovery[r].link].status \in {"EXPIRED", "REVOKED"}
             THEN y(r)
             ELSE IF recovery[r].status = "PENDING" /\ recovery[r].expired
             THEN z(r) ELSE recovery[r]]
  BY DEF letGo, y, z
<1> HIDE DEF t
<1>4. t \in [DOMAIN recovery -> Recovery]
  BY <1>1, <1>2, <1>3
<1>5. Undone(t)
  BY <1>2, <1>3, <1>4, UndoneMap
<1> QED
  BY <1>2, <1>3, <1>5 DEF t

\* One recovery that is not approved afterwards.
LEMMA StatusUndone ==
  ASSUME recovery \in Seq(Recovery), NEW r \in DOMAIN recovery,
         NEW s \in {"REJECTED", "EXPIRED"}
  PROVE  Undone([recovery EXCEPT ![r].status = s])
<1> DEFINE y == [recovery[r] EXCEPT !.status = s]
           t == [recovery EXCEPT ![r] = y]
<1>1. \A q \in DOMAIN recovery : recovery[q] \in Recovery
  OBVIOUS
<1>2. y \in Recovery /\ y.user = recovery[r].user /\ y.status # "APPROVED"
  BY <1>1 DEF Recovery
<1> HIDE DEF y
<1>3. /\ t \in [DOMAIN recovery -> Recovery]
      /\ \A q \in DOMAIN recovery : t[q] = IF q = r THEN y ELSE recovery[q]
  BY <1>1, <1>2
<1> HIDE DEF t
<1>4. Undone(t)
  BY <1>2, <1>3, UndoneMap
<1> QED
  BY <1>4 DEF t, y

-----------------------------------------------------------------------------
\* People stay registered, and an administrator remains one.
PeopleStay ==
  /\ \A u \in Users : Registered(u) => Registered(u)'
  /\ Administrators \subseteq Administrators'

\* One account changes, to one that is registered.
LEMMA OnePerson ==
  ASSUME PeopleOK, NEW u \in Users, NEW a \in Account,
         NEW r \in SUBSET {"STUDENT", "ADMIN"},
         user' = [user EXCEPT ![u] = a], roles' = [roles EXCEPT ![u] = r],
         a.status # "NONE",
         a.emailVerified \/ a.phone = "VERIFIED" <=> a.status \in {"ACTIVE", "SUSPENDED"},
         "ADMIN" \in r => Administrators \subseteq {u},
         "ADMIN" \in roles[u] => "ADMIN" \in r
  PROVE  PeopleOK' /\ PeopleStay
<1>1. /\ user' \in [Users -> Account]
      /\ roles' \in [Users -> SUBSET {"STUDENT", "ADMIN"}]
      /\ user'[u] = a /\ roles'[u] = r
      /\ \A v \in Users \ {u} : user'[v] = user[v] /\ roles'[v] = roles[v]
  BY DEF PeopleOK
<1>2. ASSUME NEW v \in Users
      PROVE  /\ ~Registered(v)' =>
                  ~user'[v].email /\ user'[v].phone # "PENDING" /\ "ADMIN" \notin roles'[v]
             /\ Verified(v)' <=> user'[v].status \in {"ACTIVE", "SUSPENDED"}
             /\ Registered(v) => Registered(v)'
  BY <1>1 DEF PeopleOK, Registered, Verified
<1>3. Administrators \subseteq Administrators'
  BY <1>1 DEF Administrators
<1>4. \A v, w \in Administrators' : v = w
  BY <1>1 DEF Administrators, PeopleOK
<1> QED
  BY <1>1, <1>2, <1>3, <1>4 DEF PeopleOK, PeopleStay

\* Nobody's account changes.
LEMMA NobodyChanges == ASSUME PeopleOK, UNCHANGED <<user, roles>>
                       PROVE  PeopleOK' /\ PeopleStay
BY DEF PeopleOK, PeopleStay, Registered, Verified, Administrators

\* An account that only changes its status, its verifications or its password.
LEMMA SameRoles ==
  ASSUME PeopleOK, NEW u \in Users, NEW a \in Account, Registered(u),
         user' = [user EXCEPT ![u] = a], UNCHANGED roles,
         a.status # "NONE",
         a.emailVerified \/ a.phone = "VERIFIED" <=> a.status \in {"ACTIVE", "SUSPENDED"}
  PROVE  PeopleOK' /\ PeopleStay
<1>1. roles' = [roles EXCEPT ![u] = roles[u]] /\ roles[u] \in SUBSET {"STUDENT", "ADMIN"}
  BY DEF PeopleOK
<1>2. "ADMIN" \in roles[u] => Administrators \subseteq {u}
  BY DEF PeopleOK, Administrators
<1> QED
  BY <1>1, <1>2, OnePerson

\* A new account.
LEMMA NewPerson ==
  ASSUME PeopleOK, NEW u \in Users, NEW a \in Account,
         NEW r \in SUBSET {"STUDENT", "ADMIN"}, ~Registered(u),
         user' = [user EXCEPT ![u] = a], roles' = [roles EXCEPT ![u] = r],
         a.status # "NONE",
         a.emailVerified \/ a.phone = "VERIFIED" <=> a.status \in {"ACTIVE", "SUSPENDED"},
         "ADMIN" \in r => Administrators = {}
  PROVE  PeopleOK' /\ PeopleStay
<1>1. "ADMIN" \notin roles[u]
  BY DEF PeopleOK
<1> QED
  BY <1>1, OnePerson

\* The password that comes next.
LEMMA NextPassword ==
  ASSUME PeopleOK, NEW u \in Users, Registered(u), RoomForPassword(u),
         user' = newPassword(u), UNCHANGED roles
  PROVE  PeopleOK' /\ PeopleStay
<1> DEFINE a == [user[u] EXCEPT !.password = @ + 1]
<1>1. user[u] \in Account /\ MaxPasswords \in Nat
  BY BoundsAssumption DEF PeopleOK, BoundsAssumption
<1>2. user[u].password + 1 \in 0 .. MaxPasswords
  BY <1>1 DEF RoomForPassword, Account
<1>3. /\ a \in Account /\ a.status = user[u].status
      /\ a.emailVerified = user[u].emailVerified /\ a.phone = user[u].phone
  BY <1>1, <1>2 DEF Account
<1>4. user' = [user EXCEPT ![u] = a]
  BY DEF newPassword
<1>5. a.emailVerified \/ a.phone = "VERIFIED" <=> a.status \in {"ACTIVE", "SUSPENDED"}
  BY <1>3 DEF PeopleOK, Verified
<1> HIDE DEF a
<1> QED
  BY <1>3, <1>4, <1>5, SameRoles DEF Registered

\* A role is given or taken; that of an administrator is never taken, as there
\* is no second one to go on.
LEMMA RoleChanges ==
  ASSUME PeopleOK, NEW u \in Users, NEW role \in {"STUDENT", "ADMIN"},
         grantRole(u, role) \/ revokeRole(u, role)
  PROVE  PeopleOK' /\ PeopleStay
<1>1. Registered(u) /\ UNCHANGED user
  BY DEF grantRole, revokeRole, PeopleOK
<1>2. user[u] \in Account /\ user' = [user EXCEPT ![u] = user[u]]
  BY <1>1 DEF PeopleOK
<1>3. /\ user[u].status # "NONE"
      /\ user[u].emailVerified \/ user[u].phone = "VERIFIED" <=>
           user[u].status \in {"ACTIVE", "SUSPENDED"}
  BY <1>1 DEF PeopleOK, Verified, Registered
<1>4. "ADMIN" \in roles[u] => Administrators \subseteq {u}
  BY DEF PeopleOK, Administrators
<1>5. roles[u] \in SUBSET {"STUDENT", "ADMIN"}
  BY DEF PeopleOK
<1>6. CASE grantRole(u, role)
  <2> DEFINE r == roles[u] \cup {role}
  <2>1. r \in SUBSET {"STUDENT", "ADMIN"} /\ roles' = [roles EXCEPT ![u] = r]
    BY <1>5, <1>6 DEF grantRole
  <2>2. /\ "ADMIN" \in r => Administrators \subseteq {u}
        /\ "ADMIN" \in roles[u] => "ADMIN" \in r
    BY <1>4, <1>6 DEF grantRole
  <2> HIDE DEF r
  <2> QED
    BY <1>2, <1>3, <2>1, <2>2, OnePerson
<1>7. CASE revokeRole(u, role)
  <2> DEFINE r == roles[u] \ {role}
  <2>1. r \in SUBSET {"STUDENT", "ADMIN"} /\ roles' = [roles EXCEPT ![u] = r]
    BY <1>5, <1>7 DEF revokeRole
  <2>2. role # "ADMIN"
    BY <1>4, <1>7 DEF revokeRole, AnotherServes
  <2>3. /\ "ADMIN" \in r => Administrators \subseteq {u}
        /\ "ADMIN" \in roles[u] => "ADMIN" \in r
    BY <1>4, <2>2
  <2> HIDE DEF r
  <2> QED
    BY <1>2, <1>3, <2>1, <2>3, OnePerson
<1> QED
  BY <1>6, <1>7

\* Every step.
LEMMA PeopleKept ==
  ASSUME Inv, [Next]_vars
  PROVE  PeopleOK' /\ PeopleStay
<1>0. /\ PeopleOK
      /\ verify \in Seq(Link)
      /\ \A i \in DOMAIN verify : verify[i].user \in Users /\ Registered(verify[i].user)
      /\ \A u \in Users : user[u] \in Account
      /\ {0, 1} \subseteq 0 .. MaxPasswords
  <2>1. PeopleOK /\ LinksOK(verify) /\ OwnersOK
    BY DEF Inv
  <2>2. \A i \in DOMAIN verify : verify[i] \in Link /\ Registered(verify[i].user)
    BY <2>1 DEF LinksOK, OwnersOK
  <2>3. {0, 1} \subseteq 0 .. MaxPasswords
    BY BoundsAssumption DEF BoundsAssumption
  <2> QED
    BY <2>1, <2>2, <2>3 DEF LinksOK, Link, PeopleOK
<1>1. CASE UNCHANGED <<user, roles>>
  BY <1>0, <1>1, NobodyChanges
<1>2. ASSUME NEW u \in Users, NEW byPhone \in BOOLEAN, registerStudent(u, byPhone)
      PROVE  PeopleOK' /\ PeopleStay
  <2> DEFINE a == [status |-> "PENDING_VERIFICATION", email |-> TRUE,
                   emailVerified |-> FALSE, password |-> 1,
                   phone |-> IF byPhone THEN "PENDING" ELSE "NOT_REQUIRED"]
  <2>1. a \in Account
    BY <1>0 DEF Account
  <2> QED
    BY <1>0, <1>2, <2>1, NewPerson DEF registerStudent, Registered
<1>3. ASSUME NEW i \in DOMAIN verify, verifyEmail(i)
      PROVE  PeopleOK' /\ PeopleStay
  <2> DEFINE u == verify[i].user
             a == [user[u] EXCEPT !.status = "ACTIVE", !.emailVerified = TRUE]
  <2>1. u \in Users /\ Registered(u) /\ user[u] \in Account
    BY <1>0
  <2> HIDE DEF u
  <2>2. a \in Account /\ a.status = "ACTIVE" /\ a.emailVerified = TRUE
    BY <2>1 DEF Account
  <2>3. CASE user' = [user EXCEPT ![u].status = "ACTIVE", ![u].emailVerified = TRUE]
    <3>1. user' = [user EXCEPT ![u] = a]
      BY <2>1, <2>3 DEF PeopleOK
    <3> HIDE DEF a
    <3> QED
      BY <1>0, <1>3, <2>1, <2>2, <3>1, SameRoles DEF verifyEmail
  <2> QED
    BY <1>0, <1>1, <1>3, <2>3 DEF verifyEmail, u
<1>4. ASSUME NEW c \in Calls, NEW u \in Users, confirmPhoneVerification(c, u)
      PROVE  PeopleOK' /\ PeopleStay
  <2> DEFINE s == IF user[u].status = "PENDING_VERIFICATION" THEN "ACTIVE"
                  ELSE user[u].status
             a == [user[u] EXCEPT !.phone = "VERIFIED", !.status = s]
  <2>1. Registered(u) /\ user[u] \in Account
    BY <1>0, <1>4 DEF confirmPhoneVerification, PeopleOK
  <2>2. s \in {"ACTIVE", "SUSPENDED"}
    BY <2>1 DEF Account, Registered
  <2>3. user' = [user EXCEPT ![u] = a] /\ UNCHANGED roles
    BY <1>0, <1>4 DEF confirmPhoneVerification, PeopleOK
  <2> HIDE DEF s
  <2>4. a \in Account /\ a.status = s /\ a.phone = "VERIFIED"
    BY <2>1, <2>2 DEF Account
  <2> HIDE DEF a
  <2> QED
    BY <1>0, <2>1, <2>2, <2>3, <2>4, SameRoles
<1>5. ASSUME NEW c \in Calls, NEW u \in Users, createStudentByAdmin(c, u)
      PROVE  PeopleOK' /\ PeopleStay
  <2> DEFINE a == [status |-> "ACTIVE", email |-> FALSE, emailVerified |-> FALSE,
                   phone |-> "VERIFIED", password |-> 0]
  <2>1. a \in Account
    BY <1>0 DEF Account
  <2> QED
    BY <1>0, <1>5, <2>1, NewPerson DEF createStudentByAdmin, Registered
<1>6. ASSUME NEW c \in Calls, NEW u \in Users,
             NEW from \in {"ACTIVE", "SUSPENDED"}, NEW to \in {"ACTIVE", "SUSPENDED"},
             setStudentAccountStatus(c, u, from, to)
      PROVE  PeopleOK' /\ PeopleStay
  <2> DEFINE a == [user[u] EXCEPT !.status = to]
  <2>1. Registered(u) /\ user[u] \in Account
    BY <1>0, <1>6 DEF setStudentAccountStatus, Registered
  <2>2. user' = [user EXCEPT ![u] = a] /\ UNCHANGED roles
    BY <1>6 DEF setStudentAccountStatus
  <2>3. /\ a \in Account /\ a.status = to /\ a.phone = user[u].phone
        /\ a.emailVerified = user[u].emailVerified
    BY <2>1 DEF Account
  <2>4. user[u].emailVerified \/ user[u].phone = "VERIFIED"
    BY <1>0, <1>6 DEF setStudentAccountStatus, PeopleOK, Verified
  <2> HIDE DEF a
  <2> QED
    BY <1>0, <2>1, <2>2, <2>3, <2>4, SameRoles
<1>7. ASSUME NEW c \in Calls, changePassword(c) \/ resetPassword(c)
      PROVE  PeopleOK' /\ PeopleStay
  <2>1. call[c].user \in Users
    BY <1>7 DEF Inv, CallsOK, Truthful, changePassword, resetPassword
  <2>2. CASE /\ user[call[c].user].status = "ACTIVE"
             /\ RoomForPassword(call[c].user)
             /\ user' = newPassword(call[c].user)
    BY <1>0, <1>7, <2>1, <2>2, NextPassword
    DEF changePassword, resetPassword, Registered
  <2> QED
    BY <1>1, <1>7, <2>2 DEF changePassword, resetPassword, StillMayLogIn, StillResets
<1>8. ASSUME NEW u \in Users, createAdmin(u)
      PROVE  PeopleOK' /\ PeopleStay
  <2> DEFINE a == [status |-> "ACTIVE", email |-> TRUE, emailVerified |-> TRUE,
                   phone |-> "NOT_REQUIRED", password |-> 1]
  <2>1. a \in Account
    BY <1>0 DEF Account
  <2> QED
    BY <1>0, <1>8, <2>1, NewPerson DEF createAdmin, Registered
<1>9. ASSUME NEW u \in Users, NEW role \in {"STUDENT", "ADMIN"},
             grantRole(u, role) \/ revokeRole(u, role)
      PROVE  PeopleOK' /\ PeopleStay
  BY <1>0, <1>9, RoleChanges
<1> QED
  BY <1>1, <1>2, <1>3, <1>4, <1>5, <1>6, <1>7, <1>8, <1>9
  DEF Next, AccountStep, RoleStep, SessionStep, PasswordStep, StudentStep, RecoveryStep,
      requestEmailVerification, requestPasswordReset, requestPhonePasswordReset,
      readCredentials, authenticateSession, revokeSession, login, logout, Leave,
      revokeAllSessions, verifyCurrentPassword, openResetLink, issuePhonePasswordReset,
      rejectPhonePasswordReset, Expire, cleanupExpired, vars, rows, links

-----------------------------------------------------------------------------
\* A table of links t that follows s: places and people stay, and what is new
\* is of u.
TableStep(s, t, u) ==
  /\ LinksOK(t)
  /\ DOMAIN s \subseteq DOMAIN t
  /\ \A i \in DOMAIN s : t[i].user = s[i].user
  /\ \A i \in DOMAIN t \ DOMAIN s : t[i].user = u

\* Links that only lose their force leave the table in order.
LEMMA TableFewer ==
  ASSUME NEW s, LinksOK(s), NEW t, Fewer(s, t)
  PROVE  \A u : TableStep(s, t, u)
BY DEF LinksOK, Fewer, TableStep

\* Two such steps are one.
LEMMA FewerTwice ==
  ASSUME NEW s, NEW t, NEW r, Fewer(s, t), Fewer(t, r)
  PROVE  Fewer(s, r)
BY DEF Fewer

\* A new link of a person of whom none works any longer.
LEMMA TableAppend ==
  ASSUME NEW s, LinksOK(s), NEW t, Fewer(s, t), NEW u \in Users, RoomForLink(s),
         \A i \in DOMAIN t : t[i].user = u => ~Live(t[i])
  PROVE  TableStep(s, Append(t, newLink(u)), u)
<1> DEFINE r == Append(t, newLink(u))
<1>1. newLink(u) \in Link /\ newLink(u).user = u
  BY DEF newLink, Link
<1>2. /\ t \in Seq(Link) /\ Len(t) = Len(s) /\ DOMAIN t = DOMAIN s
      /\ \A i \in DOMAIN s : t[i].user = s[i].user /\ (Live(t[i]) => Live(s[i]))
      /\ s \in Seq(Link)
  BY DEF Fewer, LinksOK
<1>3. /\ r \in Seq(Link) /\ Len(r) = Len(s) + 1
      /\ DOMAIN r = DOMAIN s \cup {Len(s) + 1} /\ Len(s) + 1 \notin DOMAIN s
      /\ r[Len(s) + 1] = newLink(u)
      /\ \A i \in DOMAIN s : r[i] = t[i]
  BY <1>1, <1>2, Extended
<1>4. Len(r) <= MaxLinks
  <2>1. Len(s) \in Nat /\ MaxLinks \in Nat
    BY <1>2, BoundsAssumption DEF BoundsAssumption
  <2> QED
    BY <1>3, <2>1 DEF RoomForLink
<1> HIDE DEF r
<1>5. ASSUME NEW i \in DOMAIN r, NEW j \in DOMAIN r,
             Live(r[i]), Live(r[j]), r[i].user = r[j].user
      PROVE  i = j
  <2>1. CASE i \in DOMAIN s /\ j \in DOMAIN s
    BY <1>2, <1>3, <1>5, <2>1 DEF LinksOK
  <2>2. CASE i \notin DOMAIN s /\ j \notin DOMAIN s
    BY <1>3, <2>2
  <2>3. CASE i \in DOMAIN s /\ j \notin DOMAIN s
    BY <1>1, <1>2, <1>3, <1>5, <2>3
  <2>4. CASE i \notin DOMAIN s /\ j \in DOMAIN s
    BY <1>1, <1>2, <1>3, <1>5, <2>4
  <2> QED
    BY <2>1, <2>2, <2>3, <2>4
<1>6. LinksOK(r)
  BY <1>3, <1>4, <1>5 DEF LinksOK
<1>7. TableStep(s, r, u)
  BY <1>1, <1>2, <1>3, <1>6 DEF TableStep
<1> QED
  BY <1>7 DEF r

\* A new link after the others of the person were revoked, or where there
\* were none.
LEMMA Renewed ==
  ASSUME NEW s, LinksOK(s), NEW u \in Users, RoomForLink(s)
  PROVE  TableStep(s, Append(Revoke(s, u), newLink(u)), u)
<1> DEFINE t == RevokeBut(s, u, 0)
<1>1. s \in Seq(Link) /\ 0 \notin DOMAIN s
  BY DEF LinksOK
<1>2. Fewer(s, t) /\ \A i \in DOMAIN s : s[i].user = u => ~Live(t[i])
  BY <1>1, RevokeFewer
<1> HIDE DEF t
<1>3. \A i \in DOMAIN t : t[i].user = u => ~Live(t[i])
  BY <1>2 DEF Fewer
<1>4. TableStep(s, Append(t, newLink(u)), u)
  BY <1>2, <1>3, TableAppend
<1> QED
  BY <1>4 DEF t, Revoke

\* The first link of a new person.
LEMMA FirstLink ==
  ASSUME NEW s, LinksOK(s), NEW u \in Users, RoomForLink(s),
         \A i \in DOMAIN s : s[i].user # u
  PROVE  TableStep(s, Append(s, newLink(u)), u)
<1>1. Fewer(s, s)
  BY DEF Fewer, LinksOK
<1> QED
  BY <1>1, TableAppend

\* A link is used, and the others of its person with it.
LEMMA SpentFewer ==
  ASSUME NEW s \in Seq(Link), NEW i \in DOMAIN s, NEW u
  PROVE  /\ Fewer(s, RevokeBut(Spend(s, i), u, i))
         /\ RevokeBut(Spend(s, i), u, i)[i].status = "USED"
         /\ \A j \in DOMAIN s :
              s[j].user = u \/ j = i => ~Live(RevokeBut(Spend(s, i), u, i)[j])
         /\ \A j \in DOMAIN s :
              s[j].user # u /\ j # i => RevokeBut(Spend(s, i), u, i)[j] = s[j]
<1> DEFINE t == Spend(s, i)
           r == RevokeBut(t, u, i)
<1>1. /\ Fewer(s, t) /\ t[i].status = "USED"
      /\ \A j \in DOMAIN s : j # i => t[j] = s[j]
  BY StatusFewer DEF Spend
<1> HIDE DEF t
<1>2. t \in Seq(Link) /\ DOMAIN t = DOMAIN s /\ \A j \in DOMAIN s : t[j].user = s[j].user
  BY <1>1 DEF Fewer
<1>3. /\ Fewer(t, r)
      /\ \A j \in DOMAIN t :
           /\ t[j].user = u /\ j # i => ~Live(r[j])
           /\ t[j].user # u \/ j = i => r[j] = t[j]
  BY <1>2, RevokeFewer
<1> HIDE DEF r
<1>4. Fewer(s, r) /\ r[i].status = "USED"
  BY <1>1, <1>2, <1>3, FewerTwice
<1>5. \A j \in DOMAIN s : s[j].user = u \/ j = i => ~Live(r[j])
  BY <1>1, <1>2, <1>3 DEF Live
<1>6. \A j \in DOMAIN s : s[j].user # u /\ j # i => r[j] = s[j]
  BY <1>1, <1>2, <1>3
<1> QED
  BY <1>4, <1>5, <1>6 DEF t, r

\* Who registers or is created has no links yet.
LEMMA NoLinksYet ==
  ASSUME Inv, NEW u \in Users, user[u].status = "NONE"
  PROVE  /\ \A i \in DOMAIN verify : verify[i].user # u
         /\ \A i \in DOMAIN reset : reset[i].user # u
         /\ \A r \in DOMAIN recovery : recovery[r].user # u
BY DEF Inv, OwnersOK, RecoveriesOK, Registered

\* The links that verify an address.
LEMMA VerifyMoves ==
  ASSUME Inv, [Next]_vars
  PROVE  \/ Fewer(verify, verify')
         \/ \E u \in Users : TableStep(verify, verify', u) /\ Registered(u)'
<1> DEFINE Goal == \/ Fewer(verify, verify')
                   \/ \E u \in Users : TableStep(verify, verify', u) /\ Registered(u)'
<1>0. /\ LinksOK(verify) /\ verify \in Seq(Link)
      /\ \A u \in Users : Registered(u) => Registered(u)'
  BY PeopleKept DEF Inv, LinksOK, PeopleStay
<1>1. CASE UNCHANGED verify
  BY <1>0, <1>1 DEF Fewer
<1>2. ASSUME NEW u \in Users, NEW byPhone \in BOOLEAN, registerStudent(u, byPhone),
             ~UNCHANGED verify
      PROVE  Goal
  <2>1. /\ RoomForLink(verify) /\ verify' = Append(verify, newLink(u))
        /\ user[u].status = "NONE" /\ Registered(u)'
    BY <1>2 DEF registerStudent, Registered, Inv, PeopleOK
  <2> QED
    BY <1>0, <2>1, NoLinksYet, FirstLink
<1>3. ASSUME NEW u \in Users, requestEmailVerification(u)
      PROVE  Goal
  <2>1. Registered(u)'
    BY <1>0, <1>3 DEF requestEmailVerification, Registered
  <2> QED
    BY <1>0, <1>3, <2>1, Renewed DEF requestEmailVerification
<1>4. ASSUME NEW i \in DOMAIN verify, verifyEmail(i)
      PROVE  Goal
  BY <1>0, <1>4, SpentFewer DEF verifyEmail
<1>5. ASSUME NEW i \in DOMAIN verify, Usable(verify[i]),
             verify' = [verify EXCEPT ![i].status = "EXPIRED"]
      PROVE  Goal
  BY <1>0, <1>5, StatusFewer DEF Usable, Live
<1>6. CASE cleanupExpired
  BY <1>0, <1>6, CleanedFewer DEF cleanupExpired

<1>7. Goal
  BY <1>1, <1>2, <1>3, <1>4, <1>5, <1>6
  DEF Next, AccountStep, RoleStep, SessionStep, PasswordStep, StudentStep, RecoveryStep,
      requestPasswordReset, requestPhonePasswordReset, createAdmin, grantRole, revokeRole,
      readCredentials, authenticateSession, revokeSession, login, logout, Leave,
      revokeAllSessions, verifyCurrentPassword, changePassword, openResetLink, resetPassword,
      confirmPhoneVerification, createStudentByAdmin, setStudentAccountStatus,
      issuePhonePasswordReset, rejectPhonePasswordReset, Expire, vars, rows, links
<1> QED
  BY <1>7 DEF Goal

\* The links that reset a password.
LEMMA ResetMoves ==
  ASSUME Inv, [Next]_vars
  PROVE  \/ Fewer(reset, reset')
         \/ \E u \in Users : TableStep(reset, reset', u) /\ Registered(u)'
<1> DEFINE Goal == \/ Fewer(reset, reset')
                   \/ \E u \in Users : TableStep(reset, reset', u) /\ Registered(u)'
<1>0. /\ LinksOK(reset) /\ reset \in Seq(Link)
      /\ \A u \in Users : Registered(u) => Registered(u)'
      /\ \A u \in Users : user[u].status = "ACTIVE" => Registered(u)
  BY PeopleKept DEF Inv, LinksOK, PeopleStay, Registered
<1>1. CASE UNCHANGED reset
  BY <1>0, <1>1 DEF Fewer
<1>2. ASSUME NEW c \in Calls, NEW u \in Users, createStudentByAdmin(c, u)
      PROVE  Goal
  <2>1. /\ RoomForLink(reset) /\ reset' = Append(reset, newLink(u))
        /\ user[u].status = "NONE" /\ Registered(u)'
    BY <1>2 DEF createStudentByAdmin, Registered, Inv, PeopleOK
  <2> QED
    BY <1>0, <2>1, NoLinksYet, FirstLink
<1>3. ASSUME NEW u \in Users, requestPasswordReset(u)
      PROVE  Goal
  BY <1>0, <1>3, Renewed DEF requestPasswordReset
<1>4. ASSUME NEW c \in Calls, changePassword(c)
      PROVE  Goal
  <2>1. CASE reset' = Revoke(reset, call[c].user)
    BY <1>0, <2>1, RevokeFewer DEF Revoke
  <2> QED
    BY <1>1, <1>4, <2>1 DEF changePassword
<1>5. ASSUME NEW c \in Calls, resetPassword(c)
      PROVE  Goal
  <2> DEFINE i == call[c].link
  <2>1. i \in DOMAIN reset
    BY <1>5 DEF Inv, CallsOK, Truthful, resetPassword
  <2>2. CASE reset' = RevokeBut(Spend(reset, i), call[c].user, i)
    BY <1>0, <2>1, <2>2, SpentFewer
  <2> QED
    BY <1>1, <1>5, <2>2 DEF resetPassword
<1>6. ASSUME NEW c \in Calls, NEW r \in DOMAIN recovery, issuePhonePasswordReset(c, r)
      PROVE  Goal
  <2> DEFINE u == recovery[r].user
  <2>1. u \in Users
    <3>1. recovery[r] \in Recovery
      BY DEF Inv, RecoveriesOK
    <3> QED
      BY <3>1 DEF Recovery
  <2>2. user[u].status = "ACTIVE"
    BY <1>6 DEF issuePhonePasswordReset, MayRecover
  <2>3. CASE RoomForLink(reset) /\ reset' = Append(Revoke(reset, u), newLink(u))
    <3> HIDE DEF u
    <3> QED
      BY <1>0, <2>1, <2>2, <2>3, Renewed
  <2> QED
    BY <1>1, <1>6, <2>3 DEF issuePhonePasswordReset
<1>7. ASSUME NEW i \in DOMAIN reset, Usable(reset[i]),
             reset' = [reset EXCEPT ![i].status = "EXPIRED"]
      PROVE  Goal
  BY <1>0, <1>7, StatusFewer DEF Usable, Live
<1>8. CASE cleanupExpired
  BY <1>0, <1>8, CleanedFewer DEF cleanupExpired

<1>9. Goal
  BY <1>1, <1>2, <1>3, <1>4, <1>5, <1>6, <1>7, <1>8
  DEF Next, AccountStep, RoleStep, SessionStep, PasswordStep, StudentStep, RecoveryStep,
      registerStudent, requestEmailVerification, verifyEmail,
      requestPhonePasswordReset, createAdmin, grantRole, revokeRole,
      readCredentials, authenticateSession, revokeSession, login, logout, Leave,
      revokeAllSessions, verifyCurrentPassword, openResetLink,
      confirmPhoneVerification, setStudentAccountStatus,
      rejectPhonePasswordReset, Expire, vars, rows, links
<1> QED
  BY <1>9 DEF Goal

\* Both tables stay in order.
LEMMA LinksKept ==
  ASSUME Inv, [Next]_vars
  PROVE  /\ LinksOK(verify)' /\ LinksOK(reset)' /\ OwnersOK'
         /\ DOMAIN reset \subseteq DOMAIN reset'
         /\ \A i \in DOMAIN reset : reset'[i].user = reset[i].user
<1>0. /\ LinksOK(verify) /\ LinksOK(reset) /\ OwnersOK
      /\ \A u \in Users : Registered(u) => Registered(u)'
      /\ \A i \in DOMAIN verify : verify[i].user \in Users
      /\ \A i \in DOMAIN reset : reset[i].user \in Users
  <2>1. /\ LinksOK(verify) /\ LinksOK(reset) /\ OwnersOK
        /\ \A u \in Users : Registered(u) => Registered(u)'
    BY PeopleKept DEF Inv, PeopleStay
  <2>2. /\ \A i \in DOMAIN verify : verify[i] \in Link
        /\ \A i \in DOMAIN reset : reset[i] \in Link
    BY <2>1 DEF LinksOK
  <2> QED
    BY <2>1, <2>2 DEF Link
<1>1. \/ Fewer(verify, verify')
      \/ \E u \in Users : TableStep(verify, verify', u) /\ Registered(u)'
  BY VerifyMoves
<1>2. \/ Fewer(reset, reset')
      \/ \E u \in Users : TableStep(reset, reset', u) /\ Registered(u)'
  BY ResetMoves
<1>3. LinksOK(verify') /\ \A i \in DOMAIN verify' : Registered(verify[i].user)'
  <2>1. CASE Fewer(verify, verify')
    BY <1>0, <2>1, TableFewer DEF OwnersOK, Fewer, TableStep, Registered
  <2>2. CASE \E u \in Users : TableStep(verify, verify', u) /\ Registered(u)'
    BY <1>0, <2>2 DEF OwnersOK, TableStep, Registered
  <2> QED
    BY <1>1, <2>1, <2>2
<1>4. /\ LinksOK(reset') /\ \A i \in DOMAIN reset' : Registered(reset[i].user)'
      /\ DOMAIN reset \subseteq DOMAIN reset'
      /\ \A i \in DOMAIN reset : reset'[i].user = reset[i].user
  <2>1. CASE Fewer(reset, reset')
    BY <1>0, <2>1, TableFewer DEF OwnersOK, Fewer, TableStep, Registered
  <2>2. CASE \E u \in Users : TableStep(reset, reset', u) /\ Registered(u)'
    BY <1>0, <2>2 DEF OwnersOK, TableStep, Registered
  <2> QED
    BY <1>2, <2>1, <2>2
<1> QED
  BY <1>3, <1>4 DEF LinksOK, OwnersOK

-----------------------------------------------------------------------------
\* What an approved recovery has.
LEMMA ApprovedHas ==
  ASSUME Inv
  PROVE  /\ recovery \in Seq(Recovery)
         /\ \A r \in DOMAIN recovery :
              /\ recovery[r] \in Recovery /\ recovery[r].user \in Users
              /\ recovery[r].status = "APPROVED" =>
                   /\ recovery[r].link \in DOMAIN reset
                   /\ Live(reset[recovery[r].link])
                   /\ reset[recovery[r].link].user = recovery[r].user
<1>1. recovery \in Seq(Recovery) /\ \A r \in DOMAIN recovery : recovery[r] \in Recovery
  BY DEF Inv, RecoveriesOK
<1> QED
  BY <1>1 DEF Inv, RecoveriesOK, HoldsLink, Recovery

\* Recoveries end, and those that stay approved keep their link.
LEMMA RecoveriesEnd ==
  ASSUME Inv, [Next]_vars, NEW t, recovery' = t, Undone(t),
         \A r \in DOMAIN recovery :
           recovery[r].status = "APPROVED" /\ t[r].status = "APPROVED" =>
             Live(reset'[recovery[r].link])
  PROVE  RecoveriesOK'
<1>1. /\ t \in Seq(Recovery) /\ DOMAIN t = DOMAIN recovery
      /\ \A r \in DOMAIN recovery :
           /\ t[r].user = recovery[r].user
           /\ t[r].status = "APPROVED" => t[r] = recovery[r]
  BY DEF Undone
<1>2. ASSUME NEW r \in DOMAIN t
      PROVE  Registered(recovery[r].user)'
  BY <1>1, ApprovedHas, PeopleKept DEF PeopleStay, Registered, Inv, RecoveriesOK
<1>3. ASSUME NEW r \in DOMAIN t, t[r].status = "APPROVED"
      PROVE  HoldsLink(r)'
  BY <1>1, <1>3, ApprovedHas, LinksKept DEF HoldsLink
<1>4. ASSUME NEW q \in DOMAIN t, NEW r \in DOMAIN t,
             t[q].status = "APPROVED", t[r].status = "APPROVED", t[q].user = t[r].user
      PROVE  q = r
  BY <1>1, <1>4 DEF Inv, RecoveriesOK
<1> QED
  BY <1>1, <1>2, <1>3, <1>4 DEF RecoveriesOK

\* A new recovery x: approved at once, if nobody waits for the person, or not.
LEMMA RecoveryAdded ==
  ASSUME Inv, [Next]_vars, NEW x \in Recovery, recovery' = Append(recovery, x),
         Registered(x.user)',
         \A i \in DOMAIN reset : reset'[i] = reset[i],
         x.status = "APPROVED" =>
           /\ \A r \in DOMAIN recovery : recovery[r].user # x.user
           /\ x.link \in DOMAIN reset' /\ Live(reset'[x.link])
           /\ reset'[x.link].user = x.user
  PROVE  RecoveriesOK'
<1> DEFINE n == Len(recovery) + 1
<1>1. recovery \in Seq(Recovery)
  BY ApprovedHas
<1>2. /\ recovery' \in Seq(Recovery)
      /\ DOMAIN recovery' = DOMAIN recovery \cup {n} /\ n \notin DOMAIN recovery
      /\ recovery'[n] = x
      /\ \A r \in DOMAIN recovery : recovery'[r] = recovery[r]
  BY <1>1, Extended
<1> HIDE DEF n
<1>3. ASSUME NEW r \in DOMAIN recovery'
      PROVE  Registered(recovery[r].user)'
  BY <1>2, <1>3, ApprovedHas, PeopleKept DEF PeopleStay, Registered, Inv, RecoveriesOK
<1>4. ASSUME NEW r \in DOMAIN recovery', recovery'[r].status = "APPROVED"
      PROVE  HoldsLink(r)'
  BY <1>2, <1>4, ApprovedHas, LinksKept DEF HoldsLink
<1>5. ASSUME NEW q \in DOMAIN recovery', NEW r \in DOMAIN recovery',
             recovery'[q].status = "APPROVED", recovery'[r].status = "APPROVED",
             recovery'[q].user = recovery'[r].user
      PROVE  q = r
  BY <1>2, <1>5 DEF Inv, RecoveriesOK
<1> QED
  BY <1>2, <1>3, <1>4, <1>5 DEF RecoveriesOK

\* The place of the next link.
LEMMA NextLink ==
  ASSUME NEW s \in Seq(Link), RoomForLink(s)
  PROVE  Len(s) + 1 \in 0 .. MaxLinks
<1>1. Len(s) \in Nat /\ MaxLinks \in Nat
  BY BoundsAssumption DEF BoundsAssumption
<1> QED
  BY <1>1 DEF RoomForLink

\* A new link in place of the others of a person.
LEMMA RenewedLink ==
  ASSUME NEW s \in Seq(Link), NEW u \in Users
  PROVE  LET t == Append(Revoke(s, u), newLink(u))
             n == Len(s) + 1
         IN /\ n \in DOMAIN t /\ t[n].user = u /\ Live(t[n])
            /\ \A i \in DOMAIN s : s[i].user # u => t[i] = s[i]
<1> DEFINE r == RevokeBut(s, u, 0)
<1>1. /\ r \in Seq(Link) /\ Len(r) = Len(s) /\ DOMAIN r = DOMAIN s
      /\ \A i \in DOMAIN s : s[i].user # u => r[i] = s[i]
  BY RevokeFewer DEF Fewer
<1>2. newLink(u) \in Link /\ newLink(u).user = u /\ Live(newLink(u))
  BY DEF newLink, Link, Live
<1> HIDE DEF r
<1>3. LET t == Append(r, newLink(u))
          n == Len(s) + 1
      IN /\ n \in DOMAIN t /\ t[n].user = u /\ Live(t[n])
         /\ \A i \in DOMAIN s : s[i].user # u => t[i] = s[i]
  BY <1>1, <1>2, Extended
<1> QED
  BY <1>3 DEF r, Revoke

\* Recoveries that were let go are recoveries.
LEMMA UndoneRows ==
  ASSUME NEW t, Undone(t)
  PROVE  \A q \in DOMAIN recovery : t[q] \in Recovery
BY DEF Undone

\* The recoveries after support has made a link for the r-th, of the person u.
IssuedTable(r, u) ==
  [q \in DOMAIN recovery |->
    IF q = r
    THEN [recovery[q] EXCEPT !.status = "APPROVED", !.link = Len(reset) + 1]
    ELSE IF recovery[q].user = u /\ recovery[q].status = "PENDING"
    THEN [recovery[q] EXCEPT !.status = "EXPIRED"]
    ELSE expireApproved(u)[q]]

\* Support makes a link: the recovery holds it, and every other that was
\* approved or waited is over.
LEMMA IssuedRecovery ==
  ASSUME Inv, [Next]_vars, NEW r \in DOMAIN recovery, NEW u, u = recovery[r].user,
         RoomForLink(reset), recovery' = IssuedTable(r, u),
         reset' = Append(Revoke(reset, u), newLink(u))
  PROVE  RecoveriesOK'
<1> DEFINE n == Len(reset) + 1
           x == [recovery[r] EXCEPT !.status = "APPROVED", !.link = n]
           y(q) == [recovery[q] EXCEPT !.status = "EXPIRED"]
<1>0. /\ recovery \in Seq(Recovery) /\ reset \in Seq(Link) /\ u \in Users
      /\ \A q \in DOMAIN recovery : recovery[q] \in Recovery
  BY ApprovedHas DEF Inv, LinksOK
<1>1. n \in 0 .. MaxLinks
  BY <1>0, NextLink
<1>2. x \in Recovery /\ x.user = u /\ x.link = n
  BY <1>0, <1>1 DEF Recovery
<1>3. \A q \in DOMAIN recovery :
        y(q) \in Recovery /\ y(q).user = recovery[q].user /\ y(q).status = "EXPIRED"
  BY <1>0 DEF Recovery
<1>4. /\ Undone(expireApproved(u))
      /\ \A q \in DOMAIN recovery :
           recovery[q].user = u => expireApproved(u)[q].status # "APPROVED"
  BY <1>0, ExpireUndone
<1>5. \A q \in DOMAIN recovery :
        recovery'[q] = IF q = r THEN x
                       ELSE IF recovery[q].user = u /\ recovery[q].status = "PENDING"
                       THEN y(q) ELSE expireApproved(u)[q]
  BY DEF IssuedTable
<1> HIDE DEF x, y
<1>6. \A q \in DOMAIN recovery :
        /\ recovery'[q] \in Recovery /\ recovery'[q].user = recovery[q].user
        /\ q # r /\ recovery'[q].status = "APPROVED" =>
             recovery[q].user # u /\ recovery'[q] = recovery[q]
  <2>1. \A q \in DOMAIN recovery : expireApproved(u)[q] \in Recovery
    BY <1>4, UndoneRows
  <2> QED
    BY <1>2, <1>3, <1>4, <1>5, <2>1 DEF Undone
<1>7. recovery' \in [DOMAIN recovery -> Recovery]
  BY <1>6 DEF IssuedTable
<1>8. recovery' \in Seq(Recovery) /\ DOMAIN recovery' = DOMAIN recovery
  BY <1>0, <1>7, MapSeq
<1>9. /\ n \in DOMAIN reset' /\ reset'[n].user = u /\ Live(reset'[n])
      /\ \A i \in DOMAIN reset : reset[i].user # u => reset'[i] = reset[i]
  BY <1>0, RenewedLink
<1> HIDE DEF n
<1>10. ASSUME NEW q \in DOMAIN recovery'
       PROVE  /\ Registered(recovery[q].user)'
              /\ recovery'[q].status = "APPROVED" => HoldsLink(q)'
  <2>1. Registered(recovery[q].user)'
    BY <1>6, <1>8, ApprovedHas, PeopleKept DEF PeopleStay, Registered, Inv, RecoveriesOK
  <2>2. CASE q = r
    BY <1>2, <1>5, <1>8, <1>9, <2>1, <2>2 DEF HoldsLink
  <2>3. CASE q # r /\ recovery'[q].status = "APPROVED"
    <3>1. /\ recovery[q].user # u /\ recovery'[q] = recovery[q]
          /\ recovery[q].status = "APPROVED"
      BY <1>6, <1>8, <2>3
    <3>2. /\ recovery[q].link \in DOMAIN reset
          /\ Live(reset[recovery[q].link])
          /\ reset[recovery[q].link].user = recovery[q].user
      BY <1>8, <3>1, ApprovedHas
    <3>3. /\ recovery[q].link \in DOMAIN reset'
          /\ reset'[recovery[q].link] = reset[recovery[q].link]
      BY <1>9, <3>1, <3>2, LinksKept
    <3> QED
      BY <2>1, <3>1, <3>2, <3>3 DEF HoldsLink
  <2> QED
    BY <2>1, <2>2, <2>3
<1>11. ASSUME NEW p \in DOMAIN recovery', NEW q \in DOMAIN recovery',
              recovery'[p].status = "APPROVED", recovery'[q].status = "APPROVED",
              recovery'[p].user = recovery'[q].user
       PROVE  p = q
  BY <1>6, <1>8, <1>11 DEF Inv, RecoveriesOK
<1> QED
  BY <1>8, <1>10, <1>11 DEF RecoveriesOK

\* Every step.
LEMMA RecoveriesKept ==
  ASSUME Inv, [Next]_vars
  PROVE  RecoveriesOK'
<1>0. /\ recovery \in Seq(Recovery) /\ reset \in Seq(Link) /\ LinksOK(reset)
      /\ \A r \in DOMAIN recovery :
           /\ recovery[r] \in Recovery /\ recovery[r].user \in Users
           /\ recovery[r].status = "APPROVED" =>
                /\ recovery[r].link \in DOMAIN reset
                /\ Live(reset[recovery[r].link])
                /\ reset[recovery[r].link].user = recovery[r].user
  BY ApprovedHas DEF Inv, LinksOK
<1>1. ASSUME UNCHANGED recovery,
             \A i \in DOMAIN reset : Live(reset[i]) => Live(reset'[i])
      PROVE  RecoveriesOK'
  <2>1. Undone(recovery)
    BY <1>0 DEF Undone
  <2> QED
    BY <1>0, <1>1, <2>1, RecoveriesEnd
<1>2. ASSUME NEW c \in Calls, NEW u \in Users, createStudentByAdmin(c, u)
      PROVE  RecoveriesOK'
  <2>1. RoomForLink(reset) /\ user[u].status = "NONE"
    BY <1>2 DEF createStudentByAdmin
  <2>2. PICK n \in 0 .. MaxLinks : n = Len(reset) + 1
    BY <1>0, <2>1, NextLink
  <2>3. PICK x : x = [user |-> u, expired |-> FALSE, status |-> "APPROVED", link |-> n]
    OBVIOUS
  <2>4. newLink(u) \in Link /\ newLink(u).user = u /\ Live(newLink(u))
    BY DEF newLink, Link, Live
  <2>5. /\ n \in DOMAIN reset' /\ reset'[n] = newLink(u)
        /\ \A i \in DOMAIN reset : reset'[i] = reset[i]
    BY <1>0, <1>2, <2>2, <2>4, Extended DEF createStudentByAdmin
  <2>6. x \in Recovery /\ x.user = u /\ x.link = n
    BY <2>2, <2>3 DEF Recovery
  <2>7. Registered(x.user)'
    BY <1>2, <2>6 DEF createStudentByAdmin, Registered, Inv, PeopleOK
  <2>8. recovery' = Append(recovery, x)
    BY <1>2, <2>2, <2>3 DEF createStudentByAdmin
  <2>9. \A r \in DOMAIN recovery : recovery[r].user # x.user
    BY <2>1, <2>6, NoLinksYet
  <2> QED
    BY <2>4, <2>5, <2>6, <2>7, <2>8, <2>9, RecoveryAdded
<1>3. ASSUME NEW c \in Calls, changePassword(c)
      PROVE  RecoveriesOK'
  <2> DEFINE u == call[c].user
             s == RevokeBut(reset, u, 0)
  <2>1. CASE recovery' = expireApproved(u) /\ reset' = Revoke(reset, u)
    <3>1. \A i \in DOMAIN reset : reset[i].user # u => s[i] = reset[i]
      BY <1>0, RevokeFewer
    <3>2. reset' = s
      BY <2>1 DEF Revoke
    <3>3. /\ Undone(expireApproved(u))
          /\ \A r \in DOMAIN recovery :
               recovery[r].user = u => expireApproved(u)[r].status # "APPROVED"
      BY <1>0, ExpireUndone
    <3> HIDE DEF u, s
    <3> QED
      BY <1>0, <2>1, <3>1, <3>2, <3>3, RecoveriesEnd
  <2> QED
    BY <1>1, <1>3, <2>1 DEF changePassword
<1>4. ASSUME NEW u \in Users, requestPasswordReset(u)
      PROVE  RecoveriesOK'
  <2>1. /\ Undone(expireApproved(u))
        /\ \A r \in DOMAIN recovery :
             recovery[r].user = u => expireApproved(u)[r].status # "APPROVED"
    BY <1>0, ExpireUndone
  <2>2. \A i \in DOMAIN reset : reset[i].user # u => reset'[i] = reset[i]
    BY <1>0, <1>4, RenewedLink DEF requestPasswordReset
  <2>3. recovery' = expireApproved(u)
    BY <1>4 DEF requestPasswordReset
  <2> QED
    BY <1>0, <2>1, <2>2, <2>3, RecoveriesEnd
<1>5. ASSUME NEW c \in Calls, resetPassword(c)
      PROVE  RecoveriesOK'
  <2> DEFINE u == call[c].user
             i == call[c].link
  <2>1. i \in DOMAIN reset /\ reset[i].user = u
    BY <1>5 DEF Inv, CallsOK, Truthful, resetPassword
  <2>2. CASE /\ recovery' = completedBy(i)
             /\ reset' = RevokeBut(Spend(reset, i), u, i)
    <3>1. \A j \in DOMAIN reset : reset[j].user # u => reset'[j] = reset[j]
      BY <1>0, <2>1, <2>2, SpentFewer
    <3>2. /\ Undone(completedBy(i))
          /\ \A r \in DOMAIN recovery :
               recovery[r].user = u => completedBy(i)[r].status # "APPROVED"
      BY <1>0, <2>1, CompletedUndone
    <3> HIDE DEF u, i
    <3> QED
      BY <1>0, <2>2, <3>1, <3>2, RecoveriesEnd
  <2> QED
    BY <1>1, <1>5, <2>2 DEF resetPassword
<1>6. ASSUME NEW u \in Users, requestPhonePasswordReset(u)
      PROVE  RecoveriesOK'
  <2> DEFINE x == [user |-> u, status |-> "PENDING", expired |-> FALSE, link |-> 0]
  <2>1. 0 \in 0 .. MaxLinks
    BY BoundsAssumption DEF BoundsAssumption
  <2>2. x \in Recovery /\ x.status # "APPROVED"
    BY <2>1 DEF Recovery
  <2>3. recovery' = Append(recovery, x) /\ UNCHANGED reset
    BY <1>6 DEF requestPhonePasswordReset, links
  <2>4. Registered(x.user)'
    BY <1>6 DEF requestPhonePasswordReset, Registered, MayRecover
  <2> HIDE DEF x
  <2> QED
    BY <2>2, <2>3, <2>4, RecoveryAdded
<1>7. ASSUME NEW r \in DOMAIN recovery, UNCHANGED reset,
             \E s \in {"REJECTED", "EXPIRED"} :
               recovery' = [recovery EXCEPT ![r].status = s]
      PROVE  RecoveriesOK'
  BY <1>0, <1>7, StatusUndone, RecoveriesEnd
<1>8. ASSUME NEW c \in Calls, NEW r \in DOMAIN recovery, issuePhonePasswordReset(c, r)
      PROVE  RecoveriesOK'
  <2>1. CASE tooLate(r) /\ UNCHANGED reset
    BY <1>7, <2>1 DEF tooLate
  <2>2. PICK u : u = recovery[r].user
    OBVIOUS
  <2> QED
    BY <1>8, <2>1, <2>2, IssuedRecovery DEF issuePhonePasswordReset, IssuedTable
<1>9. ASSUME NEW c \in Calls, NEW r \in DOMAIN recovery, rejectPhonePasswordReset(c, r)
      PROVE  RecoveriesOK'
  BY <1>7, <1>9 DEF rejectPhonePasswordReset, tooLate, links
<1>10. CASE Expire
  <2>1. CASE UNCHANGED <<recovery, reset>>
    BY <1>1, <2>1
  <2>2. ASSUME NEW i \in DOMAIN reset, Usable(reset[i]), UNCHANGED recovery,
               reset' = [reset EXCEPT ![i].status = "EXPIRED"]
        PROVE  RecoveriesOK'
    <3>1. reset'[i].status = "EXPIRED" /\ \A j \in DOMAIN reset : j # i => reset'[j] = reset[j]
      BY <1>0, <2>2, StatusFewer DEF Usable, Live
    <3>2. \A j \in DOMAIN reset : Live(reset[j]) => Live(reset'[j])
      BY <3>1 DEF Live
    <3> QED
      BY <1>1, <2>2, <3>2
  <2>3. ASSUME NEW r \in DOMAIN recovery, recovery[r].status = "PENDING",
               recovery' = [recovery EXCEPT ![r].expired = TRUE], UNCHANGED reset
        PROVE  RecoveriesOK'
    <3> DEFINE y == [recovery[r] EXCEPT !.expired = TRUE]
    <3>1. y \in Recovery /\ y.user = recovery[r].user /\ y.status # "APPROVED"
      BY <1>0, <2>3 DEF Recovery
    <3>2. recovery' = [recovery EXCEPT ![r] = y]
      BY <2>3
    <3> HIDE DEF y
    <3>3. /\ recovery' \in [DOMAIN recovery -> Recovery]
          /\ \A q \in DOMAIN recovery : recovery'[q] = IF q = r THEN y ELSE recovery[q]
      BY <1>0, <3>1, <3>2
    <3>4. Undone(recovery')
      BY <1>0, <3>1, <3>3, UndoneMap
    <3> QED
      BY <1>0, <2>3, <3>4, RecoveriesEnd
  <2> QED
    BY <1>10, <2>1, <2>2, <2>3 DEF Expire, links
<1>11. CASE cleanupExpired
  <2>1. /\ Undone(letGo)
        /\ \A r \in DOMAIN recovery :
             letGo[r].status = "APPROVED" =>
               reset[recovery[r].link].status \notin {"EXPIRED", "REVOKED"}
    BY <1>0, LetGoUndone
  <2>2. recovery' = letGo
    BY <1>11 DEF cleanupExpired
  <2>3. PICK old : reset' = Cleaned(reset, old)
    BY <1>11 DEF cleanupExpired
  <2>4. \A i \in DOMAIN reset : reset[i].status = "LIVE" => reset'[i] = reset[i]
    BY <1>0, <2>3, CleanedFewer
  <2> QED
    BY <1>0, <2>1, <2>2, <2>4, RecoveriesEnd DEF Live
<1>12. CASE UNCHANGED <<recovery, reset>>
  BY <1>1, <1>12
<1> QED
  BY <1>2, <1>3, <1>4, <1>5, <1>6, <1>8, <1>9, <1>10, <1>11, <1>12
  DEF Next, AccountStep, RoleStep, SessionStep, PasswordStep, StudentStep, RecoveryStep,
      registerStudent, requestEmailVerification, verifyEmail,
      createAdmin, grantRole, revokeRole,
      readCredentials, authenticateSession, revokeSession, login, logout, Leave,
      revokeAllSessions, verifyCurrentPassword, openResetLink,
      confirmPhoneVerification, setStudentAccountStatus, vars, rows, links

-----------------------------------------------------------------------------
\* Nothing that the sessions of a person were opened under changes.
Steady(u) ==
  /\ user'[u].password = user[u].password
  /\ roles'[u] = roles[u]
  /\ user[u].status = "ACTIVE" => user'[u].status = "ACTIVE"

\* What a session that lives has.
LEMMA LiveHas ==
  ASSUME Inv
  PROVE  /\ session \in Seq(Session)
         /\ \A i \in DOMAIN session :
              /\ session[i] \in Session /\ session[i].user \in Users
              /\ Usable(session[i]) =>
                   /\ session[i].password = user[session[i].user].password
                   /\ session[i].roles = roles[session[i].user]
                   /\ user[session[i].user].status = "ACTIVE"
<1>1. session \in Seq(Session) /\ \A i \in DOMAIN session : session[i] \in Session
  BY DEF Inv, SessionsOK
<1> QED
  BY <1>1 DEF Inv, SessionsOK, LiveSessionIsCurrent, Session

\* Sessions end, and those that go on are of people for whom nothing changes.
LEMMA SessionsEnd ==
  ASSUME Inv, NEW ended, session' = SessionsWithout(ended),
         \A i \in DOMAIN session \ ended :
           \A u \in Users : u = session[i].user /\ user[u].status = "ACTIVE" => Steady(u)
  PROVE  SessionsOK'
<1>1. /\ session' \in Seq(Session) /\ DOMAIN session' = DOMAIN session
      /\ \A i \in DOMAIN session :
           /\ i \in ended => ~Usable(session'[i])
           /\ i \notin ended => session'[i] = session[i]
  BY LiveHas, EndedSessions
<1>2. ASSUME NEW i \in DOMAIN session', Usable(session'[i])
      PROVE  /\ session'[i].password = user'[session'[i].user].password
             /\ session'[i].roles = roles'[session'[i].user]
             /\ user'[session'[i].user].status = "ACTIVE"
  BY <1>1, <1>2, LiveHas DEF Steady
<1> QED
  BY <1>1, <1>2 DEF SessionsOK, LiveSessionIsCurrent, Usable

\* Sessions nobody writes stay current while the active accounts do not change.
LEMMA SessionsStay ==
  ASSUME Inv, UNCHANGED session,
         \A u \in Users : user[u].status = "ACTIVE" => Steady(u)
  PROVE  SessionsOK'
<1>1. session' \in Seq(Session)
  BY LiveHas
<1>2. ASSUME NEW i \in DOMAIN session', Usable(session'[i])
      PROVE  /\ session'[i].password = user'[session'[i].user].password
             /\ session'[i].roles = roles'[session'[i].user]
             /\ user'[session'[i].user].status = "ACTIVE"
  BY <1>2, LiveHas DEF Steady
<1> QED
  BY <1>1, <1>2 DEF SessionsOK, LiveSessionIsCurrent, Usable

\* And one more is opened, under what holds now.
LEMMA SessionOpened ==
  ASSUME Inv, NEW ended, NEW x \in Session, NEW v \in Users,
         session' = Append(SessionsWithout(ended), x),
         \A i \in DOMAIN session \ ended :
           \A u \in Users : u = session[i].user /\ user[u].status = "ACTIVE" => Steady(u),
         x.user = v, x.password = user'[v].password,
         x.roles = roles'[v], user'[v].status = "ACTIVE"
  PROVE  SessionsOK'
<1> DEFINE t == SessionsWithout(ended)
           n == Len(session) + 1
<1>1. /\ t \in Seq(Session) /\ DOMAIN t = DOMAIN session /\ Len(t) = Len(session)
      /\ \A i \in DOMAIN session :
           /\ i \in ended => ~Usable(t[i])
           /\ i \notin ended => t[i] = session[i]
  BY LiveHas, EndedSessions
<1> HIDE DEF t
<1>2. session' = Append(t, x)
  BY DEF t
<1>3. /\ session' \in Seq(Session) /\ DOMAIN session' = DOMAIN session \cup {n}
      /\ session'[n] = x /\ \A i \in DOMAIN session : session'[i] = t[i]
  BY <1>1, <1>2, Extended
<1> HIDE DEF n
<1>4. ASSUME NEW i \in DOMAIN session', Usable(session'[i])
      PROVE  /\ session'[i].password = user'[session'[i].user].password
             /\ session'[i].roles = roles'[session'[i].user]
             /\ user'[session'[i].user].status = "ACTIVE"
  <2>1. CASE i = n
    BY <1>3, <2>1
  <2>2. CASE i \in DOMAIN session
    BY <1>1, <1>3, <1>4, <2>2, LiveHas DEF Steady
  <2> QED
    BY <1>3, <2>1, <2>2
<1> QED
  BY <1>3, <1>4 DEF SessionsOK, LiveSessionIsCurrent, Usable

\* Every step.
LEMMA SessionsKept ==
  ASSUME Inv, [Next]_vars
  PROVE  SessionsOK'
<1>0. /\ session \in Seq(Session)
      /\ user \in [Users -> Account] /\ roles \in [Users -> SUBSET {"STUDENT", "ADMIN"}]
      /\ \A u \in Users : user[u] \in Account
      /\ \A c \in Calls : call[c] \in Call
      /\ \A c \in Calls : call[c].step # "IDLE" => call[c].user \in Users
      /\ \A i \in DOMAIN verify : verify[i].user \in Users
  <2>1. \A i \in DOMAIN verify : verify[i] \in Link
    BY DEF Inv, LinksOK
  <2> QED
    BY <2>1, LiveHas DEF Inv, PeopleOK, CallsOK, Truthful, Link
<1>1. CASE UNCHANGED <<user, roles, session>>
  BY <1>1, SessionsStay DEF Steady
<1>2. ASSUME NEW u \in Users, user[u].status # "ACTIVE", UNCHANGED session,
             \A v \in Users \ {u} : user'[v] = user[v] /\ roles'[v] = roles[v]
      PROVE  SessionsOK'
  BY <1>2, SessionsStay DEF Steady
<1>3. ASSUME NEW u \in Users, NEW ended, SessionsOf(u) \subseteq ended,
             session' = SessionsWithout(ended),
             \A v \in Users \ {u} : user'[v] = user[v] /\ roles'[v] = roles[v]
      PROVE  SessionsOK'
  BY <1>3, SessionsEnd DEF Steady, SessionsOf
<1>4. ASSUME NEW ended, session' = SessionsWithout(ended), UNCHANGED <<user, roles>>
      PROVE  SessionsOK'
  BY <1>4, SessionsEnd DEF Steady
<1>5. ASSUME NEW u \in Users, NEW byPhone \in BOOLEAN, registerStudent(u, byPhone)
      PROVE  SessionsOK'
  BY <1>0, <1>2, <1>5 DEF registerStudent
<1>6. ASSUME NEW i \in DOMAIN verify, verifyEmail(i)
      PROVE  SessionsOK'
  BY <1>0, <1>1, <1>2, <1>6 DEF verifyEmail
<1>7. ASSUME NEW c \in Calls, NEW u \in Users, confirmPhoneVerification(c, u)
      PROVE  SessionsOK'
  <2> DEFINE s == IF user[u].status = "PENDING_VERIFICATION" THEN "ACTIVE"
                  ELSE user[u].status
             a == [user[u] EXCEPT !.phone = "VERIFIED", !.status = s]
  <2>1. user[u] \in Account
    BY <1>0
  <2>2. user' = [user EXCEPT ![u] = a] /\ UNCHANGED <<roles, session>>
    BY <1>0, <1>7 DEF confirmPhoneVerification
  <2> HIDE DEF s
  <2>3. a.password = user[u].password /\ a.status = s
    BY <2>1 DEF Account
  <2> HIDE DEF a
  <2>4. \A v \in Users : user'[v] = IF v = u THEN a ELSE user[v]
    BY <1>0, <2>2
  <2>5. \A v \in Users : user[v].status = "ACTIVE" => Steady(v)
    BY <2>2, <2>3, <2>4 DEF Steady, s
  <2> QED
    BY <2>2, <2>5, SessionsStay
<1>8. ASSUME NEW c \in Calls, NEW u \in Users, createStudentByAdmin(c, u)
      PROVE  SessionsOK'
  BY <1>0, <1>2, <1>8 DEF createStudentByAdmin
<1>9. ASSUME NEW c \in Calls, NEW u \in Users,
             setStudentAccountStatus(c, u, "ACTIVE", "SUSPENDED")
      PROVE  SessionsOK'
  BY <1>0, <1>3, <1>9 DEF setStudentAccountStatus
<1>10. ASSUME NEW c \in Calls, NEW u \in Users,
              setStudentAccountStatus(c, u, "SUSPENDED", "ACTIVE")
       PROVE  SessionsOK'
  BY <1>0, <1>2, <1>10 DEF setStudentAccountStatus
<1>11. ASSUME NEW c \in Calls, login(c)
       PROVE  SessionsOK'
  <2> DEFINE u == call[c].user
             x == newSession(u, call[c].password)
  <2>1. CASE StillMayLogIn(c) /\ \E prior \in {0} \cup SessionsOf(u) :
               session' = Append(SessionsWithout({prior}), x)
    <3>1. PICK prior : session' = Append(SessionsWithout({prior}), x)
      BY <2>1
    <3>2. /\ u \in Users /\ call[c].password \in 0 .. MaxPasswords
          /\ roles[u] \in SUBSET {"STUDENT", "ADMIN"}
          /\ user[u].password = call[c].password /\ user[u].status = "ACTIVE"
      BY <1>0, <1>11, <2>1 DEF login, StillMayLogIn, Unchanged, Call
    <3>3. /\ x \in Session /\ x.user = u /\ x.password = call[c].password
          /\ x.roles = roles[u]
      BY <3>2 DEF newSession, Session
    <3>4. UNCHANGED <<user, roles>>
      BY <1>11 DEF login
    <3>5. \A v \in Users : Steady(v)
      BY <3>4 DEF Steady
    <3> HIDE DEF x, u
    <3> QED
      BY <3>1, <3>2, <3>3, <3>4, <3>5, SessionOpened
  <2> QED
    BY <1>1, <1>11, <2>1 DEF login
<1>12. ASSUME NEW c \in Calls, changePassword(c)
       PROVE  SessionsOK'
  <2> DEFINE u == call[c].user
             p == user[u].password + 1
             x == newSession(u, p)
  <2>1. CASE /\ StillMayLogIn(c) /\ RoomForPassword(u)
             /\ user' = newPassword(u)
             /\ session' = Append(SessionsWithout(SessionsOf(u)), x)
    <3>1. /\ u \in Users /\ user[u] \in Account /\ user[u].status = "ACTIVE"
          /\ roles[u] \in SUBSET {"STUDENT", "ADMIN"}
      BY <1>0, <1>12, <2>1 DEF changePassword, StillMayLogIn
    <3>2. p \in 0 .. MaxPasswords
      BY <2>1, <3>1, BoundsAssumption DEF RoomForPassword, Account, BoundsAssumption
    <3>3. /\ user'[u].password = p /\ user'[u].status = "ACTIVE"
          /\ \A v \in Users \ {u} : user'[v] = user[v]
          /\ UNCHANGED roles
      BY <1>0, <1>12, <2>1, <3>1 DEF changePassword, newPassword, Account
    <3> HIDE DEF p
    <3>4. x \in Session /\ x.user = u /\ x.password = p /\ x.roles = roles[u]
      BY <3>1, <3>2 DEF newSession, Session
    <3> HIDE DEF x, u
    <3>5. \A v \in Users \ {u} : Steady(v)
      BY <3>3 DEF Steady
    <3>6. \A i \in DOMAIN session \ SessionsOf(u) : session[i].user # u
      BY DEF SessionsOf
    <3> QED
      BY <2>1, <3>1, <3>3, <3>4, <3>5, <3>6, SessionOpened
  <2> QED
    BY <1>1, <1>12, <2>1 DEF changePassword
<1>13. ASSUME NEW c \in Calls, resetPassword(c)
       PROVE  SessionsOK'
  <2>1. call[c].user \in Users
    BY <1>0, <1>13 DEF resetPassword
  <2> QED
    BY <1>0, <1>1, <1>3, <1>13, <2>1 DEF resetPassword, newPassword
<1>14. ASSUME NEW u \in Users, createAdmin(u)
       PROVE  SessionsOK'
  BY <1>0, <1>2, <1>14 DEF createAdmin
<1>15. ASSUME NEW u \in Users, NEW role \in {"STUDENT", "ADMIN"},
              grantRole(u, role) \/ revokeRole(u, role)
       PROVE  SessionsOK'
  BY <1>0, <1>3, <1>15 DEF grantRole, revokeRole
<1> QED
  BY <1>1, <1>4, <1>5, <1>6, <1>7, <1>8, <1>9, <1>10, <1>11, <1>12, <1>13, <1>14, <1>15
  DEF Next, AccountStep, RoleStep, SessionStep, PasswordStep, StudentStep, RecoveryStep,
      requestEmailVerification, requestPasswordReset, requestPhonePasswordReset,
      readCredentials, authenticateSession, revokeSession, logout, Leave,
      revokeAllSessions, verifyCurrentPassword, openResetLink, issuePhonePasswordReset,
      rejectPhonePasswordReset, Expire, cleanupExpired, vars, rows, links

-----------------------------------------------------------------------------
\* What a call held is as true as it was.
LEMMA StaysTruthful ==
  ASSUME Inv, [Next]_vars, NEW t, Truthful(t)
  PROVE  Truthful(t)'
BY PeopleKept, LinksKept DEF PeopleStay, Truthful

\* One call goes on.
LEMMA CallMoves ==
  ASSUME Inv, [Next]_vars, NEW c \in Calls, NEW t \in Call, Truthful(t), Goto(c, t)
  PROVE  CallsOK'
<1>1. /\ call \in [Calls -> Call] /\ call' = [call EXCEPT ![c] = t]
      /\ \A d \in Calls : Truthful(call[d])
  BY DEF Inv, CallsOK, Goto
<1>2. ASSUME NEW d \in Calls
      PROVE  Truthful(call[d])'
  <2>1. PICK x : x = call'[d]
    OBVIOUS
  <2>2. Truthful(x)
    BY <1>1, <2>1
  <2>3. Truthful(x)'
    BY <2>2, StaysTruthful
  <2> QED
    BY <2>1, <2>3 DEF Truthful
<1> QED
  BY <1>1, <1>2 DEF CallsOK

\* And one that ends holds nothing.
LEMMA CallEnds ==
  ASSUME Inv, [Next]_vars, NEW c \in Calls, End(c)
  PROVE  CallsOK'
<1>1. Idle \in Call
  BY BoundsAssumption DEF Idle, Call, BoundsAssumption
<1>2. Truthful(Idle)
  BY DEF Truthful, Idle
<1> QED
  BY <1>1, <1>2, CallMoves DEF End

\* What a call may begin or go on with.
LEMMA CallTypes ==
  ASSUME Inv, NEW u \in Users
  PROVE  /\ [Idle EXCEPT !.step = "LOGIN", !.user = u,
                         !.password = user[u].password] \in Call
         /\ [Idle EXCEPT !.step = "CHANGE", !.user = u,
                         !.password = user[u].password] \in Call
         /\ \A i \in DOMAIN session :
              [Idle EXCEPT !.step = "AUTHENTICATED", !.user = u,
                           !.session = i, !.roles = roles[u]] \in Call
         /\ \A i \in DOMAIN reset :
              [Idle EXCEPT !.step = "RESET", !.user = u, !.link = i] \in Call
<1>1. /\ user[u].password \in 0 .. MaxPasswords
      /\ roles[u] \in SUBSET {"STUDENT", "ADMIN"}
  <2>1. user[u] \in Account
    BY DEF Inv, PeopleOK
  <2> QED
    BY <2>1 DEF Account, Inv, PeopleOK
<1>2. 0 \in 0 .. MaxPasswords /\ 0 \in 0 .. MaxLinks
  BY BoundsAssumption DEF BoundsAssumption
<1>3. DOMAIN session \subseteq Nat
  BY LiveHas
<1>4. \A i \in DOMAIN reset : i \in 0 .. MaxLinks
  <2>1. /\ reset \in Seq(Link) /\ Len(reset) <= MaxLinks
    BY DEF Inv, LinksOK
  <2>2. /\ DOMAIN reset = 1 .. Len(reset) /\ Len(reset) \in Nat /\ MaxLinks \in Nat
    BY <2>1, BoundsAssumption DEF BoundsAssumption
  <2> QED
    BY <2>1, <2>2
<1> QED
  BY <1>1, <1>2, <1>3, <1>4 DEF Idle, Call

\* Every step.
LEMMA CallsKept ==
  ASSUME Inv, [Next]_vars
  PROVE  CallsOK'
<1>1. CASE UNCHANGED call
  <2>1. ASSUME NEW d \in Calls
        PROVE  Truthful(call[d])'
    <3>1. PICK x : x = call[d]
      OBVIOUS
    <3>2. Truthful(x)'
      BY <3>1, StaysTruthful DEF Inv, CallsOK
    <3> QED
      BY <1>1, <3>1, <3>2 DEF Truthful
  <2> QED
    BY <1>1, <2>1 DEF Inv, CallsOK
<1>2. ASSUME NEW c \in Calls, End(c)
      PROVE  CallsOK'
  BY <1>2, CallEnds
<1>3. ASSUME NEW c \in Calls, NEW u \in Users, readCredentials(c, u)
      PROVE  CallsOK'
  <2> DEFINE t == [Idle EXCEPT !.step = "LOGIN", !.user = u, !.password = user[u].password]
  <2>1. t \in Call /\ Truthful(t)
    BY CallTypes DEF Truthful, Idle
  <2>2. Goto(c, t)
    BY <1>3 DEF readCredentials
  <2> HIDE DEF t
  <2> QED
    BY <2>1, <2>2, CallMoves
<1>4. ASSUME NEW c \in Calls, NEW i \in DOMAIN session, authenticateSession(c, i)
      PROVE  CallsOK'
  <2>1. PICK u \in Users : u = session[i].user
    BY LiveHas
  <2> DEFINE t == [Idle EXCEPT !.step = "AUTHENTICATED", !.user = u,
                               !.session = i, !.roles = roles[u]]
  <2>2. t \in Call
    BY CallTypes
  <2>3. Truthful(t)
    BY DEF Truthful, Idle, Administrators
  <2>4. Goto(c, t)
    BY <1>4, <2>1 DEF authenticateSession
  <2> HIDE DEF t
  <2> QED
    BY <2>2, <2>3, <2>4, CallMoves
<1>5. ASSUME NEW c \in Calls, verifyCurrentPassword(c)
      PROVE  CallsOK'
  <2>1. PICK u \in Users : u = call[c].user
    BY <1>5 DEF verifyCurrentPassword, Inv, CallsOK, Truthful
  <2> DEFINE t == [Idle EXCEPT !.step = "CHANGE", !.user = u, !.password = user[u].password]
  <2>2. t \in Call /\ Truthful(t)
    BY CallTypes DEF Truthful, Idle
  <2>3. Goto(c, t)
    BY <1>5, <2>1 DEF verifyCurrentPassword
  <2> HIDE DEF t
  <2> QED
    BY <2>2, <2>3, CallMoves
<1>6. ASSUME NEW c \in Calls, NEW i \in DOMAIN reset, openResetLink(c, i)
      PROVE  CallsOK'
  <2>1. PICK u \in Users : u = reset[i].user
    <3>1. reset[i] \in Link
      BY DEF Inv, LinksOK
    <3> QED
      BY <3>1 DEF Link
  <2> DEFINE t == [Idle EXCEPT !.step = "RESET", !.user = u, !.link = i]
  <2>2. t \in Call /\ Truthful(t)
    BY <2>1, CallTypes DEF Truthful, Idle
  <2>3. Goto(c, t)
    BY <1>6, <2>1 DEF openResetLink
  <2> HIDE DEF t
  <2> QED
    BY <2>2, <2>3, CallMoves
<1> QED
  BY <1>1, <1>2, <1>3, <1>4, <1>5, <1>6
  DEF Next, AccountStep, RoleStep, SessionStep, PasswordStep, StudentStep, RecoveryStep,
      registerStudent, requestEmailVerification, verifyEmail, requestPasswordReset,
      requestPhonePasswordReset, createAdmin, grantRole, revokeRole, revokeSession,
      login, logout, Leave, revokeAllSessions, changePassword, resetPassword,
      confirmPhoneVerification, createStudentByAdmin, setStudentAccountStatus,
      issuePhonePasswordReset, rejectPhonePasswordReset, Expire, cleanupExpired, vars

\* The invariant is inductive.
LEMMA InvStep == Inv /\ [Next]_vars => Inv'
BY PeopleKept, LinksKept, RecoveriesKept, SessionsKept, CallsKept DEF Inv

\* At the beginning nobody is registered.
LEMMA InvInit == Init => Inv
<1> SUFFICES ASSUME Init PROVE Inv
  OBVIOUS
<1>1. {0} \subseteq 0 .. MaxPasswords /\ {0} \subseteq 0 .. MaxLinks /\ MaxLinks \in Nat
  BY BoundsAssumption DEF BoundsAssumption
<1>2. PeopleOK
  <2>1. Unregistered \in Account
    BY <1>1 DEF Unregistered, Account
  <2> QED
    BY <2>1 DEF Init, PeopleOK, Registered, Verified, Administrators, Unregistered
<1>3. LinksOK(verify) /\ LinksOK(reset)
  <2>1. <<>> \in Seq(Link) /\ Len(<<>>) = 0 /\ 0 <= MaxLinks /\ DOMAIN <<>> = {}
    BY <1>1, EmptySeq
  <2> QED
    BY <2>1 DEF Init, LinksOK
<1>4. OwnersOK /\ RecoveriesOK /\ SessionsOK
  <2>1. /\ <<>> \in Seq(Recovery) /\ <<>> \in Seq(Session)
        /\ \A i \in DOMAIN <<>> : FALSE
    BY EmptySeq
  <2>2. verify = <<>> /\ reset = <<>> /\ recovery = <<>> /\ session = <<>>
    BY DEF Init
  <2> QED
    BY <2>1, <2>2 DEF OwnersOK, RecoveriesOK, SessionsOK, LiveSessionIsCurrent
<1>5. CallsOK
  <2>1. Idle \in Call
    BY <1>1 DEF Idle, Call
  <2>2. Truthful(Idle)
    BY DEF Truthful, Idle
  <2>3. call \in [Calls -> Call] /\ \A c \in Calls : call[c] = Idle
    BY <2>1 DEF Init
  <2> QED
    BY <2>2, <2>3 DEF CallsOK
<1> QED
  BY <1>2, <1>3, <1>4, <1>5 DEF Inv

\* What the theorems below rest on.
LEMMA Always == Spec => []Inv
<1>1. Init => Inv
  BY InvInit
<1>2. Inv /\ [Next]_vars => Inv'
  BY InvStep
<1> QED
  BY <1>1, <1>2, PTL DEF Spec

-----------------------------------------------------------------------------
\* There is no second administrator, so there is nobody or one.
LEMMA OneAdministrator == Inv => Cardinality(Administrators) <= 1
<1> SUFFICES ASSUME Inv PROVE Cardinality(Administrators) <= 1
  OBVIOUS
<1>1. \A u, v \in Administrators : u = v
  BY DEF Inv, PeopleOK
<1> HIDE DEF Administrators
<1>2. CASE Administrators = {}
  <2>1. Cardinality(Administrators) = 0
    BY <1>2, FS_EmptySet
  <2> QED
    BY <2>1
<1>3. CASE Administrators # {}
  <2>1. PICK u \in Administrators : TRUE
    BY <1>3
  <2>2. Administrators = {u}
    BY <1>1, <2>1
  <2>3. Cardinality(Administrators) = 1
    BY <2>2, FS_Singleton
  <2> QED
    BY <2>3
<1> QED
  BY <1>2, <1>3

\* The types and what the tables' constraints promise, at most one link of a
\* kind that works for each person, and no approved recovery without its link:
\* no transaction, clean-up or late call comes between the three tables.
THEOREM LinksAgree == Spec => []LinksInv
<1>1. ASSUME Inv
      PROVE  LinksInv
  <2>1. PeopleOK /\ LinksOK(verify) /\ LinksOK(reset) /\ RecoveriesOK
    BY <1>1 DEF Inv
  <2>2. TypeOK
    <3>1. /\ \A i \in DOMAIN session : session[i] \in Session
          /\ call \in [Calls -> Call]
      BY <1>1 DEF Inv, SessionsOK, CallsOK
    <3>2. /\ \A i \in DOMAIN verify : verify[i] \in Link
          /\ \A i \in DOMAIN reset : reset[i] \in Link
      BY <2>1 DEF LinksOK
    <3>3. /\ \A i \in DOMAIN recovery : recovery[i] \in Recovery
          /\ \A i, j \in DOMAIN recovery :
               /\ recovery[i].status = "APPROVED"
               /\ recovery[j].status = "APPROVED"
               /\ recovery[i].user = recovery[j].user
               => i = j
      BY <2>1 DEF RecoveriesOK
    <3> QED
      BY <1>1, <2>1, <3>1, <3>2, <3>3, OneAdministrator DEF PeopleOK, TypeOK
  <2>3. OneLinkWorks
    BY <2>1 DEF LinksOK, OneLinkWorks
  <2>4. ApprovedHoldsItsLink
    <3>1. 0 \notin DOMAIN reset
      BY <2>1 DEF LinksOK
    <3> QED
      BY <2>1, <3>1 DEF RecoveriesOK, HoldsLink, ApprovedHoldsItsLink
  <2> QED
    BY <2>2, <2>3, <2>4 DEF LinksInv
<1> QED
  BY <1>1, Always, PTL

\* A session that opens the account was opened under the password and the
\* roles the account has, and the account is active.
THEOREM SessionsAreCurrent == Spec => []LiveSessionIsCurrent
<1>1. Inv => LiveSessionIsCurrent
  BY DEF Inv, SessionsOK
<1> QED
  BY <1>1, Always, PTL

-----------------------------------------------------------------------------
\* Why the password of a person may change.
Spent(u) ==
  \E i \in DOMAIN reset :
    /\ reset[i].user = u /\ Usable(reset[i])
    /\ reset'[i].status = "USED"

Typed(u) ==
  \E c \in Calls :
    /\ call[c].step = "CHANGE" /\ call[c].user = u
    /\ call[c].password = user[u].password

\* Two steps write passwords, and both have a reason.
LEMMA Reasons ==
  ASSUME Inv, [Next]_vars, NEW u \in Users,
         user[u].status # "NONE", user'[u].password # user[u].password
  PROVE  Spent(u) \/ Typed(u)
<1>0. /\ user \in [Users -> Account]
      /\ \A i \in DOMAIN verify : verify[i].user \in Users
      /\ \A c \in Calls : call[c].step # "IDLE" => call[c].user \in Users
  <2>1. \A i \in DOMAIN verify : verify[i] \in Link
    BY DEF Inv, LinksOK
  <2> QED
    BY <2>1 DEF Inv, PeopleOK, CallsOK, Truthful, Link
<1>1. CASE UNCHANGED user
  BY <1>1
<1>2. ASSUME NEW v \in Users, user[v].status = "NONE", NEW a, user' = [user EXCEPT ![v] = a]
      PROVE  FALSE
  BY <1>0, <1>2
<1>3. ASSUME NEW i \in DOMAIN verify, verifyEmail(i)
      PROVE  Spent(u) \/ Typed(u)
  <2>1. PICK v \in Users : v = verify[i].user
    BY <1>0
  <2>2. user'[u].password = user[u].password
    BY <1>0, <1>3, <2>1 DEF verifyEmail, Account
  <2> QED
    BY <2>2
<1>4. ASSUME NEW c \in Calls, NEW v \in Users, confirmPhoneVerification(c, v)
      PROVE  Spent(u) \/ Typed(u)
  <2>1. user'[u].password = user[u].password
    BY <1>0, <1>4 DEF confirmPhoneVerification, Account
  <2> QED
    BY <2>1
<1>5. ASSUME NEW c \in Calls, NEW v \in Users, NEW from, NEW to,
             setStudentAccountStatus(c, v, from, to)
      PROVE  Spent(u) \/ Typed(u)
  <2>1. user'[u].password = user[u].password
    BY <1>0, <1>5 DEF setStudentAccountStatus, Account
  <2> QED
    BY <2>1
<1>6. ASSUME NEW c \in Calls, changePassword(c)
      PROVE  Spent(u) \/ Typed(u)
  <2>1. PICK v \in Users : v = call[c].user
    BY <1>0, <1>6 DEF changePassword
  <2>2. call[c].step = "CHANGE" /\ Unchanged(c) /\ user' = newPassword(v)
    BY <1>1, <1>6, <2>1 DEF changePassword, StillMayLogIn
  <2>3. u = v
    BY <1>0, <2>2 DEF newPassword
  <2> QED
    BY <2>1, <2>2, <2>3 DEF Typed, Unchanged
<1>7. ASSUME NEW c \in Calls, resetPassword(c)
      PROVE  Spent(u) \/ Typed(u)
  <2>1. PICK v \in Users : v = call[c].user
    BY <1>0, <1>7 DEF resetPassword
  <2>2. PICK i \in DOMAIN reset : i = call[c].link /\ reset[i].user = v
    BY <1>7, <2>1 DEF Inv, CallsOK, Truthful, resetPassword
  <2>3. /\ Usable(reset[i]) /\ user' = newPassword(v)
        /\ reset' = RevokeBut(Spend(reset, i), v, i)
    BY <1>1, <1>7, <2>1, <2>2 DEF resetPassword, StillResets
  <2>4. u = v
    BY <1>0, <2>3 DEF newPassword
  <2>5. reset'[i].status = "USED"
    BY <2>2, <2>3, SpentFewer DEF Inv, LinksOK
  <2> QED
    BY <2>2, <2>3, <2>4, <2>5 DEF Spent
<1> QED
  BY <1>1, <1>2, <1>3, <1>4, <1>5, <1>6, <1>7
  DEF Next, AccountStep, RoleStep, SessionStep, PasswordStep, StudentStep, RecoveryStep,
      registerStudent, createStudentByAdmin, createAdmin, grantRole, revokeRole,
      requestEmailVerification, requestPasswordReset, requestPhonePasswordReset,
      readCredentials, authenticateSession, revokeSession, login, logout, Leave,
      revokeAllSessions, verifyCurrentPassword, openResetLink, issuePhonePasswordReset,
      rejectPhonePasswordReset, Expire, cleanupExpired, vars, rows, links

\* A password gives way only to a link of its own account that still worked
\* and is spent by it, or to a person who typed that very password: a reset
\* that looked at its link long ago, and a change whose password was compared
\* before the lock, cannot pass.
THEOREM PasswordsChangeForAReason == Spec => ChangesForAReason
<1> DEFINE ForAReason ==
      \A u \in Users :
        user[u].status # "NONE" /\ user'[u].password # user[u].password =>
          Spent(u) \/ Typed(u)
<1>1. Inv /\ [Next]_vars => [ForAReason]_vars
  BY Reasons
<1>2. ForAReason => \A u \in Users :
       user[u].status # "NONE" /\ user'[u].password # user[u].password =>
         \/ \E i \in DOMAIN reset :
              /\ reset[i].user = u /\ Usable(reset[i])
              /\ reset'[i].status = "USED"
         \/ \E c \in Calls :
              /\ call[c].step = "CHANGE" /\ call[c].user = u
              /\ call[c].password = user[u].password
  BY Zenon DEF Spent, Typed
<1> HIDE DEF ForAReason
<1> QED
  BY <1>1, <1>2, Always, PTL DEF Spec, ChangesForAReason

-----------------------------------------------------------------------------
Administrable == \E u \in Administrators : user[u].status = "ACTIVE"

\* An administrator who is active stays active: only an administrator suspends,
\* nobody suspends himself, and there is no second one.
LEMMA StaysActive ==
  ASSUME Inv, [Next]_vars, NEW u \in Administrators, user[u].status = "ACTIVE"
  PROVE  user'[u].status = "ACTIVE"
<1>0. /\ user \in [Users -> Account] /\ u \in Users
      /\ \A i \in DOMAIN verify : verify[i].user \in Users
      /\ \A c \in Calls : call[c].step # "IDLE" => call[c].user \in Users
  <2>1. \A i \in DOMAIN verify : verify[i] \in Link
    BY DEF Inv, LinksOK
  <2> QED
    BY <2>1 DEF Inv, PeopleOK, CallsOK, Truthful, Link, Administrators
<1>1. CASE UNCHANGED user
  BY <1>1
<1>2. ASSUME NEW v \in Users, user[v].status = "NONE", NEW a, user' = [user EXCEPT ![v] = a]
      PROVE  user'[u].status = "ACTIVE"
  BY <1>0, <1>2
<1>3. ASSUME NEW i \in DOMAIN verify, verifyEmail(i)
      PROVE  user'[u].status = "ACTIVE"
  <2>1. PICK v \in Users : v = verify[i].user
    BY <1>0
  <2> QED
    BY <1>0, <1>3, <2>1 DEF verifyEmail, Account
<1>4. ASSUME NEW c \in Calls, NEW v \in Users, confirmPhoneVerification(c, v)
      PROVE  user'[u].status = "ACTIVE"
  BY <1>0, <1>4 DEF confirmPhoneVerification, Account
<1>5. ASSUME NEW c \in Calls, NEW v \in Users, NEW from, NEW to,
             setStudentAccountStatus(c, v, from, to)
      PROVE  user'[u].status = "ACTIVE"
  <2>1. call[c].user \in Administrators /\ call[c].user # v
    BY <1>5 DEF Inv, CallsOK, Truthful, setStudentAccountStatus, ByAdministrator
  <2>2. u # v
    BY <2>1 DEF Inv, PeopleOK
  <2> QED
    BY <1>0, <1>5, <2>2 DEF setStudentAccountStatus
<1>6. ASSUME NEW c \in Calls, changePassword(c) \/ resetPassword(c)
      PROVE  user'[u].status = "ACTIVE"
  <2>1. PICK v \in Users : v = call[c].user
    BY <1>0, <1>6 DEF changePassword, resetPassword
  <2>2. UNCHANGED user \/ user' = newPassword(v)
    BY <1>6, <2>1 DEF changePassword, resetPassword
  <2> QED
    BY <1>0, <1>1, <2>2 DEF newPassword, Account
<1> QED
  BY <1>1, <1>2, <1>3, <1>4, <1>5, <1>6
  DEF Next, AccountStep, RoleStep, SessionStep, PasswordStep, StudentStep, RecoveryStep,
      registerStudent, createStudentByAdmin, createAdmin, grantRole, revokeRole,
      requestEmailVerification, requestPasswordReset, requestPhonePasswordReset,
      readCredentials, authenticateSession, revokeSession, login, logout, Leave,
      revokeAllSessions, verifyCurrentPassword, openResetLink, issuePhonePasswordReset,
      rejectPhonePasswordReset, Expire, cleanupExpired, vars, rows, links

\* Once someone can administer the platform, someone always can: the roles an
\* operator takes and the accounts an administrator suspends never leave it
\* without.
THEOREM AnAdministratorStays == Spec => AdministratorStays
<1>1. Inv /\ [Next]_vars => (Administrable => Administrable')
  <2> SUFFICES ASSUME Inv, [Next]_vars, NEW u \in Administrators,
                      user[u].status = "ACTIVE"
               PROVE  Administrable'
    BY DEF Administrable
  <2>1. u \in Administrators'
    BY PeopleKept DEF PeopleStay
  <2>2. user'[u].status = "ACTIVE"
    BY StaysActive
  <2> QED
    BY <2>1, <2>2 DEF Administrable
<1> QED
  BY <1>1, Always, PTL DEF Spec, AdministratorStays, Administrable
=============================================================================
