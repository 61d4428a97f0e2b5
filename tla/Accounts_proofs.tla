--------------------------- MODULE Accounts_proofs ---------------------------
(***************************************************************************)
(* Proofs about module Accounts, for any organisations, addresses,         *)
(* invitations and number of requests in flight.                           *)
(***************************************************************************)
EXTENDS Accounts, TLAPS

Limits == Seq(Emails \cup {IP})

LoginReq == [pc : {"limit", "expire", "login"}, next : {"login"}, limits : Limits,
             email : Emails]
RegisterReq == [pc : {"limit", "expire", "register", "register_commit"},
                next : {"register"}, limits : Limits, email : Emails, org : Orgs]
AcceptReq == [pc : {"limit", "expire", "accept", "accept_revoke", "accept_user",
                    "accept_create", "accept_member", "accept_commit"},
              next : {"accept"}, limits : Limits, inv : Invites,
              creating : BOOLEAN, joining : BOOLEAN]
InviteReq == [pc : {"invite", "invite_commit"}, actor : Emails, org : Orgs,
              email : Emails, role : Roles]
ChangeReq == [pc : {"change", "change_commit"}, email : Emails, current : Passwords]

Request == LoginReq \cup RegisterReq \cup AcceptReq \cup InviteReq \cup ChangeReq

Answer == [org : Orgs, email : Emails, pwd : Reqs, role : Role, new : BOOLEAN]

Types ==
    /\ users \in [Emails -> UserRow \cup {None}]
    /\ member \in [Orgs -> [Emails -> Role \cup {None}]]
    /\ inv \in [Invites -> InviteRow \cup {None}]
    /\ req \in [Reqs -> Request \cup {NoReq}]
    /\ answered \subseteq Answer

\* What a handler has read stays true until its commit, where its writes rely on
\* it: rows are never deleted, users keep their organisation, and an invitation
\* found late stays late.
Read(m) ==
    /\ m.pc \in {"limit", "expire"} => m.limits # <<>>
    /\ m.pc = "change_commit" => Exists(m.email)
    /\ m \in AcceptReq =>
          /\ inv[m.inv] # None
          /\ m.pc = "accept_revoke" => inv[m.inv].late
          /\ m.pc = "accept_member" => ~m.creating /\ Exists(inv[m.inv].email)
          /\ m.pc \notin {"accept_member", "accept_commit"} => ~m.creating
          /\ m.pc = "accept_commit" =>
                /\ m.creating => m.joining
                /\ ~m.creating => Exists(inv[m.inv].email)
                /\ ~m.joining => member[inv[m.inv].org][inv[m.inv].email] # None

\* A member is a user, so that the registration of an address that is no user
\* changes nobody's role.
MembersExist == \A o \in Orgs, e \in Emails : member[o][e] # None => Exists(e)

AInv ==
    /\ Types
    /\ \A r \in Reqs : Read(req[r])
    /\ MembersExist
    /\ AnswersHold

\* The position of a request tells its kind.
LEMMA KindOf ==
  ASSUME NEW m \in Request \cup {NoReq}
  PROVE  /\ m.pc \in {"limit", "expire"} => m \in LoginReq \cup RegisterReq \cup AcceptReq
         /\ m.pc \in {"register", "register_commit"} => m \in RegisterReq
         /\ m.pc \in {"accept", "accept_revoke", "accept_user", "accept_create",
                      "accept_member", "accept_commit"} => m \in AcceptReq
         /\ m.pc \in {"invite", "invite_commit"} => m \in InviteReq
         /\ m.pc \in {"change", "change_commit"} => m \in ChangeReq
BY DEF Request, NoReq, LoginReq, RegisterReq, AcceptReq, InviteReq, ChangeReq

\* What no step undoes.
Grows ==
    /\ \A e \in Emails : Exists(e) => Exists(e)' /\ users'[e].org = users[e].org
    /\ \A o \in Orgs, e \in Emails : member[o][e] # None => member'[o][e] = member[o][e]
    /\ \A i \in Invites : inv[i] # None =>
          /\ inv'[i] # None /\ inv'[i].org = inv[i].org /\ inv'[i].email = inv[i].email
          /\ inv'[i].role = inv[i].role
          /\ inv[i].late => inv'[i].late

LEMMA ReadStays ==
  ASSUME Types, Grows, NEW m \in Request \cup {NoReq}, Read(m)
  PROVE  Read(m)'
<1>1. CASE m \in AcceptReq
  <2>1. inv[m.inv] \in InviteRow /\ m.inv \in Invites
    BY <1>1 DEF Types, Read, AcceptReq
  <2>2. inv[m.inv].email \in Emails /\ inv[m.inv].org \in Orgs
    BY <2>1 DEF InviteRow
  <2>3. m.pc # "change_commit"
    BY <1>1 DEF AcceptReq
  <2> QED BY <1>1, <2>1, <2>2, <2>3 DEF Grows, Read
<1>2. CASE m \notin AcceptReq
  <2>1. m.pc = "change_commit" => m.email \in Emails
    BY KindOf DEF ChangeReq
  <2> QED BY <1>2, <2>1 DEF Grows, Read
<1> QED BY <1>1, <1>2

\* One request moves on to m.
LEMMA MoveKeeps ==
  ASSUME Types, Grows, \A q \in Reqs : Read(req[q]),
         NEW r \in Reqs, NEW m \in Request \cup {NoReq},
         req' = [req EXCEPT ![r] = m], Read(m)'
  PROVE  req' \in [Reqs -> Request \cup {NoReq}] /\ \A q \in Reqs : Read(req[q])'
<1>1. req' \in [Reqs -> Request \cup {NoReq}]
  BY DEF Types
<1>2. ASSUME NEW q \in Reqs PROVE Read(req[q])'
  <2>1. CASE q = r
    <3>1. req'[q] = m
      BY <2>1 DEF Types
    <3> QED BY <3>1 DEF Read
  <2>2. CASE q # r
    <3>1. PICK n \in Request \cup {NoReq} : n = req[q]
      BY DEF Types
    <3>2. Read(n)' /\ req'[q] = n
      BY <2>2, <3>1, ReadStays DEF Types
    <3> QED BY <3>2 DEF Read
  <2> QED BY <2>1, <2>2
<1> QED BY <1>1, <1>2

LEMMA NoReqReads == NoReq \in Request \cup {NoReq} /\ Read(NoReq)'
BY DEF NoReq, Read, AcceptReq

\* The tables and the answers stay as they are.
LEMMA QuietGrows == Types /\ UNCHANGED <<tables, answers>> => Grows
BY DEF tables, Grows, Exists

LEMMA QuietHolds ==
  AnswersHold /\ MembersExist /\ UNCHANGED <<tables, answers>> => AnswersHold' /\ MembersExist'
BY DEF tables, answers, AnswersHold, MembersExist, Exists

LEMMA QuietStep ==
  ASSUME AInv, UNCHANGED <<tables, answers>>,
         NEW r \in Reqs, NEW m \in Request \cup {NoReq},
         req' = [req EXCEPT ![r] = m], Read(m)'
  PROVE  AInv'
<1>1. Grows
  BY QuietGrows DEF AInv
<1>2. req' \in [Reqs -> Request \cup {NoReq}] /\ \A q \in Reqs : Read(req[q])'
  BY <1>1, MoveKeeps DEF AInv
<1>3. AnswersHold' /\ MembersExist'
  BY QuietHolds DEF AInv
<1>4. Types'
  BY <1>2 DEF AInv, Types, tables, answers
<1> QED BY <1>2, <1>3, <1>4 DEF AInv

LEMMA RestOfList ==
  ASSUME NEW S, NEW s \in Seq(S), s # <<>>
  PROVE  Tail(s) \in Seq(S) /\ (Len(s) > 1 => Tail(s) # <<>>)
<1>1. Tail(s) \in Seq(S) /\ Len(Tail(s)) = Len(s) - 1 /\ Len(s) \in Nat
  OBVIOUS
<1>2. Len(<<>>) = 0
  OBVIOUS
<1>3. Tail(s) = <<>> => Len(Tail(s)) = 0
  BY <1>2, Zenon
<1> QED BY <1>1, <1>3

\* The rate limit only moves the request.
LEMMA LimitStep ==
  ASSUME AInv, NEW r \in Reqs, Enforce(r) \/ SetExpiry(r) \/ EnforceFails(r)
  PROVE  AInv'
<1>1. PICK n \in Request \cup {NoReq} : n = req[r]
  BY DEF AInv, Types
<1>2. /\ UNCHANGED <<tables, answers>> /\ n.pc \in {"limit", "expire"}
      /\ Goto(r, "expire") \/ Pass(r) \/ End(r)
  BY <1>1 DEF Enforce, SetExpiry, EnforceFails
<1>3. n \in LoginReq \cup RegisterReq \cup AcceptReq /\ n.limits # <<>> /\ Read(n)
  BY <1>1, <1>2, KindOf DEF AInv, Read
<1>4. Grows
  BY <1>2, QuietGrows DEF AInv
<1>5. CASE End(r)
  BY <1>2, <1>5, NoReqReads, QuietStep DEF End
<1>6. CASE Goto(r, "expire")
  <2>1. PICK m : m = [n EXCEPT !.pc = "expire"]
    OBVIOUS
  <2>2. req' = [req EXCEPT ![r] = m]
    BY <1>1, <1>6, <2>1 DEF Goto, AInv, Types
  <2>3. m \in Request /\ m.pc = "expire" /\ m.limits = n.limits
    BY <1>3, <2>1 DEF Request, LoginReq, RegisterReq, AcceptReq
  <2>4. Read(m)
    BY <1>2, <1>3, <2>1, <2>3 DEF Read, AcceptReq, LoginReq, RegisterReq
  <2> QED BY <1>2, <1>4, <2>2, <2>3, <2>4, ReadStays, QuietStep DEF AInv
<1>7. CASE Pass(r)
  <2>1. PICK m : m = [n EXCEPT !.limits = Tail(@),
                               !.pc = IF Len(n.limits) > 1 THEN "limit" ELSE n.next]
    OBVIOUS
  <2>2. req' = [req EXCEPT ![r] = m]
    BY <1>1, <1>7, <2>1 DEF Pass, AInv, Types
  <2>3. Tail(n.limits) \in Limits /\ (Len(n.limits) > 1 => Tail(n.limits) # <<>>)
    <3>1. n.limits \in Limits
      BY <1>3 DEF LoginReq, RegisterReq, AcceptReq
    <3>2. \A s \in Limits : s # <<>> => Tail(s) \in Limits /\ (Len(s) > 1 => Tail(s) # <<>>)
      BY RestOfList DEF Limits
    <3> QED BY <1>3, <3>1, <3>2
  <2>4. m \in Request
    BY <1>3, <2>1, <2>3 DEF Request, LoginReq, RegisterReq, AcceptReq
  <2>5. Read(m)
    BY <1>2, <1>3, <2>1, <2>3 DEF Read, AcceptReq, LoginReq, RegisterReq
  <2> QED BY <1>2, <1>4, <2>2, <2>4, <2>5, ReadStays, QuietStep DEF AInv
<1> QED BY <1>2, <1>5, <1>6, <1>7

\* The handlers' reads.
LEMMA ReadStep ==
  ASSUME AInv, NEW r \in Reqs,
         \/ LoginAnswers(r) \/ RegisterCheck(r) \/ ChangeCheck(r) \/ InviteCheck(r)
         \/ AcceptRead(r) \/ AcceptUser(r) \/ AcceptCreate(r) \/ AcceptMember(r)
  PROVE  AInv'
<1>1. PICK n \in Request \cup {NoReq} : n = req[r]
  BY DEF AInv, Types
<1>2. UNCHANGED <<tables, answers>> /\ Read(n)
  BY <1>1 DEF LoginAnswers, RegisterCheck, ChangeCheck, InviteCheck, AcceptRead, AcceptUser,
              AcceptCreate, AcceptMember, AInv
<1>3. Grows
  BY <1>2, QuietGrows DEF AInv
<1>4. CASE End(r)
  BY <1>2, <1>4, NoReqReads, QuietStep DEF End
<1>5. ASSUME NEW m \in Request, req' = [req EXCEPT ![r] = m], Read(m) PROVE AInv'
  BY <1>2, <1>3, <1>5, ReadStays, QuietStep DEF AInv
<1>6. ASSUME NEW l, Goto(r, l), [n EXCEPT !.pc = l] \in Request, Read([n EXCEPT !.pc = l])
      PROVE  AInv'
  <2>1. req' = [req EXCEPT ![r] = [n EXCEPT !.pc = l]]
    BY <1>1, <1>6 DEF Goto, AInv, Types
  <2> QED BY <1>5, <1>6, <2>1
<1>7. CASE RegisterCheck(r)
  <2>1. n.pc = "register" /\ n \in RegisterReq
    BY <1>1, <1>7, KindOf DEF RegisterCheck
  <2>2. /\ [n EXCEPT !.pc = "register_commit"] \in Request
        /\ Read([n EXCEPT !.pc = "register_commit"])
    BY <2>1 DEF Request, RegisterReq, Read, AcceptReq
  <2> QED BY <1>4, <1>6, <1>7, <2>2 DEF RegisterCheck
<1>8. CASE ChangeCheck(r)
  <2>1. n.pc = "change" /\ n \in ChangeReq
    BY <1>1, <1>8, KindOf DEF ChangeCheck
  <2>2. [n EXCEPT !.pc = "change_commit"] \in Request
    BY <2>1 DEF Request, ChangeReq
  <2>3. Exists(n.email) => Read([n EXCEPT !.pc = "change_commit"])
    BY <2>1 DEF ChangeReq, Read, AcceptReq
  <2> QED BY <1>1, <1>4, <1>6, <1>8, <2>2, <2>3 DEF ChangeCheck
<1>9. CASE InviteCheck(r)
  <2>1. n.pc = "invite" /\ n \in InviteReq
    BY <1>1, <1>9, KindOf DEF InviteCheck
  <2>2. /\ [n EXCEPT !.pc = "invite_commit"] \in Request
        /\ Read([n EXCEPT !.pc = "invite_commit"])
    BY <2>1 DEF Request, InviteReq, Read, AcceptReq
  <2> QED BY <1>4, <1>6, <1>9, <2>2 DEF InviteCheck
<1>10. CASE AcceptRead(r)
  <2>1. n.pc = "accept" /\ n \in AcceptReq
    BY <1>1, <1>10, KindOf DEF AcceptRead
  <2>2. /\ [n EXCEPT !.pc = "accept_user"] \in Request
        /\ Read([n EXCEPT !.pc = "accept_user"])
    BY <1>2, <2>1 DEF Request, AcceptReq, Read
  <2>3. /\ [n EXCEPT !.pc = "accept_revoke"] \in Request
        /\ inv[n.inv].late => Read([n EXCEPT !.pc = "accept_revoke"])
    BY <1>2, <2>1 DEF Request, AcceptReq, Read
  <2> QED BY <1>1, <1>4, <1>6, <1>10, <2>2, <2>3 DEF AcceptRead
<1>11. CASE AcceptUser(r)
  <2>1. n.pc = "accept_user" /\ n \in AcceptReq
    BY <1>1, <1>11, KindOf DEF AcceptUser
  <2>2. /\ [n EXCEPT !.pc = "accept_create"] \in Request
        /\ Read([n EXCEPT !.pc = "accept_create"])
    BY <1>2, <2>1 DEF Request, AcceptReq, Read
  <2>3. /\ [n EXCEPT !.pc = "accept_member"] \in Request
        /\ Exists(inv[n.inv].email) => Read([n EXCEPT !.pc = "accept_member"])
    BY <1>2, <2>1 DEF Request, AcceptReq, Read
  <2> QED BY <1>1, <1>6, <1>11, <2>2, <2>3 DEF AcceptUser
<1>12. CASE AcceptCreate(r) /\ ~End(r)
  <2>1. n.pc = "accept_create" /\ n \in AcceptReq
    BY <1>1, <1>12, KindOf DEF AcceptCreate
  <2>2. PICK m : m = [n EXCEPT !.pc = "accept_commit", !.creating = TRUE, !.joining = TRUE]
    OBVIOUS
  <2>3. req' = [req EXCEPT ![r] = m]
    BY <1>1, <1>12, <2>2 DEF AcceptCreate, AInv, Types
  <2>4. m \in Request /\ Read(m)
    BY <1>2, <2>1, <2>2 DEF Request, AcceptReq, Read
  <2> QED BY <1>5, <2>3, <2>4
<1>13. CASE AcceptMember(r)
  <2>1. n.pc = "accept_member" /\ n \in AcceptReq
    BY <1>1, <1>13, KindOf DEF AcceptMember
  <2>2. PICK j \in BOOLEAN : j = (member[inv[n.inv].org][inv[n.inv].email] = None)
    OBVIOUS
  <2>3. PICK m : m = [n EXCEPT !.pc = "accept_commit", !.joining = j]
    OBVIOUS
  <2>4. req' = [req EXCEPT ![r] = m]
    BY <1>1, <1>13, <2>2, <2>3 DEF AcceptMember, AInv, Types
  <2>5. m \in Request /\ Read(m)
    BY <1>2, <2>1, <2>2, <2>3 DEF Request, AcceptReq, Read
  <2> QED BY <1>5, <2>4, <2>5
<1>14. CASE LoginAnswers(r)
  BY <1>4, <1>14 DEF LoginAnswers
<1> QED BY <1>4, <1>7, <1>8, <1>9, <1>10, <1>11, <1>12, <1>13, <1>14

\* A commit, from what it does to the tables and to the answers.
LEMMA CommitStep ==
  ASSUME AInv, NEW r \in Reqs, End(r), Grows,
         users' \in [Emails -> UserRow \cup {None}],
         member' \in [Orgs -> [Emails -> Role \cup {None}]],
         inv' \in [Invites -> InviteRow \cup {None}],
         answered' \subseteq Answer,
         AnswersHold', MembersExist'
  PROVE  AInv'
<1>1. req' \in [Reqs -> Request \cup {NoReq}] /\ \A q \in Reqs : Read(req[q])'
  BY NoReqReads, MoveKeeps DEF AInv, End
<1> QED BY <1>1 DEF AInv, Types

LEMMA RegisterStep == ASSUME AInv, NEW r \in Reqs, RegisterCommit(r) PROVE AInv'
<1>1. PICK m \in Request \cup {NoReq} : m = req[r]
  BY DEF AInv, Types
<1>2. m.pc = "register_commit" /\ m \in RegisterReq /\ End(r)
  BY <1>1, KindOf DEF RegisterCommit
<1>3. m.email \in Emails /\ m.org \in Orgs
  BY <1>2 DEF RegisterReq
<1>4. CASE OrgTaken(m.org) \/ Exists(m.email)
  <2>1. UNCHANGED <<tables, answers>>
    BY <1>1, <1>4 DEF RegisterCommit, tables, answers
  <2> QED BY <1>2, <2>1, NoReqReads, QuietStep DEF End
<1>5. CASE ~Exists(m.email)
           /\ users' = [users EXCEPT ![m.email] = [org |-> m.org, pwd |-> r]]
           /\ member' = [member EXCEPT ![m.org][m.email] = "admin"]
           /\ answered' = answered \cup {[org |-> m.org, email |-> m.email,
                              pwd |-> r, role |-> "admin", new |-> TRUE]}
  <2> DEFINE e == m.email
             o == m.org
             row == [org |-> o, pwd |-> r]
             a == [org |-> o, email |-> e, pwd |-> r, role |-> "admin", new |-> TRUE]
  <2>0. UNCHANGED <<inv, changed>>
    BY DEF RegisterCommit
  <2>1. row \in UserRow /\ row # None /\ "admin" # None /\ a \in Answer
    BY <1>3, AccountsAssumption DEF UserRow, Passwords, Role, Answer
  <2>2. /\ users \in [Emails -> UserRow \cup {None}]
        /\ member \in [Orgs -> [Emails -> Role \cup {None}]]
        /\ AnswersHold
    BY DEF AInv, Types
  <2>3. /\ users'[e] = row /\ \A x \in Emails \ {e} : users'[x] = users[x]
        /\ users' \in [Emails -> UserRow \cup {None}]
    BY <1>3, <1>5, <2>1, <2>2
  <2>4. /\ member'[o][e] = "admin"
        /\ \A p \in Orgs, x \in Emails : p # o \/ x # e => member'[p][x] = member[p][x]
        /\ member' \in [Orgs -> [Emails -> Role \cup {None}]]
    BY <1>3, <1>5, <2>2 DEF Role
  <2>5. users[e] = None /\ row.org = o /\ row.pwd = r
    BY <1>5 DEF Exists
  <2>6. \A p \in Orgs : member[p][e] = None
    BY <1>3, <1>5 DEF AInv, MembersExist
  <2>7. \A b \in answered : b \in Answer /\ b.email # e
    BY <1>5, <2>2 DEF AnswersHold, AInv, Types
  <2> HIDE DEF e, o, row, a
  <2>8. e \in Emails /\ o \in Orgs
    BY <1>3 DEF e, o
  <2>9. Grows
    BY <2>0, <2>3, <2>4, <2>5, <2>6, <2>8 DEF Grows, Exists
  <2>10. MembersExist'
    BY <2>1, <2>3, <2>4, <2>6, <2>8 DEF AInv, MembersExist, Exists
  <2>11. AnswersHold'
    <3>1. ASSUME NEW b \in answered'
          PROVE  /\ Exists(b.email)'
                 /\ member'[b.org][b.email] = b.role
                 /\ b.new => users'[b.email].pwd = b.pwd \/ b.email \in changed'
      <4>1. CASE b \in answered
        BY <2>0, <2>2, <2>3, <2>4, <2>7, <4>1 DEF AnswersHold, Exists, Answer
      <4>2. CASE b = a
        <5>1. /\ b.email = e /\ b.org = o /\ b.role = "admin" /\ b.pwd = r
          BY <4>2 DEF a
        <5> QED BY <2>1, <2>3, <2>4, <2>5, <5>1 DEF Exists
      <4> QED BY <1>5, <3>1, <4>1, <4>2 DEF a, e, o
    <3>2. \A x \in Emails : Exists(x)' => \E p \in Orgs : member'[p][x] # None
      BY <2>1, <2>2, <2>3, <2>4, <2>8 DEF AnswersHold, Exists
    <3>3. \A p \in Orgs, x \in Emails : member'[p][x] # None =>
             \/ Exists(x)' /\ users'[x].org = p /\ member'[p][x] = "admin"
             \/ \E i \in Invites :
                  /\ inv'[i] # None
                  /\ inv'[i].org = p /\ inv'[i].email = x /\ inv'[i].role = member'[p][x]
                  /\ inv'[i].status = "accepted" \/ (inv'[i].status = "revoked" /\ inv'[i].late)
      BY <2>0, <2>1, <2>2, <2>3, <2>4, <2>5, <2>6, <2>8 DEF AnswersHold, Exists
    <3> QED BY <3>1, <3>2, <3>3 DEF AnswersHold
  <2>12. answered' \subseteq Answer
    BY <1>5, <2>1 DEF AInv, Types, a, e, o
  <2> QED BY <1>2, <2>0, <2>3, <2>4, <2>9, <2>10, <2>11, <2>12, CommitStep DEF AInv, Types
<1> QED BY <1>1, <1>4, <1>5 DEF RegisterCommit

LEMMA ChangeStep == ASSUME AInv, NEW r \in Reqs, ChangeCommit(r) PROVE AInv'
<1>1. PICK m \in Request \cup {NoReq} : m = req[r]
  BY DEF AInv, Types
<1>2. PICK e : e = m.email
  OBVIOUS
<1>3. /\ m.pc = "change_commit" /\ m \in ChangeReq /\ End(r)
      /\ users' = [users EXCEPT ![e].pwd = r] /\ changed' = changed \cup {e}
      /\ UNCHANGED <<member, inv, answered>>
  BY <1>1, <1>2, KindOf DEF ChangeCommit
<1>4. e \in Emails /\ users[e] # None
  BY <1>1, <1>2, <1>3 DEF ChangeReq, AInv, Read, Exists
<1>5. users \in [Emails -> UserRow \cup {None}] /\ answered \subseteq Answer /\ AnswersHold
  BY DEF AInv, Types
<1>6. PICK row : row = [users[e] EXCEPT !.pwd = r]
  OBVIOUS
<1>7. row \in UserRow /\ row.org = users[e].org
  BY <1>4, <1>5, <1>6 DEF UserRow, Passwords
<1>8. users'[e] = row /\ \A x \in Emails \ {e} : users'[x] = users[x]
  BY <1>3, <1>4, <1>5, <1>6
<1>9. users' \in [Emails -> UserRow \cup {None}] /\ row # None
  <2>1. users' = [users EXCEPT ![e] = row]
    BY <1>3, <1>4, <1>5, <1>6
  <2> QED BY <1>4, <1>5, <1>7, <2>1, AccountsAssumption
<1>10. \A x \in Emails : Exists(x)' <=> Exists(x)
  BY <1>4, <1>8, <1>9 DEF Exists
<1>11. \A x \in Emails : Exists(x) => users'[x].org = users[x].org
  BY <1>7, <1>8
<1>12. Grows
  BY <1>3, <1>10, <1>11 DEF Grows
<1>13. MembersExist'
  BY <1>3, <1>10 DEF AInv, MembersExist
<1>14. \A x \in Emails : x \in changed' \/ users'[x] = users[x]
  BY <1>3, <1>8
<1>15. changed \subseteq changed'
  BY <1>3
<1>16. AnswersHold'
  <2>1. ASSUME NEW b \in answered'
        PROVE  /\ Exists(b.email)'
               /\ member'[b.org][b.email] = b.role
               /\ b.new => users'[b.email].pwd = b.pwd \/ b.email \in changed'
    <3>1. b \in answered /\ b.email \in Emails
      BY <1>3, <1>5, <2>1 DEF Answer
    <3>2. Exists(b.email)' /\ member'[b.org][b.email] = b.role
      BY <1>3, <1>5, <1>10, <3>1 DEF AnswersHold
    <3> QED BY <1>5, <1>14, <1>15, <3>1, <3>2 DEF AnswersHold
  <2>2. \A x \in Emails : Exists(x)' => \E p \in Orgs : member'[p][x] # None
    BY <1>3, <1>5, <1>10 DEF AnswersHold
  <2>3. \A p \in Orgs, x \in Emails : member'[p][x] # None =>
           \/ Exists(x)' /\ users'[x].org = p /\ member'[p][x] = "admin"
           \/ \E i \in Invites :
                /\ inv'[i] # None
                /\ inv'[i].org = p /\ inv'[i].email = x /\ inv'[i].role = member'[p][x]
                /\ inv'[i].status = "accepted" \/ (inv'[i].status = "revoked" /\ inv'[i].late)
    BY <1>3, <1>5, <1>10, <1>11 DEF AnswersHold
  <2> QED BY <2>1, <2>2, <2>3 DEF AnswersHold
<1> QED BY <1>3, <1>5, <1>9, <1>12, <1>13, <1>16, CommitStep DEF AInv, Types

\* The origin that an invitation is of a membership survives what is done to it.
LEMMA InvitesOnly ==
  ASSUME AInv, UNCHANGED <<users, member, answers>>,
         inv' \in [Invites -> InviteRow \cup {None}],
         \A i \in Invites : inv[i] # None =>
            /\ inv'[i] # None /\ inv'[i].org = inv[i].org /\ inv'[i].email = inv[i].email
            /\ inv'[i].role = inv[i].role
            /\ inv[i].late => inv'[i].late
            /\ inv[i].status # "pending" =>
                  inv'[i].status = inv[i].status \/ (inv'[i].status = "revoked" /\ inv'[i].late)
  PROVE  Grows /\ AnswersHold' /\ MembersExist'
<1>1. Grows
  BY DEF Grows, Exists
<1>2. MembersExist'
  BY DEF AInv, MembersExist, Exists
<1>3. AnswersHold'
  <2>1. \A b \in answered' : /\ Exists(b.email)'
                             /\ member'[b.org][b.email] = b.role
                             /\ b.new => users'[b.email].pwd = b.pwd \/ b.email \in changed'
    BY DEF AInv, AnswersHold, Exists, answers
  <2>2. \A x \in Emails : Exists(x)' => \E p \in Orgs : member'[p][x] # None
    BY DEF AInv, AnswersHold, Exists
  <2>3. ASSUME NEW p \in Orgs, NEW x \in Emails, member'[p][x] # None
        PROVE  \/ Exists(x)' /\ users'[x].org = p /\ member'[p][x] = "admin"
               \/ \E i \in Invites :
                    /\ inv'[i] # None
                    /\ inv'[i].org = p /\ inv'[i].email = x /\ inv'[i].role = member'[p][x]
                    /\ \/ inv'[i].status = "accepted"
                       \/ inv'[i].status = "revoked" /\ inv'[i].late
    <3>1. CASE Exists(x) /\ users[x].org = p /\ member[p][x] = "admin"
      BY <3>1 DEF Exists
    <3>2. CASE ~(Exists(x) /\ users[x].org = p /\ member[p][x] = "admin")
      <4>1. PICK i \in Invites :
                    /\ inv[i] # None
                    /\ inv[i].org = p /\ inv[i].email = x /\ inv[i].role = member[p][x]
                    /\ inv[i].status = "accepted" \/ (inv[i].status = "revoked" /\ inv[i].late)
        BY <2>3, <3>2 DEF AInv, AnswersHold
      <4> QED BY <4>1
    <3> QED BY <3>1, <3>2
  <2> QED BY <2>1, <2>2, <2>3 DEF AnswersHold
<1> QED BY <1>1, <1>2, <1>3

LEMMA InviteStep ==
  ASSUME AInv, NEW r \in Reqs, NEW i \in Invites, InviteCommit(r, i) PROVE AInv'
<1>1. PICK m \in Request \cup {NoReq} : m = req[r]
  BY DEF AInv, Types
<1>2. PICK x : x = [org |-> m.org, email |-> m.email, role |-> m.role,
                    status |-> "pending", late |-> FALSE]
  OBVIOUS
<1>3. /\ m.pc = "invite_commit" /\ m \in InviteReq /\ End(r)
      /\ inv[i] = None /\ inv' = [inv EXCEPT ![i] = x]
      /\ UNCHANGED <<users, member, answers>>
  BY <1>1, <1>2, KindOf DEF InviteCommit
<1>4. x \in InviteRow
  BY <1>2, <1>3 DEF InviteReq, InviteRow
<1>5. inv \in [Invites -> InviteRow \cup {None}]
  BY DEF AInv, Types
<1>6. inv' \in [Invites -> InviteRow \cup {None}] /\ \A j \in Invites : inv[j] # None => inv'[j] = inv[j]
  BY <1>3, <1>4, <1>5
<1>7. Grows /\ AnswersHold' /\ MembersExist'
  BY <1>3, <1>6, InvitesOnly
<1> QED BY <1>3, <1>6, <1>7, CommitStep DEF AInv, Types, answers

LEMMA RevokeStep == ASSUME AInv, NEW r \in Reqs, AcceptRevoke(r) PROVE AInv'
<1>1. PICK m \in Request \cup {NoReq} : m = req[r]
  BY DEF AInv, Types
<1>2. PICK i : i = m.inv
  OBVIOUS
<1>3. /\ m.pc = "accept_revoke" /\ m \in AcceptReq /\ End(r)
      /\ inv' = [inv EXCEPT ![i].status = "revoked"]
      /\ UNCHANGED <<users, member, answers>>
  BY <1>1, <1>2, KindOf DEF AcceptRevoke
<1>4. inv \in [Invites -> InviteRow \cup {None}]
  BY DEF AInv, Types
<1>5. i \in Invites /\ inv[i] \in InviteRow /\ inv[i].late
  BY <1>1, <1>2, <1>3, <1>4 DEF AcceptReq, AInv, Read
<1>6. PICK x : x = [inv[i] EXCEPT !.status = "revoked"]
  OBVIOUS
<1>7. /\ x \in InviteRow /\ x.org = inv[i].org /\ x.email = inv[i].email
      /\ x.role = inv[i].role /\ x.late /\ x.status = "revoked"
  BY <1>5, <1>6 DEF InviteRow
<1>8. inv' = [inv EXCEPT ![i] = x]
  BY <1>3, <1>4, <1>5, <1>6
<1>9. /\ inv' \in [Invites -> InviteRow \cup {None}]
      /\ inv'[i] = x /\ \A j \in Invites \ {i} : inv'[j] = inv[j]
  BY <1>4, <1>5, <1>7, <1>8
<1>10. x # None
  BY <1>7, AccountsAssumption
<1>11. Grows /\ AnswersHold' /\ MembersExist'
  BY <1>3, <1>7, <1>9, <1>10, InvitesOnly
<1> QED BY <1>3, <1>9, <1>11, CommitStep DEF AInv, Types, answers

\* No request moves.
LEMMA IdleStep ==
  ASSUME AInv, UNCHANGED req, Grows,
         users' \in [Emails -> UserRow \cup {None}],
         member' \in [Orgs -> [Emails -> Role \cup {None}]],
         inv' \in [Invites -> InviteRow \cup {None}],
         answered' \subseteq Answer,
         AnswersHold', MembersExist'
  PROVE  AInv'
<1>1. ASSUME NEW q \in Reqs PROVE Read(req[q])'
  <2>1. PICK n \in Request \cup {NoReq} : n = req[q]
    BY DEF AInv, Types
  <2>2. Read(n)' /\ req'[q] = n
    BY <2>1, ReadStays DEF AInv
  <2> QED BY <2>2 DEF Read
<1> QED BY <1>1 DEF AInv, Types

LEMMA LateStep == ASSUME AInv, NEW i \in Invites, InviteExpires(i) PROVE AInv'
<1>1. inv \in [Invites -> InviteRow \cup {None}]
  BY DEF AInv, Types
<1>2. PICK x : x = [inv[i] EXCEPT !.late = TRUE]
  OBVIOUS
<1>3. inv[i] \in InviteRow /\ inv' = [inv EXCEPT ![i] = x] /\ UNCHANGED <<users, member, req, answers>>
  BY <1>1, <1>2 DEF InviteExpires
<1>4. /\ x \in InviteRow /\ x.org = inv[i].org /\ x.email = inv[i].email
      /\ x.role = inv[i].role /\ x.late /\ x.status = inv[i].status
  BY <1>2, <1>3 DEF InviteRow
<1>5. /\ inv' \in [Invites -> InviteRow \cup {None}]
      /\ inv'[i] = x /\ \A j \in Invites \ {i} : inv'[j] = inv[j]
  BY <1>1, <1>3, <1>4
<1>6. x # None
  BY <1>4, AccountsAssumption
<1>7. Grows /\ AnswersHold' /\ MembersExist'
  BY <1>3, <1>4, <1>5, <1>6, InvitesOnly
<1> QED BY <1>3, <1>5, <1>7, IdleStep DEF AInv, Types, answers

LEMMA AcceptStep == ASSUME AInv, NEW r \in Reqs, AcceptCommit(r) PROVE AInv'
<1>1. PICK m \in Request \cup {NoReq} : m = req[r]
  BY DEF AInv, Types
<1>2. PICK i : i = m.inv
  OBVIOUS
<1>3. m.pc = "accept_commit" /\ m \in AcceptReq /\ End(r) /\ UNCHANGED changed
  BY <1>1, KindOf DEF AcceptCommit
<1>4. /\ users \in [Emails -> UserRow \cup {None}]
      /\ member \in [Orgs -> [Emails -> Role \cup {None}]]
      /\ inv \in [Invites -> InviteRow \cup {None}]
      /\ answered \subseteq Answer /\ AnswersHold /\ MembersExist
  BY DEF AInv, Types
<1>5. Read(m) /\ i \in Invites /\ m.creating \in BOOLEAN /\ m.joining \in BOOLEAN
  BY <1>1, <1>2, <1>3 DEF AInv, AcceptReq
<1>6. PICK x \in InviteRow : x = inv[i]
  BY <1>2, <1>3, <1>4, <1>5 DEF Read
<1>7. PICK e \in Emails, o \in Orgs : e = x.email /\ o = x.org /\ x.role \in Roles
  BY DEF InviteRow
<1>8. CASE (m.creating /\ Exists(e)) \/ (m.joining /\ member[o][e] # None)
  <2>1. UNCHANGED <<tables, answers>>
    BY <1>1, <1>2, <1>3, <1>6, <1>7, <1>8 DEF AcceptCommit, tables, answers
  <2> QED BY <1>3, <2>1, NoReqReads, QuietStep DEF End
<1>9. CASE ~((m.creating /\ Exists(e)) \/ (m.joining /\ member[o][e] # None))
  <2>1. PICK u : u = IF m.creating THEN [org |-> o, pwd |-> r] ELSE users[e]
    OBVIOUS
  <2>2. PICK rl : rl = IF m.joining THEN x.role ELSE member[o][e]
    OBVIOUS
  <2>3. PICK y : y = [x EXCEPT !.status = "accepted"]
    OBVIOUS
  <2>4. /\ users' = [users EXCEPT ![e] = u]
        /\ member' = [member EXCEPT ![o][e] = rl]
        /\ inv' = [inv EXCEPT ![i] = y]
        /\ answered' = answered \cup {[org |-> o, email |-> e, pwd |-> r,
                           role |-> member'[o][e], new |-> m.creating]}
    <3>1. /\ users' = [users EXCEPT ![e] = UserAfter(users[e], r)]
          /\ member' = [member EXCEPT ![o][e] = IF m.joining THEN x.role ELSE member[o][e]]
          /\ inv' = [inv EXCEPT ![i].status = "accepted"]
          /\ answered' = answered \cup {[org |-> o, email |-> e, pwd |-> r,
                             role |-> member'[o][e], new |-> m.creating]}
      BY <1>1, <1>2, <1>6, <1>7, <1>9 DEF AcceptCommit
    <3>2. UserAfter(users[e], r) = u
      BY <1>1, <1>2, <1>6, <1>7, <2>1 DEF UserAfter
    <3>3. inv' = [inv EXCEPT ![i] = y]
      BY <1>4, <1>5, <1>6, <2>3, <3>1
    <3> QED BY <2>2, <3>1, <3>2, <3>3
  <2>5. /\ m.creating => m.joining
        /\ m.creating => users[e] = None /\ \A p \in Orgs : member[p][e] = None
        /\ ~m.creating => users[e] # None
        /\ m.joining => member[o][e] = None
        /\ ~m.joining => member[o][e] # None
    <3>1. /\ m.creating => m.joining
          /\ ~m.creating => Exists(e)
          /\ ~m.joining => member[o][e] # None
      BY <1>2, <1>3, <1>5, <1>6, <1>7 DEF Read
    <3>2. /\ m.creating => ~Exists(e)
          /\ m.joining => member[o][e] = None
      BY <1>9
    <3>3. ~Exists(e) => \A p \in Orgs : member[p][e] = None
      BY <1>4 DEF MembersExist
    <3> QED BY <3>1, <3>2, <3>3 DEF Exists
  <2>6. u \in UserRow /\ u # None /\ (m.creating => u.pwd = r) /\ (~m.creating => u = users[e])
    BY <1>4, <2>1, <2>5, AccountsAssumption DEF UserRow, Passwords
  <2>7. rl \in Role /\ rl # None /\ (~m.joining => rl = member[o][e]) /\ (m.joining => rl = x.role)
    BY <1>4, <1>7, <2>2, <2>5, AccountsAssumption DEF Role
  <2>8. /\ y \in InviteRow /\ y.org = o /\ y.email = e /\ y.role = x.role /\ y.late = x.late
        /\ y.status = "accepted" /\ y # None
    BY <1>7, <2>3, AccountsAssumption DEF InviteRow
  <2>9. /\ users' \in [Emails -> UserRow \cup {None}]
        /\ users'[e] = u /\ \A z \in Emails \ {e} : users'[z] = users[z]
    BY <1>4, <2>4, <2>6
  <2>10. /\ member' \in [Orgs -> [Emails -> Role \cup {None}]]
         /\ member'[o][e] = rl
         /\ \A p \in Orgs, z \in Emails : p # o \/ z # e => member'[p][z] = member[p][z]
    BY <1>4, <2>4, <2>7
  <2>11. /\ inv' \in [Invites -> InviteRow \cup {None}]
         /\ inv'[i] = y /\ \A j \in Invites \ {i} : inv'[j] = inv[j]
    BY <1>4, <1>5, <2>4, <2>8
  <2>12. PICK a \in Answer : /\ a.org = o /\ a.email = e /\ a.pwd = r /\ a.role = rl
                             /\ a.new = m.creating /\ answered' = answered \cup {a}
    BY <1>5, <2>4, <2>7, <2>10 DEF Answer
  <2>13. \A p \in Orgs, z \in Emails : member[p][z] # None => member'[p][z] = member[p][z]
    BY <2>5, <2>7, <2>10
  <2>14. \A z \in Emails : users[z] # None => users'[z] = users[z]
    BY <2>5, <2>6, <2>9
  <2>15. \A z \in Emails : users'[z] # None => z = e \/ users'[z] = users[z]
    BY <2>9
  <2>16. Grows
    BY <1>6, <1>7, <2>6, <2>8, <2>11, <2>13, <2>14 DEF Grows, Exists
  <2>17. MembersExist'
    BY <1>4, <2>6, <2>9, <2>10, <2>14 DEF MembersExist, Exists
  <2>18. ASSUME NEW b \in answered'
         PROVE  /\ Exists(b.email)'
                /\ member'[b.org][b.email] = b.role
                /\ b.new => users'[b.email].pwd = b.pwd \/ b.email \in changed'
    <3>1. CASE b \in answered
      <4>1. b.email \in Emails /\ b.org \in Orgs /\ b.role # None
        BY <1>4, <3>1, AccountsAssumption DEF Answer
      <4> QED BY <1>3, <1>4, <2>13, <2>14, <3>1, <4>1 DEF AnswersHold, Exists
    <3>2. CASE b = a
      BY <2>6, <2>9, <2>10, <2>12, <3>2 DEF Exists
    <3> QED BY <2>12, <2>18, <3>1, <3>2
  <2>19. \A z \in Emails : Exists(z)' => \E p \in Orgs : member'[p][z] # None
    BY <1>4, <2>7, <2>9, <2>10 DEF AnswersHold, Exists
  <2>20. ASSUME NEW p \in Orgs, NEW z \in Emails, member'[p][z] # None
         PROVE  \/ Exists(z)' /\ users'[z].org = p /\ member'[p][z] = "admin"
                \/ \E j \in Invites :
                     /\ inv'[j] # None
                     /\ inv'[j].org = p /\ inv'[j].email = z /\ inv'[j].role = member'[p][z]
                     /\ \/ inv'[j].status = "accepted"
                        \/ inv'[j].status = "revoked" /\ inv'[j].late
    <3>1. CASE member[p][z] = None
      <4>1. p = o /\ z = e /\ m.joining
        BY <2>5, <2>10, <2>20, <3>1
      <4> QED BY <1>5, <2>7, <2>8, <2>10, <2>11, <4>1
    <3>2. CASE member[p][z] # None /\ Exists(z) /\ users[z].org = p /\ member[p][z] = "admin"
      BY <2>13, <2>14, <3>2 DEF Exists
    <3>3. CASE member[p][z] # None /\ ~(Exists(z) /\ users[z].org = p /\ member[p][z] = "admin")
      <4>1. PICK j \in Invites :
                    /\ inv[j] # None
                    /\ inv[j].org = p /\ inv[j].email = z /\ inv[j].role = member[p][z]
                    /\ inv[j].status = "accepted" \/ (inv[j].status = "revoked" /\ inv[j].late)
        BY <1>4, <3>3 DEF AnswersHold
      <4>2. CASE j = i
        BY <1>5, <1>6, <1>7, <2>8, <2>11, <2>13, <3>3, <4>1, <4>2
      <4>3. CASE j # i
        BY <2>11, <2>13, <3>3, <4>1, <4>3
      <4> QED BY <4>2, <4>3
    <3> QED BY <3>1, <3>2, <3>3
  <2>21. AnswersHold'
    BY <2>18, <2>19, <2>20 DEF AnswersHold
  <2>22. answered' \subseteq Answer
    BY <1>4, <2>12
  <2> QED BY <1>3, <2>9, <2>10, <2>11, <2>16, <2>17, <2>21, <2>22, CommitStep
<1> QED BY <1>8, <1>9

LEMMA BeginStep ==
  ASSUME AInv, NEW r \in Reqs, NEW m \in Requests, Begin(r, m) PROVE AInv'
<1>1. UNCHANGED <<tables, answers>> /\ req' = [req EXCEPT ![r] = m]
  BY DEF Begin
<1>2. m \in Request /\ Read(m)
  <2>1. CASE \E e \in Emails : m = Login(e)
    BY <2>1 DEF Login, Request, LoginReq, Limits, Read, AcceptReq
  <2>2. CASE \E e \in Emails, o \in Orgs : m = Register(e, o)
    BY <2>2 DEF Register, Request, RegisterReq, Limits, Read, AcceptReq
  <2>3. CASE \E i \in Invites : inv[i] # None /\ m = AcceptInvite(i)
    BY <2>3 DEF AcceptInvite, Request, AcceptReq, Limits, Read
  <2>4. CASE \E a \in Emails, o \in Orgs, e \in Emails, x \in Roles : m = Invite(a, o, e, x)
    BY <2>4 DEF Invite, Request, InviteReq, Read, AcceptReq
  <2>5. CASE \E e \in Emails, p \in Passwords : m = ChangePassword(e, p)
    BY <2>5 DEF ChangePassword, Request, ChangeReq, Read, AcceptReq
  <2> QED BY <2>1, <2>2, <2>3, <2>4, <2>5 DEF Requests
<1>3. Grows
  BY <1>1, QuietGrows DEF AInv
<1> QED BY <1>1, <1>2, <1>3, ReadStays, QuietStep DEF AInv

LEMMA AInvInit == Init => AInv
<1> SUFFICES ASSUME Init PROVE AInv
  OBVIOUS
<1>1. [org |-> Founder.org, pwd |-> Founder.pwd] \in UserRow
  BY AccountsAssumption DEF UserRow, Passwords
<1>2. Types
  <2>1. users \in [Emails -> UserRow \cup {None}]
    BY <1>1 DEF Init
  <2>2. member \in [Orgs -> [Emails -> Role \cup {None}]]
    BY DEF Init, Role
  <2> QED BY <2>1, <2>2 DEF Init, Types
<1>3. \A q \in Reqs : Read(req[q])
  BY DEF Init, Read, NoReq, AcceptReq
<1>4. /\ \A e \in Emails : Exists(e) => e = Founder.email
      /\ Exists(Founder.email) /\ users[Founder.email].org = Founder.org
      /\ \A o \in Orgs, e \in Emails :
            member[o][e] # None => o = Founder.org /\ e = Founder.email
      /\ member[Founder.org][Founder.email] = "admin"
      /\ Founder.org \in Orgs /\ Founder.email \in Emails
      /\ "admin" # None
  BY <1>1, AccountsAssumption DEF Init, Exists, Role
<1>5. MembersExist
  BY <1>4 DEF MembersExist
<1>6. AnswersHold
  BY <1>4 DEF AnswersHold, Init
<1> QED BY <1>2, <1>3, <1>5, <1>6 DEF AInv

LEMMA AInvNext == AInv /\ [Next]_vars => AInv'
<1> SUFFICES ASSUME AInv, [Next]_vars PROVE AInv'
  OBVIOUS
<1>1. ASSUME NEW r \in Reqs, NEW m \in Requests, Begin(r, m) PROVE AInv'
  BY <1>1, BeginStep
<1>2. ASSUME NEW r \in Reqs, RequestStep(r) PROVE AInv'
  BY <1>2, LimitStep, ReadStep, RegisterStep, ChangeStep, InviteStep, RevokeStep, AcceptStep
     DEF RequestStep
<1>3. ASSUME NEW r \in Reqs, EnforceFails(r) PROVE AInv'
  BY <1>3, LimitStep
<1>4. ASSUME UNCHANGED <<tables, answers, req>> PROVE AInv'
  <2>1. Grows /\ AnswersHold' /\ MembersExist'
    BY <1>4, QuietGrows, QuietHolds DEF AInv
  <2> QED BY <1>4, <2>1, IdleStep DEF AInv, Types, tables, answers
<1>5. ASSUME NEW i \in Emails \cup {IP}, WindowEnds(i) PROVE AInv'
  BY <1>4, <1>5 DEF WindowEnds
<1>6. ASSUME NEW i \in Invites, InviteExpires(i) PROVE AInv'
  BY <1>6, LateStep
<1>7. CASE Crash
  <2>1. UNCHANGED <<tables, answers>> /\ req' = [r \in Reqs |-> NoReq]
    BY <1>7 DEF Crash
  <2>2. AnswersHold' /\ MembersExist'
    BY <2>1, QuietHolds DEF AInv
  <2>3. \A q \in Reqs : Read(req[q])'
    BY <2>1 DEF Read, NoReq, AcceptReq
  <2> QED BY <2>1, <2>2, <2>3 DEF AInv, Types, tables, answers
<1>8. CASE UNCHANGED vars
  BY <1>4, <1>8 DEF vars, tables, answers
<1> QED BY <1>1, <1>2, <1>3, <1>5, <1>6, <1>7, <1>8 DEF Next

\* Every 201 stays true and every membership has its origin, for any number of
\* requests that interleave between their reads and their one commit: what a
\* handler read before its commit either cannot change any more or is decided by
\* a unique column.
THEOREM AnswersStay == Spec => []AnswersHold
<1>1. AInv => AnswersHold
  BY DEF AInv
<1> QED BY <1>1, AInvInit, AInvNext, PTL DEF Spec
=============================================================================
