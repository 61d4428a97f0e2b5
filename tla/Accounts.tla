------------------------------- MODULE Accounts -------------------------------
(***************************************************************************)
(* Organisations, users, team memberships and invitations, and the rate    *)
(* limit in front of the endpoints that need no token (api/v1/auth.py,     *)
(* services/auth.py, services/invitations.py, services/rate_limit.py).     *)
(*                                                                         *)
(* A handler reads Postgres several times before its one commit, and the   *)
(* unique columns of the tables are what a second request meets there.     *)
(* The limiter is a Redis counter whose first increment starts its window  *)
(* with a second call.                                                     *)
(*                                                                         *)
(* An organisation and its only team, default, have one name.  A user is   *)
(* an email address; the password that a request sends is named like the   *)
(* request.                                                                *)
(***************************************************************************)
EXTENDS Integers, Sequences, FiniteSets

CONSTANTS
    Orgs, Emails, Invites,
    Roles,       \* the roles an invitation may give
    Founder,     \* [org, email, pwd] of the first registration
    IP,          \* the address all requests come from
    Reqs,        \* requests in flight at a time
    MaxReqs,     \* bound on the number of requests
    Limit,       \* settings.auth_rate_limit_max
    None,
    Events,      \* which environment events a behaviour may contain
    MaxEvents    \* bound on the number of those events

Passwords == Reqs \cup {Founder.pwd}

\* Rows of the tables users and invitations, and the roles of a membership.
UserRow == [org : Orgs, pwd : Passwords]
InviteRow == [org : Orgs, email : Emails, role : Roles,
              status : {"pending", "accepted", "revoked"}, late : BOOLEAN]
Role == Roles \cup {"admin"}

\* None is no row, no role and no name.
ASSUME AccountsAssumption ==
    /\ None \notin Emails \cup Orgs \cup UserRow \cup InviteRow \cup Role
    /\ Founder.org \in Orgs /\ Founder.email \in Emails /\ Founder.pwd \notin Reqs
    /\ IP \notin Emails
    /\ Limit \in Nat \ {0}

VARIABLES
    users,      \* email -> [org, pwd], or None
    member,     \* org -> email -> the role in its team, or None
    inv,        \* invitation -> [org, email, role, status, late], or None
    count,      \* ratelimit:{scope}:{identifier}; 0 is no key
    expiring,   \* identifiers whose key has an expiry
    req,        \* the requests in flight
    begun,      \* how many there have been
    answered,   \* the 201s: [org, email, pwd, role, new]
    changed,    \* emails whose password was changed since
    events,     \* how many environment events there have been
    faults      \*   ... and of which kinds

vars == <<users, member, inv, count, expiring, req, begun, answered, changed,
          events, faults>>

tables == <<users, member, inv>>
redis == <<count, expiring>>
answers == <<answered, changed>>

NoReq == [pc |-> "none"]

\* The state after the first register.
Init ==
    /\ users = [e \in Emails |->
                  IF e = Founder.email THEN [org |-> Founder.org, pwd |-> Founder.pwd]
                  ELSE None]
    /\ member = [o \in Orgs |-> [e \in Emails |->
                  IF o = Founder.org /\ e = Founder.email THEN "admin" ELSE None]]
    /\ inv = [i \in Invites |-> None]
    /\ count = [i \in Emails \cup {IP} |-> 0] /\ expiring = {}
    /\ req = [r \in Reqs |-> NoReq] /\ begun = 0
    /\ answered = {} /\ changed = {}
    /\ events = 0 /\ faults = {}

Event(e) ==
    /\ e \in Events
    /\ events < MaxEvents
    /\ events' = events + 1
    /\ faults' = faults \cup {e}

NoEvent == UNCHANGED <<events, faults>>

Goto(r, l) == req' = [req EXCEPT ![r].pc = l]

\* The request is answered, with an error unless answered says otherwise.
End(r) == req' = [req EXCEPT ![r] = NoReq]

-----------------------------------------------------------------------------
(* The requests, and the rate limit of those without a token.               *)

\* enforce_auth by address and, where the body names one, by email.
Login(e) == [pc |-> "limit", next |-> "login", limits |-> <<IP, e>>, email |-> e]
Register(e, o) == [pc |-> "limit", next |-> "register", limits |-> <<IP, e>>,
                   email |-> e, org |-> o]
AcceptInvite(i) == [pc |-> "limit", next |-> "accept", limits |-> <<IP>>,
                    inv |-> i, creating |-> FALSE, joining |-> FALSE]
Invite(a, o, e, role) == [pc |-> "invite", actor |-> a, org |-> o, email |-> e,
                          role |-> role]
ChangePassword(e, p) == [pc |-> "change", email |-> e, current |-> p]

\* The last two need a token, which only a user has.
Requests ==
    LET known == {e \in Emails : users[e] # None}
        issued == {i \in Invites : inv[i] # None}
    IN  {Login(e) : e \in Emails}
          \cup {Register(e, o) : e \in Emails, o \in Orgs}
          \cup {AcceptInvite(i) : i \in issued}
          \cup {Invite(a, o, e, x) : a \in known, o \in Orgs, e \in Emails, x \in Roles}
          \cup {ChangePassword(e, p) : e \in known, p \in Passwords}

Begin(r, m) ==
    /\ req[r] = NoReq
    /\ begun < MaxReqs
    /\ req' = [req EXCEPT ![r] = m]
    /\ begun' = begun + 1
    /\ UNCHANGED <<tables, redis, answers>>
    /\ NoEvent

\* enforce returns: the next identifier, or the handler.
Pass(r) ==
    req' = [req EXCEPT ![r].limits = Tail(@),
                       ![r].pc = IF Len(req[r].limits) > 1 THEN "limit"
                                 ELSE req[r].next]

\* enforce: INCR; the first hit has to start the window, one past the limit is
\* refused.
Enforce(r) ==
    /\ req[r].pc = "limit"
    /\ LET i == Head(req[r].limits) IN
        /\ count' = [count EXCEPT ![i] = @ + 1]
        /\ \/ count'[i] = 1 /\ Goto(r, "expire")
           \/ count'[i] > 1 /\ count'[i] <= Limit /\ Pass(r)
           \/ count'[i] > 1 /\ count'[i] > Limit /\ End(r)
    /\ UNCHANGED <<tables, expiring, begun, answers>>
    /\ NoEvent

\* Mutant: the window starts only once the limit is passed.
SetExpiryPastLimit(r) ==
    /\ req[r].pc = "expire"
    /\ expiring' = IF count[Head(req[r].limits)] > Limit
                   THEN expiring \cup {Head(req[r].limits)} ELSE expiring
    /\ Pass(r)
    /\ UNCHANGED <<tables, count, begun, answers>>
    /\ NoEvent

\* ... EXPIRE, by the request whose INCR returned 1.
SetExpiry(r) ==
    /\ req[r].pc = "expire"
    /\ expiring' = expiring \cup {Head(req[r].limits)}
    /\ Pass(r)
    /\ UNCHANGED <<tables, count, begun, answers>>
    /\ NoEvent

\* A Redis error lets the request through.  The INCR may have taken effect, and
\* a first one is then without its EXPIRE.
EnforceFails(r) ==
    /\ \/ /\ req[r].pc = "limit"
          /\ LET i == Head(req[r].limits) IN
             \/ UNCHANGED count /\ Event("redis")
             \/ /\ count' = [count EXCEPT ![i] = @ + 1]
                /\ Event(IF count[i] = 0 THEN "expire_lost" ELSE "redis")
       \/ req[r].pc = "expire" /\ Event("expire_lost") /\ UNCHANGED count
    /\ Pass(r)
    /\ UNCHANGED <<tables, expiring, begun, answers>>

\* The window of an identifier ends: Redis drops the key.
WindowEnds(i) ==
    /\ i \in expiring
    /\ count' = [count EXCEPT ![i] = 0]
    /\ expiring' = expiring \ {i}
    /\ UNCHANGED <<tables, req, begun, answers>>
    /\ NoEvent

-----------------------------------------------------------------------------
(* Users.                                                                   *)

Exists(e) == users[e] # None
OrgTaken(o) == \E e \in Emails : Exists(e) /\ users[e].org = o

\* authenticate_user: writes nothing.
LoginAnswers(r) ==
    /\ req[r].pc = "login"
    /\ End(r)
    /\ UNCHANGED <<tables, redis, begun, answers>>
    /\ NoEvent

\* register up to its commit: the organisation's name is flushed, the email
\* looked up.
RegisterCheck(r) ==
    /\ req[r].pc = "register"
    /\ IF OrgTaken(req[r].org) \/ Exists(req[r].email) THEN End(r)
       ELSE Goto(r, "register_commit")
    /\ UNCHANGED <<tables, redis, begun, answers>>
    /\ NoEvent

\* The unique columns orgs.name and users.email decide between two at once.
RegisterCommit(r) ==
    LET m == req[r] IN
    /\ m.pc = "register_commit"
    /\ IF OrgTaken(m.org) \/ Exists(m.email) THEN UNCHANGED <<users, member, answered>>
       ELSE /\ users' = [users EXCEPT ![m.email] = [org |-> m.org, pwd |-> r]]
            /\ member' = [member EXCEPT ![m.org][m.email] = "admin"]
            /\ answered' = answered \cup {[org |-> m.org, email |-> m.email,
                               pwd |-> r, role |-> "admin", new |-> TRUE]}
    /\ End(r)
    /\ UNCHANGED <<inv, redis, begun, changed>>
    /\ NoEvent

\* change_password: verified, then written.
ChangeCheck(r) ==
    /\ req[r].pc = "change"
    /\ IF Exists(req[r].email) /\ users[req[r].email].pwd = req[r].current
       THEN Goto(r, "change_commit") ELSE End(r)
    /\ UNCHANGED <<tables, redis, begun, answers>>
    /\ NoEvent

ChangeCommit(r) ==
    /\ req[r].pc = "change_commit"
    /\ users' = [users EXCEPT ![req[r].email].pwd = r]
    /\ changed' = changed \cup {req[r].email}
    /\ End(r)
    /\ UNCHANGED <<member, inv, redis, begun, answered>>
    /\ NoEvent

-----------------------------------------------------------------------------
(* Invitations.                                                             *)

\* require_team_admin.
IsAdmin(e, o) == member[o][e] = "admin"

\* No invitation for a member.
InviteCheck(r) ==
    LET m == req[r] IN
    /\ m.pc = "invite"
    /\ IF IsAdmin(m.actor, m.org) /\ member[m.org][m.email] = None
       THEN Goto(r, "invite_commit") ELSE End(r)
    /\ UNCHANGED <<tables, redis, begun, answers>>
    /\ NoEvent

InviteCommit(r, i) ==
    LET m == req[r] IN
    /\ m.pc = "invite_commit"
    /\ inv[i] = None
    /\ inv' = [inv EXCEPT ![i] = [org |-> m.org, email |-> m.email, role |-> m.role,
                                  status |-> "pending", late |-> FALSE]]
    /\ End(r)
    /\ UNCHANGED <<users, member, redis, begun, answers>>
    /\ NoEvent

\* INVITE_TTL_DAYS pass.
InviteExpires(i) ==
    /\ inv[i] # None /\ inv[i].status = "pending" /\ ~inv[i].late
    /\ inv' = [inv EXCEPT ![i].late = TRUE]
    /\ UNCHANGED <<users, member, redis, req, begun, answers>>
    /\ NoEvent

\* accept_invitation reads the invitation ...
AcceptRead(r) ==
    LET x == inv[req[r].inv] IN
    /\ req[r].pc = "accept"
    /\ \/ x.status # "pending" /\ End(r)
       \/ x.status = "pending" /\ x.late /\ Goto(r, "accept_revoke")
       \/ x.status = "pending" /\ ~x.late /\ Goto(r, "accept_user")
    /\ UNCHANGED <<tables, redis, begun, answers>>
    /\ NoEvent

\* ... revokes one that is too old, whatever became of it since ...
AcceptRevoke(r) ==
    /\ req[r].pc = "accept_revoke"
    /\ inv' = [inv EXCEPT ![req[r].inv].status = "revoked"]
    /\ End(r)
    /\ UNCHANGED <<users, member, redis, begun, answers>>
    /\ NoEvent

\* ... looks for the user ...
AcceptUser(r) ==
    /\ req[r].pc = "accept_user"
    /\ Goto(r, IF Exists(inv[req[r].inv].email) THEN "accept_member" ELSE "accept_create")
    /\ UNCHANGED <<tables, redis, begun, answers>>
    /\ NoEvent

\* ... creates it, unless create_user finds one by now ...
AcceptCreate(r) ==
    /\ req[r].pc = "accept_create"
    /\ IF Exists(inv[req[r].inv].email) THEN End(r)
       ELSE req' = [req EXCEPT ![r].pc = "accept_commit", ![r].creating = TRUE,
                               ![r].joining = TRUE]
    /\ UNCHANGED <<tables, redis, begun, answers>>
    /\ NoEvent

\* ... and otherwise looks for the membership.
AcceptMember(r) ==
    LET x == inv[req[r].inv] IN
    /\ req[r].pc = "accept_member"
    /\ req' = [req EXCEPT ![r].pc = "accept_commit",
                          ![r].joining = member[x.org][x.email] = None]
    /\ UNCHANGED <<tables, redis, begun, answers>>
    /\ NoEvent

\* Mutant: the password of the request is set for an existing user, too.
UserAfterResets(old, r) ==
    IF req[r].creating THEN [org |-> inv[req[r].inv].org, pwd |-> r]
    ELSE [old EXCEPT !.pwd = r]

\* The user's row after the acceptance r: an existing one is left alone.
UserAfter(old, r) ==
    IF req[r].creating THEN [org |-> inv[req[r].inv].org, pwd |-> r] ELSE old

\* The commit: users.email and uq_team_member decide between two at once.
AcceptCommit(r) ==
    LET m == req[r]
        x == inv[m.inv]
        clash == \/ m.creating /\ Exists(x.email)
                 \/ m.joining /\ member[x.org][x.email] # None
    IN
    /\ m.pc = "accept_commit"
    /\ IF clash THEN UNCHANGED <<users, member, inv, answered>>
       ELSE /\ users' = [users EXCEPT ![x.email] = UserAfter(@, r)]
            /\ member' = [member EXCEPT ![x.org][x.email] = IF m.joining THEN x.role ELSE @]
            /\ inv' = [inv EXCEPT ![m.inv].status = "accepted"]
            /\ answered' = answered \cup {[org |-> x.org, email |-> x.email,
                               pwd |-> r, role |-> member'[x.org][x.email],
                               new |-> m.creating]}
    /\ End(r)
    /\ UNCHANGED <<redis, begun, changed>>
    /\ NoEvent

-----------------------------------------------------------------------------
\* The app is killed: its requests are gone, a first INCR without its EXPIRE
\* stays.
Crash ==
    /\ \E r \in Reqs : req[r] # NoReq
    /\ Event(IF \E r \in Reqs : req[r].pc = "expire" THEN "expire_lost" ELSE "crash")
    /\ req' = [r \in Reqs |-> NoReq]
    /\ UNCHANGED <<tables, redis, begun, answers>>

RequestStep(r) ==
    \/ Enforce(r) \/ SetExpiry(r)
    \/ LoginAnswers(r) \/ RegisterCheck(r) \/ RegisterCommit(r)
    \/ ChangeCheck(r) \/ ChangeCommit(r)
    \/ InviteCheck(r) \/ \E i \in Invites : InviteCommit(r, i)
    \/ AcceptRead(r) \/ AcceptRevoke(r) \/ AcceptUser(r) \/ AcceptCreate(r)
    \/ AcceptMember(r) \/ AcceptCommit(r)

Next ==
    \/ \E r \in Reqs : \E m \in Requests : Begin(r, m)
    \/ \E r \in Reqs : RequestStep(r) \/ EnforceFails(r)
    \/ \E i \in Emails \cup {IP} : WindowEnds(i)
    \/ \E i \in Invites : InviteExpires(i)
    \/ Crash

Spec == Init /\ [][Next]_vars

\* The handlers of a running app go on, and time passes.
Fairness ==
    /\ \A r \in Reqs : WF_vars(RequestStep(r))
    /\ \A i \in Emails \cup {IP} : WF_vars(WindowEnds(i))

FairSpec == Spec /\ Fairness

-----------------------------------------------------------------------------
(* Properties.                                                              *)

\* A 201 stays true, whatever other requests do to the same address, team or
\* invitation: the user is a member with that role, and one that the request
\* created has its password until it is changed.  No user is without a team,
\* and every membership has its origin: the registration of the organisation,
\* or an invitation to that address with that role, which is used up.
AnswersHold ==
    /\ \A a \in answered :
         /\ Exists(a.email)
         /\ member[a.org][a.email] = a.role
         /\ a.new => users[a.email].pwd = a.pwd \/ a.email \in changed
    /\ \A e \in Emails : Exists(e) => \E o \in Orgs : member[o][e] # None
    /\ \A o \in Orgs, e \in Emails : member[o][e] # None =>
         \/ Exists(e) /\ users[e].org = o /\ member[o][e] = "admin"
         \/ \E i \in Invites :
              /\ inv[i] # None
              /\ inv[i].org = o /\ inv[i].email = e /\ inv[i].role = member[o][e]
              /\ inv[i].status = "accepted" \/ (inv[i].status = "revoked" /\ inv[i].late)

\* "A one-time invite token" (operator-console.md): a redemption that is answered 201
\* finds its invitation not yet accepted.
InviteUsedOnce ==
    [][\A r \in Reqs :
          req[r].pc = "accept_commit" /\ req'[r] = NoReq /\ answered' # answered =>
              inv[req[r].inv].status # "accepted"]_vars

\* A caller the limiter turns away is let in again: every counter past the limit
\* comes to its window's end, since the first hit sets the expiry.  Voided when
\* that second call fails or its process dies: the key then has none.
LimiterRecovers ==
    \A i \in Emails \cup {IP} :
        count[i] > Limit ~> (count[i] = 0 \/ "expire_lost" \in faults)
=============================================================================
