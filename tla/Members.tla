------------------------------- MODULE Members -------------------------------
(***************************************************************************)
(* The members of one organization and its invites.  An admin invites an   *)
(* address, its user accepts with the link, an owner changes a role or     *)
(* removes a member.  No request runs in a transaction: each step below is *)
(* one statement, and requests interleave between them.                    *)
(*                                                                         *)
(* memberships is unique per user and organization, and organization_      *)
(* invites per organization and address among the unaccepted, expired ones *)
(* included.                                                               *)
(***************************************************************************)
EXTENDS Naturals, FiniteSets

CONSTANTS
    User,      \* an address stands for its user
    Founders,  \* the owners at the start
    Invite,    \* rows of organization_invites, and the links they are mailed as
    Request,   \* requests the API serves at once
    MaxJoins,  \* bound on the memberships a user goes through
    NoUser, NoInvite

ASSUME MembersAssumption ==
    /\ Founders \subseteq User /\ Founders # {}
    /\ NoUser \notin User /\ NoInvite \notin Invite
    /\ MaxJoins \in Nat

Role == {"owner", "admin", "member"}

VARIABLES
    role,     \* role of each user's membership, "none" without one
    joins,    \* memberships created for each user: with the user, the row's id
    invite,   \* [for, role, state] of each invite
    expired,  \* invites past expires_at
    req,      \* what each request is doing
    clash     \* two requests of owners have overlapped (history)

vars == <<role, joins, invite, expired, req, clash>>

Kinds == {"none", "change", "remove", "invite", "accept"}

\* actor: who asks, where it still matters.  target, row: the membership acted
\* on, by user and row.  as: the role to give.  link: the invite used.
Idle == [kind |-> "none", pc |-> "idle", actor |-> NoUser, target |-> NoUser,
         row |-> 0, as |-> "member", link |-> NoInvite]

Init ==
    /\ role = [u \in User |-> IF u \in Founders THEN "owner" ELSE "none"]
    /\ joins = [u \in User |-> 0]
    /\ invite = [i \in Invite |-> [for |-> NoUser, role |-> "member", state |-> "absent"]]
    /\ expired = {}
    /\ req = [r \in Request |-> Idle]
    /\ clash = FALSE

Member(u) == role[u] # "none"
Owners    == {u \in User : role[u] = "owner"}
Pending(i) == invite[i].state = "pending"

Step(r, pc) == req' = [req EXCEPT ![r].pc = pc]
Finish(r)   == req' = [req EXCEPT ![r] = Idle]

members == <<role, joins>>
invites == <<invite, expired>>

-----------------------------------------------------------------------------
(* An owner changes a role or removes a member.                            *)

\* The middleware reads the actor's role; the membership is named by its id.
Administer(r, actor, target, kind, as) ==
    /\ req[r].pc = "idle"
    /\ role[actor] = "owner" /\ Member(target)
    /\ req' = [req EXCEPT ![r] = [Idle EXCEPT !.kind = kind, !.pc = "find",
                  !.actor = actor, !.target = target, !.row = joins[target], !.as = as]]
    /\ clash' = (clash \/ \E q \in Request : req[q].kind \in {"change", "remove"})
    /\ UNCHANGED <<members, invites>>

ThisRow(r) == Member(req[r].target) /\ joins[req[r].target] = req[r].row

\* findById.  Only the owner of a membership to be changed or removed is
\* counted; an owner cannot remove their own.
FindMembership(r) ==
    LET now == role[req[r].target] IN
    /\ req[r].pc = "find" /\ req[r].kind \in {"change", "remove"}
    /\ IF \/ ~ThisRow(r)
          \/ req[r].kind = "change" /\ now = req[r].as
          \/ req[r].kind = "remove" /\ req[r].target = req[r].actor
       THEN Finish(r)
       ELSE Step(r, IF now = "owner" THEN "count" ELSE "write")
    /\ UNCHANGED <<members, invites, clash>>

\* Mutant: the count lets the last owner go.
CountOwnersOffByOne(r) ==
    /\ req[r].pc = "count"
    /\ IF Cardinality(Owners) < 1 THEN Finish(r) ELSE Step(r, "write")
    /\ UNCHANGED <<members, invites, clash>>

CountOwners(r) ==
    /\ req[r].pc = "count"
    /\ IF Cardinality(Owners) <= 1 THEN Finish(r) ELSE Step(r, "write")
    /\ UNCHANGED <<members, invites, clash>>

\* save and delete find the row again, and fail when it is gone.
Write(r) ==
    LET u == req[r].target IN
    /\ req[r].pc = "write"
    /\ role' = IF ThisRow(r)
               THEN [role EXCEPT ![u] = IF req[r].kind = "change" THEN req[r].as ELSE "none"]
               ELSE role
    /\ Finish(r)
    /\ UNCHANGED <<joins, invites, clash>>

-----------------------------------------------------------------------------
(* An owner or an admin invites an address.                                *)

InviteUser(r, actor, u, as) ==
    /\ req[r].pc = "idle"
    /\ role[actor] \in {"owner", "admin"}
    /\ req' = [req EXCEPT ![r] = [Idle EXCEPT !.kind = "invite", !.pc = "clear",
                                  !.target = u, !.as = as]]
    /\ UNCHANGED <<members, invites, clash>>

\* deleteExpiredPendingByEmailAndOrg.
ClearExpired(r) ==
    /\ req[r].pc = "clear"
    /\ invite' = [i \in Invite |->
                    IF Pending(i) /\ i \in expired /\ invite[i].for = req[r].target
                    THEN [invite[i] EXCEPT !.state = "deleted"] ELSE invite[i]]
    /\ Step(r, "look")
    /\ UNCHANGED <<members, expired, clash>>

\* findPendingByEmailAndOrg: answered 409 when there is one.
LookForPending(r) ==
    /\ req[r].pc = "look"
    /\ IF \E i \in Invite : Pending(i) /\ i \notin expired /\ invite[i].for = req[r].target
       THEN Finish(r) ELSE Step(r, "save")
    /\ UNCHANGED <<members, invites, clash>>

\* The unique index answers 409 to the second of two invites that passed the
\* check together.
SaveInvite(r) ==
    /\ req[r].pc = "save"
    /\ \/ /\ \E i \in Invite : Pending(i) /\ invite[i].for = req[r].target
          /\ UNCHANGED invite
       \/ /\ ~\E i \in Invite : Pending(i) /\ invite[i].for = req[r].target
          /\ \E i \in Invite :
                /\ invite[i].state = "absent"
                /\ invite' = [invite EXCEPT ![i] = [for |-> req[r].target,
                                                    role |-> req[r].as,
                                                    state |-> "pending"]]
    /\ Finish(r)
    /\ UNCHANGED <<members, expired, clash>>

\* deleteById, when the invite's email could not be sent.
DropInvite(i) ==
    /\ invite[i].state \in {"pending", "accepted"}
    /\ invite' = [invite EXCEPT ![i].state = "deleted"]
    /\ UNCHANGED <<members, expired, req, clash>>

Expire(i) ==
    /\ Pending(i) /\ i \notin expired
    /\ expired' = expired \cup {i}
    /\ UNCHANGED <<members, invite, req, clash>>

-----------------------------------------------------------------------------
(* The invited user accepts with the link.                                 *)

\* The link is read as it is; one that is accepted, expired, or for somebody
\* else is refused.
AcceptInvite(r, i) ==
    /\ req[r].pc = "idle"
    /\ Pending(i) /\ i \notin expired
    /\ req' = [req EXCEPT ![r] = [Idle EXCEPT !.kind = "accept", !.pc = "check",
                  !.actor = invite[i].for, !.as = invite[i].role, !.link = i]]
    /\ UNCHANGED <<members, invites, clash>>

\* Mutant: the invite is marked before the membership is created.
CheckMarkingFirst(r) ==
    /\ req[r].pc = "check"
    /\ IF Member(req[r].actor)
       THEN Step(r, "mark") /\ UNCHANGED invite
       ELSE /\ Step(r, "create")
            /\ invite' = [invite EXCEPT ![req[r].link].state =
                              IF @ = "pending" THEN "accepted" ELSE @]
    /\ UNCHANGED <<members, expired, clash>>

\* findByUserAndOrg.
CheckMembership(r) ==
    /\ req[r].pc = "check"
    /\ Step(r, IF Member(req[r].actor) THEN "mark" ELSE "create")
    /\ UNCHANGED <<members, invites, clash>>

\* The unique constraint refuses a second membership: the request fails.
CreateMembership(r) ==
    LET u == req[r].actor IN
    /\ req[r].pc = "create"
    /\ IF Member(u)
       THEN Finish(r) /\ UNCHANGED members
       ELSE /\ joins[u] < MaxJoins
            /\ role' = [role EXCEPT ![u] = req[r].as]
            /\ joins' = [joins EXCEPT ![u] = @ + 1]
            /\ Step(r, "mark")
    /\ UNCHANGED <<invite, expired, clash>>

\* markAccepted, whatever has become of the invite.
MarkAccepted(r) ==
    /\ req[r].pc = "mark"
    /\ invite' = [invite EXCEPT ![req[r].link].state = IF @ = "pending" THEN "accepted" ELSE @]
    /\ Finish(r)
    /\ UNCHANGED <<members, expired, clash>>

\* A statement fails, or the process dies: what was written stays.
Fails(r) ==
    /\ req[r].pc # "idle"
    /\ Finish(r)
    /\ UNCHANGED <<members, invites, clash>>

-----------------------------------------------------------------------------
Handle(r) ==
    \/ FindMembership(r) \/ CountOwners(r) \/ Write(r)
    \/ ClearExpired(r) \/ LookForPending(r) \/ SaveInvite(r)
    \/ CheckMembership(r) \/ CreateMembership(r) \/ MarkAccepted(r)
    \/ Fails(r)

Ask(r) ==
    \/ \E actor, target \in User, as \in Role : Administer(r, actor, target, "change", as)
    \/ \E actor, target \in User : Administer(r, actor, target, "remove", "member")
    \/ \E actor, u \in User, as \in {"admin", "member"} : InviteUser(r, actor, u, as)
    \/ \E i \in Invite : AcceptInvite(r, i)

Next ==
    \/ \E r \in Request : Ask(r) \/ Handle(r)
    \/ \E i \in Invite : DropInvite(i) \/ Expire(i)

Spec == Init /\ [][Next]_vars

-----------------------------------------------------------------------------
(* What the organization keeps.                                            *)

\* The organization keeps an owner: "the last owner can be neither demoted nor
\* removed" (product-requirements).
AnOwnerRemains == Owners # {}

\* It keeps one as long as no two role changes or removals overlap, however many
\* invites and acceptances run beside them.
OwnerRemainsWithoutClash == clash \/ AnOwnerRemains

\* An invite is spent only on somebody it has let in, though the membership and
\* the mark are two transactions and either may fail.
SpentOnAMember ==
    \A i \in Invite :
        invite[i].state = "accepted" => invite[i].for \in Founders \/ joins[invite[i].for] > 0
=============================================================================
