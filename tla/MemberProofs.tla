---------------------------- MODULE MemberProofs ----------------------------
(***************************************************************************)
(* That an invite is spent only on somebody it let in, and that the        *)
(* organization keeps an owner while no two role changes or removals       *)
(* overlap, for any number of users, invites and requests.                 *)
(***************************************************************************)
EXTENDS Members, FiniteSetTheorems, TLAPS

InviteState == {"absent", "pending", "accepted", "deleted"}

ReqState ==
    [kind : Kinds,
     pc : {"idle", "find", "count", "write", "clear", "look", "save",
           "check", "create", "mark"},
     actor : User \cup {NoUser}, target : User \cup {NoUser}, row : Nat, as : Role,
     link : Invite \cup {NoInvite}]

TypeOK ==
    /\ role \in [User -> Role \cup {"none"}]
    /\ joins \in [User -> Nat]
    /\ invite \in [Invite -> [for : User \cup {NoUser}, role : Role, state : InviteState]]
    /\ expired \subseteq Invite
    /\ req \in [Request -> ReqState]
    /\ clash \in BOOLEAN

-----------------------------------------------------------------------------
(* Why an invite is spent on a member.                                     *)

Joined(u) == u \in Founders \/ joins[u] > 0

MembersJoined == \A u \in User : Member(u) => Joined(u)

\* An invite that was written has an address for good.
Addressed == \A i \in Invite : invite[i].state # "absent" => invite[i].for \in User

\* A request that invites has an address.  An acceptance acts for the address of
\* its link, and marks the link of somebody who has joined.  A role change or a
\* removal names a membership its user has had.
Sound(q) ==
    /\ q.pc \in {"clear", "look", "save"} => q.target \in User
    /\ q.pc \in {"check", "create", "mark"} =>
          /\ q.link \in Invite
          /\ invite[q.link].state # "absent" /\ q.actor = invite[q.link].for
    /\ q.pc = "mark" => Joined(q.actor)
    /\ q.pc \in {"find", "count", "write"} =>
          q.kind \in {"change", "remove"} /\ q.target \in User /\ q.row <= joins[q.target]

RequestsSound == \A r \in Request : Sound(req[r])

-----------------------------------------------------------------------------
(* Why an owner remains.                                                   *)

Administers(r) == req[r].kind \in {"change", "remove"}

Alone == ~clash => \A r, q \in Request : Administers(r) /\ Administers(q) => q = r

\* The owner about to be changed or removed is not the only one.
Spare(q) ==
    q.pc = "write" /\ role[q.target] = "owner" /\ joins[q.target] = q.row
        => Owners \ {q.target} # {}

SpareOwner == ~clash => \A r \in Request : Spare(req[r])

Inv ==
    /\ TypeOK
    /\ MembersJoined /\ Addressed /\ RequestsSound /\ SpentOnAMember
    /\ Alone /\ SpareOwner /\ OwnerRemainsWithoutClash

-----------------------------------------------------------------------------
LEMMA IdleType == Idle \in ReqState /\ Idle.pc = "idle" /\ Idle.kind = "none"
BY DEF Idle, ReqState, Kinds, Role

LEMMA InvInit == Init => Inv
<1> SUFFICES ASSUME Init PROVE Inv
  OBVIOUS
<1> USE IdleType DEF Init
<1>1. TypeOK
  BY MembersAssumption DEF TypeOK, InviteState, Role
<1>2. MembersJoined /\ Addressed /\ SpentOnAMember
  BY DEF MembersJoined, Member, Joined, Addressed, SpentOnAMember
<1>3. RequestsSound /\ Alone /\ SpareOwner
  BY DEF RequestsSound, Sound, Alone, Administers, SpareOwner, Spare
<1>4. OwnerRemainsWithoutClash
  BY MembersAssumption DEF OwnerRemainsWithoutClash, AnOwnerRemains, Owners
<1> QED
  BY <1>1, <1>2, <1>3, <1>4 DEF Inv

\* A step that leaves the memberships alone: invites keep their address, are
\* accepted only for somebody who has joined, and requests move on soundly.
LEMMA MembersStay ==
    ASSUME Inv, UNCHANGED members, clash' = clash, expired' \subseteq Invite,
           invite' \in [Invite -> [for : User \cup {NoUser}, role : Role, state : InviteState]],
           \A i \in Invite : invite[i].state # "absent" =>
               invite'[i].state # "absent" /\ invite'[i].for = invite[i].for,
           \A i \in Invite : invite'[i].state # "absent" => invite'[i].for \in User,
           \A i \in Invite : invite'[i].state = "accepted" =>
               invite[i].state = "accepted" \/ Joined(invite'[i].for),
           req' \in [Request -> ReqState],
           \A q \in Request : \/ req'[q] = req[q]
                             \/ /\ Sound(req'[q]) /\ Spare(req'[q])
                                /\ req'[q].kind \in {"change", "remove"} => Administers(q)
    PROVE  Inv'
<1> USE DEF members
<1>1. TypeOK' /\ MembersJoined' /\ Addressed'
  BY DEF Inv, TypeOK, MembersJoined, Member, Joined, Addressed
<1>2. SpentOnAMember'
  BY DEF Inv, SpentOnAMember, Joined
<1>3. ASSUME NEW q \in ReqState, Sound(q)
      PROVE  /\ q.pc \in {"clear", "look", "save"} => q.target \in User
             /\ q.pc \in {"check", "create", "mark"} =>
                   /\ q.link \in Invite
                   /\ invite'[q.link].state # "absent" /\ q.actor = invite'[q.link].for
             /\ q.pc = "mark" => q.actor \in Founders \/ joins'[q.actor] > 0
             /\ q.pc \in {"find", "count", "write"} =>
                   /\ q.kind \in {"change", "remove"} /\ q.target \in User
                   /\ q.row <= joins'[q.target]
  BY <1>3 DEF Sound, Joined
<1>4. \A r \in Request : Sound(req'[r])
  BY DEF Inv, RequestsSound
<1>5. RequestsSound'
  BY <1>3, <1>4 DEF RequestsSound, Sound, Joined
<1>6. Alone'
  BY DEF Inv, Alone, Administers
<1>7. SpareOwner' /\ OwnerRemainsWithoutClash'
  BY DEF Inv, SpareOwner, Spare, Owners, OwnerRemainsWithoutClash, AnOwnerRemains
<1> QED
  BY <1>1, <1>2, <1>5, <1>6, <1>7 DEF Inv

\* One request moves on, and nothing else.
LEMMA RequestMoves ==
    ASSUME Inv, NEW r \in Request, NEW rec \in ReqState, req' = [req EXCEPT ![r] = rec],
           UNCHANGED <<members, invites, clash>>,
           Sound(rec), Spare(rec), rec.kind \in {"change", "remove"} => Administers(r)
    PROVE  Inv'
<1>1. req' \in [Request -> ReqState]
  BY DEF Inv, TypeOK
<1>2. \A q \in Request : IF q = r THEN req'[q] = rec ELSE req'[q] = req[q]
  BY DEF Inv, TypeOK
<1>3. UNCHANGED <<members, clash, invite, expired>>
  BY DEF invites
<1>4. /\ invite \in [Invite -> [for : User \cup {NoUser}, role : Role, state : InviteState]]
      /\ expired \subseteq Invite
      /\ \A i \in Invite : invite[i].state # "absent" => invite[i].for \in User
  BY DEF Inv, TypeOK, Addressed
<1> QED
  BY <1>1, <1>2, <1>3, <1>4, MembersStay

\* Nothing is asked of a request that has ended.
LEMMA IdleIsSound == Sound(Idle) /\ Spare(Idle)
BY IdleType DEF Sound, Spare

LEMMA FinishKeepsInv ==
    ASSUME Inv, NEW r \in Request, Finish(r), UNCHANGED <<members, invites, clash>>
    PROVE  Inv'
BY IdleType, IdleIsSound, RequestMoves DEF Finish

\* The record of a request after Step.
At(r, pc) == [req[r] EXCEPT !.pc = pc]

LEMMA StepFacts ==
    ASSUME Inv, NEW r \in Request,
           NEW pc \in {"count", "write", "look", "save", "create", "mark"}, Step(r, pc)
    PROVE  /\ At(r, pc) \in ReqState /\ req' = [req EXCEPT ![r] = At(r, pc)]
           /\ At(r, pc).pc = pc
           /\ \A c \in {"kind", "actor", "target", "row", "as", "link"} :
                 At(r, pc)[c] = req[r][c]
           /\ \A q \in Request : req'[q] = IF q = r THEN At(r, pc) ELSE req[q]
BY DEF Step, At, Inv, TypeOK, ReqState

LEMMA StepKeepsInv ==
    ASSUME Inv, NEW r \in Request,
           NEW pc \in {"count", "write", "look", "save", "create", "mark"}, Step(r, pc),
           UNCHANGED <<members, invites, clash>>,
           Sound(At(r, pc)), Spare(At(r, pc))
    PROVE  Inv'
BY StepFacts, RequestMoves DEF Administers

-----------------------------------------------------------------------------
(* Role changes and removals.                                              *)

LEMMA AdministerKeepsInv ==
    ASSUME Inv, NEW r \in Request, NEW actor \in User, NEW target \in User,
           NEW kind \in {"change", "remove"}, NEW as \in Role,
           Administer(r, actor, target, kind, as)
    PROVE  Inv'
<1> DEFINE rec == [Idle EXCEPT !.kind = kind, !.pc = "find", !.actor = actor,
                               !.target = target, !.row = joins[target], !.as = as]
<1>1. joins[target] \in Nat
  BY DEF Inv, TypeOK
<1>2. /\ rec \in ReqState /\ rec.kind = kind /\ rec.pc = "find"
      /\ rec.target = target /\ rec.row = joins[target]
  BY <1>1 DEF Idle, ReqState, Kinds
<1>3. /\ req' = [req EXCEPT ![r] = rec] /\ UNCHANGED <<members, invites>>
      /\ clash' = (clash \/ \E q \in Request : Administers(q))
  BY DEF Administer, Administers
<1> HIDE DEF rec
<1>4. \A q \in Request : req'[q] = IF q = r THEN rec ELSE req[q]
  BY <1>3 DEF Inv, TypeOK
<1>5. TypeOK' /\ MembersJoined' /\ Addressed' /\ SpentOnAMember'
  BY <1>2, <1>3 DEF Inv, TypeOK, MembersJoined, Member, Joined, Addressed, SpentOnAMember,
                    members, invites
<1>6. RequestsSound'
  BY <1>1, <1>2, <1>3, <1>4 DEF Inv, RequestsSound, Sound, Joined, members, invites
<1>7. Alone'
  BY <1>2, <1>3, <1>4 DEF Inv, Alone, Administers
<1>8. role' = role /\ joins' = joins /\ Owners' = Owners /\ (clash => clash')
  BY <1>3 DEF members, Owners
<1>9. SpareOwner'
  <2>1. \A q \in Request : ~clash => Spare(req'[q])
    BY <1>2, <1>4 DEF Inv, SpareOwner, Spare
  <2> QED
    BY <1>8, <2>1 DEF SpareOwner, Spare
<1>10. OwnerRemainsWithoutClash'
  BY <1>8 DEF Inv, OwnerRemainsWithoutClash, AnOwnerRemains
<1> QED
  BY <1>5, <1>6, <1>7, <1>9, <1>10 DEF Inv

LEMMA FindMembershipKeepsInv == ASSUME Inv, NEW r \in Request, FindMembership(r) PROVE Inv'
<1>1. req[r].pc = "find" /\ UNCHANGED <<members, invites, clash>>
  BY DEF FindMembership
<1>2. CASE Finish(r)
  BY <1>1, <1>2, FinishKeepsInv
<1>3. ASSUME NEW pc \in {"count", "write"}, Step(r, pc),
             pc = "write" => role[req[r].target] # "owner"
      PROVE  Inv'
  <2>1. Sound(At(r, pc)) /\ Spare(At(r, pc))
    BY <1>1, <1>3, StepFacts DEF Inv, RequestsSound, Sound, Spare
  <2> QED
    BY <1>1, <1>3, <2>1, StepKeepsInv
<1> QED
  BY <1>2, <1>3 DEF FindMembership

\* Whoever is not the only owner leaves another one behind.
LEMMA CountLeavesOne ==
    ASSUME NEW u, ~(Cardinality(Owners) <= 1)
    PROVE  Owners \ {u} # {}
<1>1. ASSUME Owners \ {u} = {} PROVE Owners = {} \/ Owners = {u}
  BY <1>1
<1>2. Cardinality({}) = 0 /\ Cardinality({u}) = 1
  BY FS_EmptySet, FS_Singleton
<1> QED
  BY <1>1, <1>2

LEMMA CountOwnersKeepsInv == ASSUME Inv, NEW r \in Request, CountOwners(r) PROVE Inv'
<1>1. req[r].pc = "count" /\ UNCHANGED <<members, invites, clash>>
  BY DEF CountOwners
<1>2. CASE Cardinality(Owners) <= 1
  BY <1>1, <1>2, FinishKeepsInv DEF CountOwners
<1>3. CASE ~(Cardinality(Owners) <= 1)
  <2>1. Step(r, "write")
    BY <1>3 DEF CountOwners
  <2>2. Owners \ {req[r].target} # {}
    BY <1>3, CountLeavesOne
  <2>3. Sound(At(r, "write")) /\ Spare(At(r, "write"))
    BY <1>1, <2>1, <2>2, StepFacts DEF Inv, RequestsSound, Sound, Spare
  <2> QED
    BY <1>1, <2>1, <2>3, StepKeepsInv
<1> QED
  BY <1>2, <1>3

LEMMA WriteKeepsInv == ASSUME Inv, NEW r \in Request, Write(r) PROVE Inv'
<1> DEFINE u == req[r].target
<1>1. req[r].pc = "write" /\ Finish(r) /\ UNCHANGED <<joins, invites, clash>>
  BY DEF Write
<1>2. Administers(r) /\ u \in User
  BY <1>1 DEF Inv, RequestsSound, Sound, Administers
<1>3. \A q \in Request : req'[q] = IF q = r THEN Idle ELSE req[q]
  BY <1>1 DEF Finish, Inv, TypeOK
<1>4. CASE ~ThisRow(r)
  BY <1>1, <1>4, FinishKeepsInv DEF Write, members
<1>5. CASE ThisRow(r)
  <2> DEFINE new == IF req[r].kind = "change" THEN req[r].as ELSE "none"
  <2>1. role' = [role EXCEPT ![u] = new] /\ Member(u) /\ joins[u] = req[r].row
    BY <1>5 DEF Write, ThisRow
  <2>2. new \in Role \cup {"none"}
    BY DEF Inv, TypeOK, ReqState
  <2> HIDE DEF new
  <2>3. \A v \in User : role'[v] = IF v = u THEN new ELSE role[v]
    BY <1>2, <2>1 DEF Inv, TypeOK
  <2> HIDE DEF u
  <2>4. TypeOK'
    BY <1>1, <1>2, <2>1, <2>2, IdleType DEF Inv, TypeOK, Finish, invites
  <2>5. MembersJoined' /\ Addressed' /\ SpentOnAMember'
    BY <1>1, <2>1, <2>3
       DEF Inv, MembersJoined, Member, Joined, Addressed, SpentOnAMember, invites
  <2>6. \A q \in Request : Sound(req'[q])
    BY <1>3, IdleIsSound DEF Inv, RequestsSound
  <2>7. RequestsSound'
    BY <1>1, <2>6 DEF RequestsSound, Sound, Joined, invites
  <2>8. Alone'
    BY <1>1, <1>3, IdleType DEF Inv, Alone, Administers
  <2>9. SpareOwner'
    <3>1. ASSUME ~clash, NEW q \in Request PROVE req'[q].pc # "write"
      <4>1. req[q].pc = "write" => Administers(q)
        BY DEF Inv, RequestsSound, Sound, Administers
      <4> QED
        BY <1>2, <1>3, <3>1, <4>1, IdleType DEF Inv, Alone
    <3> QED
      BY <1>1, <3>1 DEF SpareOwner, Spare
  <2>10. OwnerRemainsWithoutClash'
    <3>1. CASE clash
      BY <1>1, <3>1 DEF OwnerRemainsWithoutClash
    <3>2. CASE ~clash /\ role[u] = "owner"
      <4>1. Owners \ {u} # {}
        BY <1>1, <2>1, <3>2 DEF Inv, SpareOwner, Spare, u
      <4> QED
        BY <2>3, <4>1 DEF OwnerRemainsWithoutClash, AnOwnerRemains, Owners
    <3>3. CASE ~clash /\ role[u] # "owner"
      BY <2>3, <3>3 DEF Inv, OwnerRemainsWithoutClash, AnOwnerRemains, Owners
    <3> QED
      BY <3>1, <3>2, <3>3
  <2> QED
    BY <2>4, <2>5, <2>7, <2>8, <2>9, <2>10 DEF Inv
<1> QED
  BY <1>4, <1>5

-----------------------------------------------------------------------------
(* Invites.                                                                *)

LEMMA InviteUserKeepsInv ==
    ASSUME Inv, NEW r \in Request, NEW actor \in User, NEW u \in User, NEW as \in Role,
           InviteUser(r, actor, u, as)
    PROVE  Inv'
<1> DEFINE rec == [Idle EXCEPT !.kind = "invite", !.pc = "clear", !.target = u, !.as = as]
<1>1. rec \in ReqState /\ rec.kind = "invite" /\ rec.pc = "clear" /\ rec.target = u
  BY DEF Idle, ReqState, Kinds
<1>2. req' = [req EXCEPT ![r] = rec] /\ UNCHANGED <<members, invites, clash>>
  BY DEF InviteUser
<1> HIDE DEF rec
<1>3. Sound(rec) /\ Spare(rec)
  BY <1>1 DEF Sound, Spare
<1> QED
  BY <1>1, <1>2, <1>3, RequestMoves

LEMMA AcceptInviteKeepsInv ==
    ASSUME Inv, NEW r \in Request, NEW i \in Invite, AcceptInvite(r, i)
    PROVE  Inv'
<1> DEFINE rec == [Idle EXCEPT !.kind = "accept", !.pc = "check", !.actor = invite[i].for,
                               !.as = invite[i].role, !.link = i]
<1>1. invite[i].for \in User /\ invite[i].role \in Role /\ invite[i].state = "pending"
  BY DEF AcceptInvite, Pending, Inv, TypeOK, Addressed
<1>2. /\ rec \in ReqState /\ rec.kind = "accept" /\ rec.pc = "check"
      /\ rec.link = i /\ rec.actor = invite[i].for
  BY <1>1 DEF Idle, ReqState, Kinds
<1>3. req' = [req EXCEPT ![r] = rec] /\ UNCHANGED <<members, invites, clash>>
  BY DEF AcceptInvite
<1> HIDE DEF rec
<1>4. Sound(rec) /\ Spare(rec)
  BY <1>1, <1>2 DEF Sound, Spare
<1> QED
  BY <1>2, <1>3, <1>4, RequestMoves

LEMMA ClearExpiredKeepsInv == ASSUME Inv, NEW r \in Request, ClearExpired(r) PROVE Inv'
<1>1. /\ req[r].pc = "clear" /\ Step(r, "look")
      /\ UNCHANGED <<members, expired, clash>>
  BY DEF ClearExpired
<1>2. /\ invite' \in [Invite -> [for : User \cup {NoUser}, role : Role, state : InviteState]]
      /\ \A i \in Invite :
            /\ invite'[i].for = invite[i].for
            /\ \/ invite'[i].state = invite[i].state
               \/ invite[i].state = "pending" /\ invite'[i].state = "deleted"
  BY DEF ClearExpired, Pending, Inv, TypeOK, InviteState
<1>3. req' \in [Request -> ReqState]
  BY <1>1, StepFacts DEF Inv, TypeOK
<1>4. Sound(At(r, "look")) /\ Spare(At(r, "look"))
  BY <1>1, StepFacts DEF Inv, RequestsSound, Sound, Spare
<1>5. /\ expired' \subseteq Invite
      /\ \A i \in Invite : invite[i].state # "absent" => invite[i].for \in User
  BY <1>1 DEF Inv, TypeOK, Addressed
<1>6. \A q \in Request : \/ req'[q] = req[q]
                         \/ /\ Sound(req'[q]) /\ Spare(req'[q])
                            /\ req'[q].kind \in {"change", "remove"} => Administers(q)
  BY <1>1, <1>4, StepFacts DEF Administers
<1> QED
  BY <1>1, <1>2, <1>3, <1>5, <1>6, MembersStay

LEMMA LookForPendingKeepsInv ==
    ASSUME Inv, NEW r \in Request, LookForPending(r) PROVE Inv'
<1>1. req[r].pc = "look" /\ UNCHANGED <<members, invites, clash>>
  BY DEF LookForPending
<1>2. CASE Step(r, "save")
  <2>1. Sound(At(r, "save")) /\ Spare(At(r, "save"))
    BY <1>1, <1>2, StepFacts DEF Inv, RequestsSound, Sound, Spare
  <2> QED
    BY <1>1, <1>2, <2>1, StepKeepsInv
<1>3. CASE Finish(r)
  BY <1>1, <1>3, FinishKeepsInv
<1> QED
  BY <1>2, <1>3 DEF LookForPending

LEMMA SaveInviteKeepsInv == ASSUME Inv, NEW r \in Request, SaveInvite(r) PROVE Inv'
<1>1. req[r].pc = "save" /\ Finish(r) /\ UNCHANGED <<members, expired, clash>>
  BY DEF SaveInvite
<1>2. CASE UNCHANGED invite
  BY <1>1, <1>2, FinishKeepsInv DEF invites
<1>3. ASSUME NEW i \in Invite, invite[i].state = "absent",
             invite' = [invite EXCEPT ![i] = [for |-> req[r].target, role |-> req[r].as,
                                              state |-> "pending"]]
      PROVE  Inv'
  <2> DEFINE row == [for |-> req[r].target, role |-> req[r].as, state |-> "pending"]
  <2>1. req[r].target \in User /\ req[r].as \in Role
    BY <1>1 DEF Inv, RequestsSound, Sound, TypeOK, ReqState
  <2>2. /\ row \in [for : User \cup {NoUser}, role : Role, state : InviteState]
        /\ row.state = "pending" /\ row.for \in User
    BY <2>1 DEF InviteState
  <2>3. invite' = [invite EXCEPT ![i] = row]
    BY <1>3
  <2> HIDE DEF row
  <2>4. /\ invite' \in [Invite -> [for : User \cup {NoUser}, role : Role, state : InviteState]]
        /\ \A k \in Invite : invite'[k] = IF k = i THEN row ELSE invite[k]
    BY <2>2, <2>3 DEF Inv, TypeOK
  <2>5. /\ expired' \subseteq Invite
        /\ \A k \in Invite : invite[k].state # "absent" => invite[k].for \in User
    BY <1>1 DEF Inv, TypeOK, Addressed
  <2>6. /\ req' \in [Request -> ReqState]
        /\ \A q \in Request : req'[q] = req[q] \/ req'[q] = Idle
    BY <1>1, IdleType DEF Inv, TypeOK, Finish
  <2>7. \A q \in Request : \/ req'[q] = req[q]
                           \/ /\ Sound(req'[q]) /\ Spare(req'[q])
                              /\ req'[q].kind \in {"change", "remove"} => Administers(q)
    BY <2>6, IdleType, IdleIsSound
  <2>8. /\ \A k \in Invite : invite[k].state # "absent" =>
              invite'[k].state # "absent" /\ invite'[k].for = invite[k].for
        /\ \A k \in Invite : invite'[k].state # "absent" => invite'[k].for \in User
        /\ \A k \in Invite : invite'[k].state = "accepted" =>
              invite[k].state = "accepted" \/ Joined(invite'[k].for)
    BY <1>3, <2>2, <2>4, <2>5
  <2> QED
    BY <1>1, <2>4, <2>5, <2>6, <2>7, <2>8, MembersStay
<1> QED
  BY <1>2, <1>3 DEF SaveInvite

\* The state of one invite that was written changes, by itself or with a request.
LEMMA InviteTurns ==
    ASSUME Inv, NEW i \in Invite, NEW state \in {"pending", "accepted", "deleted"},
           invite[i].state # "absent", invite' = [invite EXCEPT ![i].state = state],
           state = "accepted" => invite[i].state = "accepted" \/ Joined(invite[i].for),
           UNCHANGED <<members, expired, clash>>,
           req' = req \/ \E r \in Request : Finish(r)
    PROVE  Inv'
<1>1. /\ invite' \in [Invite -> [for : User \cup {NoUser}, role : Role, state : InviteState]]
      /\ \A k \in Invite :
            /\ invite'[k].for = invite[k].for
            /\ invite'[k].state = IF k = i THEN state ELSE invite[k].state
  BY DEF Inv, TypeOK, InviteState
<1>2. /\ expired' \subseteq Invite
      /\ \A k \in Invite : invite[k].state # "absent" => invite[k].for \in User
  BY DEF Inv, TypeOK, Addressed
<1>3. /\ req' \in [Request -> ReqState]
      /\ \A q \in Request : req'[q] = req[q] \/ req'[q] = Idle
  BY IdleType DEF Inv, TypeOK, Finish
<1>4. \A q \in Request : \/ req'[q] = req[q]
                         \/ /\ Sound(req'[q]) /\ Spare(req'[q])
                            /\ req'[q].kind \in {"change", "remove"} => Administers(q)
  BY <1>3, IdleType, IdleIsSound
<1>5. /\ \A k \in Invite : invite[k].state # "absent" =>
            invite'[k].state # "absent" /\ invite'[k].for = invite[k].for
      /\ \A k \in Invite : invite'[k].state # "absent" => invite'[k].for \in User
      /\ \A k \in Invite : invite'[k].state = "accepted" =>
            invite[k].state = "accepted" \/ Joined(invite'[k].for)
  BY <1>1, <1>2
<1> QED
  BY <1>1, <1>2, <1>3, <1>4, <1>5, MembersStay

LEMMA InviteStepsKeepInv ==
    ASSUME Inv, NEW i \in Invite, DropInvite(i) \/ Expire(i)
    PROVE  Inv'
<1>1. CASE DropInvite(i)
  BY <1>1, InviteTurns DEF DropInvite
<1>2. CASE Expire(i)
  BY <1>2, MembersStay DEF Expire, Inv, TypeOK, Addressed
<1> QED
  BY <1>1, <1>2

-----------------------------------------------------------------------------
(* Acceptances.                                                            *)

LEMMA AcceptingFacts ==
    ASSUME Inv, NEW r \in Request, req[r].pc \in {"check", "create", "mark"}
    PROVE  /\ req[r].link \in Invite /\ invite[req[r].link].state # "absent"
           /\ req[r].actor = invite[req[r].link].for /\ req[r].actor \in User
           /\ req[r].pc = "mark" => Joined(req[r].actor)
BY DEF Inv, RequestsSound, Sound, Addressed

LEMMA CheckMembershipKeepsInv ==
    ASSUME Inv, NEW r \in Request, CheckMembership(r) PROVE Inv'
<1>1. req[r].pc = "check" /\ UNCHANGED <<members, invites, clash>>
  BY DEF CheckMembership
<1>2. ASSUME NEW pc \in {"mark", "create"}, Step(r, pc), pc = "mark" => Member(req[r].actor)
      PROVE  Inv'
  <2>1. pc = "mark" => Joined(req[r].actor)
    BY <1>1, <1>2, AcceptingFacts DEF Inv, MembersJoined
  <2>2. Sound(At(r, pc)) /\ Spare(At(r, pc))
    BY <1>1, <1>2, <2>1, AcceptingFacts, StepFacts DEF Sound, Spare
  <2> QED
    BY <1>1, <1>2, <2>2, StepKeepsInv
<1> QED
  BY <1>2 DEF CheckMembership

LEMMA CreateMembershipKeepsInv ==
    ASSUME Inv, NEW r \in Request, CreateMembership(r) PROVE Inv'
<1>1. req[r].pc = "create" /\ UNCHANGED <<invite, expired, clash>>
  BY DEF CreateMembership
<1>2. PICK u \in User : u = req[r].actor
  BY <1>1, AcceptingFacts
<1>3. CASE Member(u)
  BY <1>1, <1>2, <1>3, FinishKeepsInv DEF CreateMembership, invites
<1>4. CASE ~Member(u)
  <2>1. /\ role' = [role EXCEPT ![u] = req[r].as]
        /\ joins' = [joins EXCEPT ![u] = @ + 1]
        /\ Step(r, "mark")
    BY <1>2, <1>4 DEF CreateMembership
  <2>2. req[r].as \in Role /\ role[u] = "none"
    BY <1>2, <1>4 DEF Inv, TypeOK, ReqState, Member
  <2>3. PICK rec \in ReqState :
        /\ req' = [req EXCEPT ![r] = rec]
        /\ rec.pc = "mark" /\ rec.kind = req[r].kind /\ rec.actor = u
        /\ rec.link = req[r].link
        /\ \A q \in Request : req'[q] = IF q = r THEN rec ELSE req[q]
    BY <1>2, <2>1, StepFacts
  <2>4. \A v \in User : /\ joins[v] \in Nat
                        /\ role'[v] = IF v = u THEN req[r].as ELSE role[v]
                        /\ joins'[v] = IF v = u THEN joins[u] + 1 ELSE joins[v]
    BY <1>1, <2>1 DEF Inv, TypeOK
  <2>5. TypeOK'
    BY <1>1, <2>1, <2>2, <2>3 DEF Inv, TypeOK
  <2>6. \A v \in User : (Joined(v) => Joined(v)') /\ Joined(u)'
    BY <1>1, <2>4 DEF Joined
  <2>7. MembersJoined' /\ Addressed' /\ SpentOnAMember'
    <3>1. MembersJoined' /\ Addressed'
      BY <1>1, <2>4, <2>6 DEF Inv, MembersJoined, Member, Addressed
    <3>2. \A i \in Invite : invite[i].state = "accepted" => invite[i].for \in User
      BY DEF Inv, Addressed
    <3>3. SpentOnAMember'
      BY <1>1, <2>6, <3>2 DEF Inv, SpentOnAMember, Joined
    <3> QED
      BY <3>1, <3>3
  <2>8. RequestsSound'
    <3>1. ASSUME NEW p \in ReqState, Sound(p)
          PROVE  Sound(p)'
      <4>1. p.pc = "mark" => p.actor \in User /\ Joined(p.actor)'
        BY <2>6, <3>1 DEF Sound, Inv, Addressed
      <4>2. p.pc \in {"find", "count", "write"} => p.row <= joins'[p.target]
        BY <2>4, <3>1 DEF Sound, ReqState
      <4> QED
        BY <1>1, <3>1, <4>1, <4>2 DEF Sound
    <3>2. Sound(rec)'
      BY <1>1, <1>2, <2>3, <2>6, AcceptingFacts DEF Sound
    <3>3. \A q \in Request : req'[q] = rec \/ (req'[q] \in ReqState /\ Sound(req'[q]))
      BY <2>3 DEF Inv, RequestsSound, TypeOK
    <3> QED
      BY <3>1, <3>2, <3>3 DEF RequestsSound, Sound, Joined
  <2>9. Alone'
    BY <1>1, <2>3 DEF Inv, Alone, Administers
  <2>10. Owners \subseteq Owners'
    BY <2>2, <2>4 DEF Owners
  <2>11. SpareOwner'
    <3>1. ASSUME NEW q \in Request, Spare(req[q]), req[q].pc = "write" PROVE Spare(req[q])'
      <4>1. req[q].target \in User /\ req[q].row <= joins[req[q].target]
        BY <3>1 DEF Inv, RequestsSound, Sound
      <4>2. req[q].target = u => joins'[u] # req[q].row
        BY <2>4, <4>1 DEF Inv, TypeOK, ReqState
      <4>3. req[q].target # u =>
                /\ role'[req[q].target] = role[req[q].target]
                /\ joins'[req[q].target] = joins[req[q].target]
        BY <2>4, <4>1
      <4>4. req'[q] = req[q]
        BY <1>1, <2>3, <3>1
      <4> QED
        BY <2>10, <3>1, <4>1, <4>2, <4>3, <4>4 DEF Spare
    <3>2. \A q \in Request : req'[q].pc = "write" => req[q].pc = "write" /\ q # r
      BY <1>1, <2>3
    <3>3. \A q \in Request : q # r => req'[q] = req[q]
      BY <2>3
    <3> QED
      BY <1>1, <3>1, <3>2, <3>3 DEF Inv, SpareOwner, Spare
  <2>12. OwnerRemainsWithoutClash'
    BY <1>1, <2>10 DEF Inv, OwnerRemainsWithoutClash, AnOwnerRemains
  <2> QED
    BY <2>5, <2>7, <2>8, <2>9, <2>11, <2>12 DEF Inv
<1> QED
  BY <1>3, <1>4

LEMMA MarkAcceptedKeepsInv == ASSUME Inv, NEW r \in Request, MarkAccepted(r) PROVE Inv'
<1> DEFINE i == req[r].link
           state == IF invite[i].state = "pending" THEN "accepted" ELSE invite[i].state
<1>1. /\ i \in Invite /\ invite[i].state # "absent" /\ Joined(invite[i].for)
      /\ invite[i].state \in InviteState
  BY AcceptingFacts DEF MarkAccepted, Inv, TypeOK
<1>2. invite' = [invite EXCEPT ![i].state = state]
  BY DEF MarkAccepted
<1>3. state \in {"pending", "accepted", "deleted"}
  BY <1>1 DEF InviteState
<1>4. Finish(r) /\ UNCHANGED <<members, expired, clash>>
  BY DEF MarkAccepted
<1> HIDE DEF i, state
<1> QED
  BY <1>1, <1>2, <1>3, <1>4, InviteTurns

-----------------------------------------------------------------------------
LEMMA AskKeepsInv == ASSUME Inv, NEW r \in Request, Ask(r) PROVE Inv'
<1>1. {"admin", "member"} \subseteq Role
  BY DEF Role
<1> QED
  BY <1>1, AdministerKeepsInv, InviteUserKeepsInv, AcceptInviteKeepsInv DEF Ask

LEMMA HandleKeepsInv == ASSUME Inv, NEW r \in Request, Handle(r) PROVE Inv'
<1>1. CASE Fails(r)
  BY <1>1, FinishKeepsInv DEF Fails
<1> QED
  BY <1>1, FindMembershipKeepsInv, CountOwnersKeepsInv, WriteKeepsInv,
     ClearExpiredKeepsInv, LookForPendingKeepsInv, SaveInviteKeepsInv,
     CheckMembershipKeepsInv, CreateMembershipKeepsInv, MarkAcceptedKeepsInv
     DEF Handle

LEMMA InvNext == Inv /\ [Next]_vars => Inv'
<1> SUFFICES ASSUME Inv, [Next]_vars PROVE Inv'
  OBVIOUS
<1>1. ASSUME NEW r \in Request, Ask(r) \/ Handle(r) PROVE Inv'
  BY <1>1, AskKeepsInv, HandleKeepsInv
<1>2. ASSUME NEW i \in Invite, DropInvite(i) \/ Expire(i) PROVE Inv'
  BY <1>2, InviteStepsKeepInv
<1>3. CASE UNCHANGED vars
  BY <1>3, MembersStay DEF vars, members, Inv, TypeOK, Addressed
<1> QED
  BY <1>1, <1>2, <1>3 DEF Next

LEMMA Inductive == Spec => []Inv
<1> QED
  BY InvInit, InvNext, PTL DEF Spec

\* The membership and the mark are two transactions: whichever fails, and however
\* acceptances and removals interleave, an invite is spent only on somebody it let in.
THEOREM SpentOnMembers == Spec => []SpentOnAMember
<1>1. Inv => SpentOnAMember
  BY DEF Inv
<1> QED
  BY <1>1, Inductive, PTL

\* The last owner goes only when two role changes or removals overlap: no invite,
\* acceptance or failure beside a single one takes the organization's owner.
THEOREM OwnerRemains == Spec => []OwnerRemainsWithoutClash
<1>1. Inv => OwnerRemainsWithoutClash
  BY DEF Inv
<1> QED
  BY <1>1, Inductive, PTL
=============================================================================
