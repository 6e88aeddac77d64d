--------------------------- MODULE RefreshSessions ---------------------------
(***************************************************************************)
(* Refresh tokens of one user: issued in families, rotated at each         *)
(* /auth/refresh, revoked by family on reuse, on logout and on an          *)
(* organization switch.  Families of different users share nothing.        *)
(*                                                                         *)
(* The steps are database statements under READ COMMITTED.  A rotation     *)
(* locks the presented row (SELECT ... FOR UPDATE) until its transaction   *)
(* ends.  revokeFamily is one UPDATE: it picks the unrevoked rows of the   *)
(* family when it begins, waits for those a rotation has locked, and then  *)
(* revokes the ones that are still unrevoked; a row committed after it     *)
(* began is not touched.                                                   *)
(*                                                                         *)
(* A transaction and a waiting UPDATE each keep a connection of the pool,  *)
(* and a rotation asks for another one in the middle of its transaction.   *)
(***************************************************************************)
EXTENDS Naturals, FiniteSets

CONSTANTS
    Tokens,     \* rows of refresh_tokens there can be
    Request,    \* requests the API serves at once
    Pool        \* connections of the process (DB_POOL_MAX)

ASSUME TokenAssumption == Tokens \in Nat
ASSUME PoolAssumption == Pool \in Nat \ {0}

\* Rows, and the raw tokens clients hold, numbered as they are issued.
Token == 1..Tokens
NoToken == 0

VARIABLES
    status,     \* "absent", "live" (revoked_at IS NULL) or "revoked"
    expired,    \* tokens past expires_at
    family,     \* family_id, named by the first token of the family
    replacedBy, \* replaced_by_id
    req,        \* what each request is doing
    ended       \* families a logout or a reuse answer has ended (history)

table == <<status, expired, family, replacedBy>>
vars  == <<table, req, ended>>

\* todo: families whose UPDATE has not begun; begun: those whose UPDATE waits,
\* with the rows it picked in `picked`.
Idle == [kind |-> "none", pc |-> "idle", tok |-> NoToken,
         todo |-> {}, begun |-> {}, picked |-> {}]

Kinds == {"none", "rotate", "reuse", "expired", "logout", "switch", "failed"}

Init ==
    /\ status = [t \in Token |-> "absent"]
    /\ expired = {}
    /\ family = [t \in Token |-> NoToken]
    /\ replacedBy = [t \in Token |-> NoToken]
    /\ req = [r \in Request |-> Idle]
    /\ ended = {}

Live(t)   == status[t] = "live"
LiveIn(f) == {t \in Token : Live(t) /\ family[t] = f}
Fresh     == {t \in Token : status[t] = "absent"}
NewRow(t) == t \in Fresh /\ \A u \in Fresh : t <= u

\* The connections in use between two steps; other statements give theirs back.
InUse ==
    Cardinality({r \in Request : req[r].pc \in {"find", "check", "commit"}})
        + Cardinality({p \in Request \X Token : p[2] \in req[p[1]].begun})

Full == InUse >= Pool

\* Mutant: revokeFamily called inside the rotation's transaction.
HoldsUntilRevoked(r, t) ==
    req[r].kind \notin {"none", "logout", "switch"} /\ req[r].pc # "find" /\ req[r].tok = t

\* A rotation between its SELECT ... FOR UPDATE and the end of its transaction.
Holds(r, t) == req[r].pc \in {"check", "commit"} /\ req[r].tok = t

\* Mutant: the presented row is read without FOR UPDATE.
NeverLocked(t) == FALSE

Locked(t)   == \E r \in Request : Holds(r, t)

Step(r, pc) == req' = [req EXCEPT ![r].pc = pc]
Finish(r)   == req' = [req EXCEPT ![r] = Idle]

-----------------------------------------------------------------------------
(* Issuing a first token: login, registration, the end of a switch.        *)

StartFamily(t) ==
    /\ NewRow(t)
    /\ status' = [status EXCEPT ![t] = "live"]
    /\ family' = [family EXCEPT ![t] = t]
    /\ UNCHANGED <<expired, replacedBy>>

Login ==
    /\ \E t \in Token : StartFamily(t)
    /\ UNCHANGED <<req, ended>>

\* Of a revoked token nobody asks whether it has expired.
Expire(t) ==
    /\ Live(t) /\ t \notin expired
    /\ expired' = expired \cup {t}
    /\ UNCHANGED <<status, family, replacedBy, req, ended>>

-----------------------------------------------------------------------------
(* /auth/refresh                                                           *)

\* A client presents a token it was once given.
Refresh(r, t) ==
    /\ req[r].pc = "idle" /\ t \notin Fresh
    /\ req' = [req EXCEPT ![r] = [Idle EXCEPT !.kind = "rotate", !.pc = "open", !.tok = t]]
    /\ UNCHANGED <<table, ended>>

\* runInTransaction takes a connection and begins.
OpenTransaction(r) ==
    /\ req[r].pc = "open" /\ ~Full
    /\ Step(r, "find")
    /\ UNCHANGED <<table, ended>>

\* Leaves the transaction to revoke the whole family.
RevokeAndReject(r, reason) ==
    req' = [req EXCEPT ![r].kind = reason, ![r].pc = "revoke",
                       ![r].todo = {family[req[r].tok]}]

FindGoes(r) == req[r].pc = "find" /\ ~Locked(req[r].tok)

\* findByTokenHashForUpdate waits for the row, then reads it as committed.
FindForUpdate(r) ==
    LET t == req[r].tok IN
    /\ FindGoes(r)
    /\ \/ status[t] = "revoked" /\ RevokeAndReject(r, "reuse")
       \/ Live(t) /\ t \in expired /\ RevokeAndReject(r, "expired")
       \/ Live(t) /\ t \notin expired /\ Step(r, "check")
    /\ UNCHANGED <<table, ended>>

\* The user and the membership, read outside the transaction: each takes a
\* connection beside the transaction's own.
Check(r) ==
    /\ req[r].pc = "check" /\ ~Full
    /\ Step(r, "commit")
    /\ UNCHANGED <<table, ended>>

\* The new token and the old one's revocation become visible together.
CommitRotation(r) ==
    LET t == req[r].tok IN
    /\ req[r].pc = "commit"
    /\ \E new \in Token :
          /\ NewRow(new)
          /\ status' = [status EXCEPT ![t] = "revoked", ![new] = "live"]
          /\ family' = [family EXCEPT ![new] = family[t]]
          /\ replacedBy' = [replacedBy EXCEPT ![t] = new]
    /\ Finish(r)
    /\ UNCHANGED <<expired, ended>>

\* No user, no active membership, or a statement fails: rolled back, and the
\* token stays as it was.
RollBack(r) ==
    /\ req[r].pc \in {"check", "commit"}
    /\ Finish(r)
    /\ UNCHANGED <<table, ended>>

-----------------------------------------------------------------------------
(* /auth/logout: the presented row is read without a lock.                 *)

Logout(r, t) ==
    /\ req[r].pc = "idle" /\ t \notin Fresh
    /\ req' = [req EXCEPT ![r] = [Idle EXCEPT !.kind = "logout", !.pc = "revoke",
                                  !.todo = {family[t]}]]
    /\ UNCHANGED <<table, ended>>

-----------------------------------------------------------------------------
(* /auth/switch-organization: the families of the user's active tokens are *)
(* revoked in parallel, then a family starts in the other organization.    *)

SwitchOrganization(r) ==
    /\ req[r].pc = "idle"
    /\ req' = [req EXCEPT ![r] =
                 [Idle EXCEPT !.kind = "switch", !.pc = "revoke",
                  !.todo = {family[t] : t \in {u \in Token : Live(u) /\ u \notin expired}}]]
    /\ UNCHANGED <<table, ended>>

Issue(r) ==
    /\ req[r].pc = "issue"
    /\ \E t \in Token : StartFamily(t)
    /\ Finish(r)
    /\ UNCHANGED ended

-----------------------------------------------------------------------------
(* revokeFamily                                                            *)

BeginRevoke(r, f) ==
    /\ req[r].pc = "revoke" /\ f \in req[r].todo /\ ~Full
    /\ req' = [req EXCEPT ![r].todo = @ \ {f}, ![r].begun = @ \cup {f},
                          ![r].picked = @ \cup LiveIn(f)]
    /\ UNCHANGED <<table, ended>>

Picked(r, f) == {t \in req[r].picked : family[t] = f}

UpdateGoes(r, f) ==
    /\ req[r].pc = "revoke" /\ f \in req[r].begun
    /\ \A t \in Picked(r, f) : ~Locked(t)

EndRevoke(r, f) ==
    /\ UpdateGoes(r, f)
    /\ status' = [t \in Token |-> IF t \in Picked(r, f) THEN "revoked" ELSE status[t]]
    /\ req' = [req EXCEPT ![r].begun = @ \ {f}, ![r].picked = @ \ Picked(r, f)]
    /\ ended' = IF req[r].kind \in {"logout", "reuse"} THEN ended \cup {f} ELSE ended
    /\ UNCHANGED <<expired, family, replacedBy>>

\* One UPDATE fails.  A switch has started the others, which run to their end,
\* but it issues nothing; a logout answers 200 all the same.
RevokeFails(r, f) ==
    /\ req[r].pc = "revoke" /\ f \in req[r].todo \cup req[r].begun
    /\ req' = [req EXCEPT ![r].kind = "failed", ![r].begun = @ \ {f},
                          ![r].todo = @ \ {f}, ![r].picked = @ \ Picked(r, f)]
    /\ UNCHANGED <<table, ended>>

AllOver(r) == req[r].pc = "revoke" /\ req[r].todo = {} /\ req[r].begun = {}

\* All UPDATEs are over: answer, or issue the token of the other organization.
Revoked(r) ==
    /\ AllOver(r)
    /\ IF req[r].kind = "switch" THEN Step(r, "issue") ELSE Finish(r)
    /\ UNCHANGED <<table, ended>>

\* The SELECT or the INSERT fails.
Fails(r) ==
    /\ req[r].pc \in {"open", "find", "issue"}
    /\ Finish(r)
    /\ UNCHANGED <<table, ended>>

\* The requests whose next statement needs a connection of its own.
WantsConnection(r) == req[r].pc \in {"open", "check"} \/ req[r].todo # {}

\* Mutant: a request waits for a connection as long as it takes.
WaitsForEver(r) == FALSE

\* No connection came within the pool's acquire time.
TooLate(r) == WantsConnection(r) /\ Full

\* The statement fails.
AcquireTimesOut(r) ==
    /\ TooLate(r)
    /\ \/ req[r].pc = "open" /\ Fails(r)
       \/ req[r].pc = "check" /\ RollBack(r)
       \/ \E f \in req[r].todo : RevokeFails(r, f)

-----------------------------------------------------------------------------
Handle(r) ==
    \/ OpenTransaction(r)
    \/ Check(r)
    \/ CommitRotation(r)
    \/ RollBack(r)
    \/ Issue(r)
    \/ Fails(r)
    \/ \E f \in Token : BeginRevoke(r, f) \/ RevokeFails(r, f)
    \/ Revoked(r)
    \/ AcquireTimesOut(r)

\* The statements that wait for a row lock.
Wait(r) == FindForUpdate(r) \/ \E f \in Token : EndRevoke(r, f)

Next ==
    \/ Login
    \/ \E t \in Token : Expire(t)
    \/ \E r \in Request : Handle(r) \/ Wait(r) \/ SwitchOrganization(r)
    \/ \E r \in Request, t \in Token : Refresh(r, t) \/ Logout(r, t)

Spec == Init /\ [][Next]_vars

-----------------------------------------------------------------------------
(* What sessions promise.                                                  *)

\* A family has at most one token that still refreshes, whatever rotations,
\* reuses, logouts and switches run at once: two requests that present the
\* same token cannot both rotate it.
OneLivePerFamily ==
    \A t, u \in Token : Live(t) /\ Live(u) /\ family[t] = family[u] => t = u

SessionState(f) == IF family[f] # f THEN "none"
                   ELSE IF LiveIn(f) # {} THEN "open" ELSE "closed"

Session == INSTANCE Sessions WITH
    Session <- Token, state <- [f \in Token |-> SessionState(f)]

\* A session whose last token was revoked is over: no rotation that was under
\* way, and no later request, opens it again.
ImplementsSessions == Session!Spec

\* What lets a request move on without a statement having to fail, or by the
\* pool's timeout: its guards. A rotation needs a row of its own to end, as does
\* an issue: the bound on rows is let go.
Goes(r) ==
    \/ WantsConnection(r) /\ ~Full
    \/ TooLate(r)
    \/ FindGoes(r)
    \/ req[r].pc \in {"commit", "issue"}
    \/ \E f \in Token : UpdateGoes(r, f)
    \/ AllOver(r)

\* Requests never wait for each other in a circle, nor one for itself: the one
\* row lock a rotation takes is released before the family is revoked on another
\* connection, and rotations that hold every connection while each wants one
\* more are let go by the acquire timeout.
NobodyStuck ==
    (\E r \in Request : req[r].pc # "idle") => \E r \in Request : Goes(r)

\* ADR-0019, decision 5: a reused token means "revoke the entire family", and
\* decision 6: logout "revokes the family".
EntireFamilyRevoked == \A f \in ended : LiveIn(f) = {}
=============================================================================
