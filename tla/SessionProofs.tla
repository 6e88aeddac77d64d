---------------------------- MODULE SessionProofs ----------------------------
(***************************************************************************)
(* That a family of refresh tokens never has two live ones, and that       *)
(* RefreshSessions implements Sessions: a session whose last token was     *)
(* revoked is over, for any number of tokens, requests and connections.    *)
(***************************************************************************)
EXTENDS RefreshSessions, TLAPS

ReqState ==
    [kind : Kinds,
     pc : {"idle", "open", "find", "check", "commit", "revoke", "issue"},
     tok : Token \cup {NoToken},
     todo : SUBSET Token, begun : SUBSET Token, picked : SUBSET Token]

TypeOK ==
    /\ status \in [Token -> {"absent", "live", "revoked"}]
    /\ expired \subseteq Token
    /\ family \in [Token -> Token \cup {NoToken}]
    /\ replacedBy \in [Token -> Token \cup {NoToken}]
    /\ req \in [Request -> ReqState]
    /\ ended \subseteq Token

-----------------------------------------------------------------------------
(* The inductive invariant.                                                *)

\* A family is named by a token that was issued and is in it.
Rooted ==
    \A t \in Token :
        IF t \in Fresh THEN family[t] = NoToken
        ELSE /\ family[t] \in Token \ Fresh
             /\ family[family[t]] = family[t]

\* A rotation was given a token that was issued.
Presented ==
    \A r \in Request :
        req[r].pc \in {"open", "find", "check", "commit"} => req[r].tok \in Token \ Fresh

\* The row a rotation has locked is live until it commits, and nobody else's.
LockedIsLive ==
    \A r \in Request, t \in Token :
        Holds(r, t) => Live(t) /\ \A q \in Request : Holds(q, t) => q = r

\* An UPDATE picks issued rows only.
PickedWereIssued == \A r \in Request : req[r].picked \cap Fresh = {}

Inv == TypeOK /\ Rooted /\ Presented /\ LockedIsLive /\ PickedWereIssued /\ OneLivePerFamily

-----------------------------------------------------------------------------
LEMMA TokenFacts == Token \subseteq Nat /\ NoToken \notin Token
BY TokenAssumption DEF Token, NoToken

LEMMA IdleType == Idle \in ReqState /\ Idle.pc = "idle" /\ Idle.picked = {}
BY DEF Idle, ReqState, Kinds, NoToken

LEMMA InvInit == Init => Inv
<1> SUFFICES ASSUME Init PROVE Inv
  OBVIOUS
<1>1. TypeOK
  BY IdleType DEF Init, TypeOK
<1>2. Fresh = Token
  BY DEF Init, Fresh
<1>3. Rooted
  BY <1>2 DEF Init, Rooted
<1>4. Presented /\ LockedIsLive /\ PickedWereIssued
  BY IdleType DEF Init, Presented, LockedIsLive, Holds, PickedWereIssued
<1>5. OneLivePerFamily
  BY DEF Init, OneLivePerFamily, Live
<1> QED
  BY <1>1, <1>3, <1>4, <1>5 DEF Inv

\* A request moves on and no row changes: it is enough that it keeps the lock it
\* has or takes a free one, of a live row.
LEMMA RequestMoves ==
    ASSUME Inv, NEW r \in Request, NEW rec \in ReqState,
           req' = [req EXCEPT ![r] = rec], UNCHANGED <<table, ended>>,
           rec.pc \in {"open", "find", "check", "commit"} => rec.tok \in Token \ Fresh,
           rec.pc \in {"check", "commit"} =>
               Holds(r, rec.tok) \/ (Live(rec.tok) /\ ~Locked(rec.tok)),
           rec.picked \cap Fresh = {}
    PROVE  Inv'
<1> USE DEF Inv, TypeOK, table
<1>1. TypeOK'
  OBVIOUS
<1>2. Fresh' = Fresh /\ \A t \in Token : Live(t)' <=> Live(t)
  BY DEF Fresh, Live
<1>3. Rooted' /\ OneLivePerFamily'
  BY <1>2 DEF Rooted, OneLivePerFamily
<1>4. Presented' /\ PickedWereIssued'
  BY <1>2 DEF Presented, PickedWereIssued
<1>5. LockedIsLive'
  <2>1. ASSUME NEW q \in Request, NEW t \in Token, Holds(q, t)', q # r
        PROVE  Holds(q, t)
    BY <2>1 DEF Holds
  <2>2. ASSUME NEW t \in Token, Holds(r, t)'
        PROVE  Holds(r, t) \/ (Live(t) /\ ~Locked(t))
    BY <2>2 DEF Holds
  <2> QED
    BY <1>2, <2>1, <2>2 DEF LockedIsLive, Locked
<1> QED
  BY <1>1, <1>3, <1>4, <1>5

LEMMA FinishKeepsInv ==
    ASSUME Inv, NEW r \in Request, Finish(r), UNCHANGED <<table, ended>>
    PROVE  Inv'
BY IdleType, RequestMoves DEF Finish

\* A step to another place of the handler, beside the row the request presents.
LEMMA StepKeepsInv ==
    ASSUME Inv, NEW r \in Request, NEW pc, Step(r, pc), UNCHANGED <<table, ended>>,
           \/ pc \in {"revoke", "issue"}
           \/ pc = "find" /\ req[r].pc = "open"
           \/ pc = "commit" /\ req[r].pc = "check"
           \/ pc = "check" /\ req[r].pc = "find" /\ Live(req[r].tok) /\ ~Locked(req[r].tok)
    PROVE  Inv'
<1> DEFINE rec == [req[r] EXCEPT !.pc = pc]
<1>1. rec \in ReqState /\ rec.pc = pc /\ rec.tok = req[r].tok /\ rec.picked = req[r].picked
  BY DEF Inv, TypeOK, ReqState
<1>2. req' = [req EXCEPT ![r] = rec]
  BY DEF Step, Inv, TypeOK
<1> HIDE DEF rec
<1>3. rec.pc \in {"open", "find", "check", "commit"} => rec.tok \in Token \ Fresh
  BY <1>1 DEF Inv, Presented
<1>4. rec.pc \in {"check", "commit"} =>
          Holds(r, rec.tok) \/ (Live(rec.tok) /\ ~Locked(rec.tok))
  BY <1>1 DEF Holds
<1>5. rec.picked \cap Fresh = {}
  BY <1>1 DEF Inv, PickedWereIssued
<1> QED
  BY <1>1, <1>2, <1>3, <1>4, <1>5, RequestMoves

-----------------------------------------------------------------------------
(* The actions that change no row.                                         *)

LEMMA BeginsKeepInv ==
    ASSUME Inv, NEW r \in Request
    PROVE  /\ \A t \in Token : Refresh(r, t) \/ Logout(r, t) => Inv'
           /\ SwitchOrganization(r) => Inv'
<1>1. ASSUME NEW t \in Token, Refresh(r, t) PROVE Inv'
  <2> DEFINE rec == [Idle EXCEPT !.kind = "rotate", !.pc = "open", !.tok = t]
  <2>1. rec \in ReqState /\ rec.pc = "open" /\ rec.tok = t /\ rec.picked = {}
    BY DEF Idle, ReqState, Kinds
  <2>2. req' = [req EXCEPT ![r] = rec] /\ UNCHANGED <<table, ended>> /\ t \notin Fresh
    BY <1>1 DEF Refresh
  <2> HIDE DEF rec
  <2> QED
    BY <2>1, <2>2, RequestMoves
<1>2. ASSUME NEW t \in Token, Logout(r, t) PROVE Inv'
  <2> DEFINE rec == [Idle EXCEPT !.kind = "logout", !.pc = "revoke", !.todo = {family[t]}]
  <2>1. family[t] \in Token
    BY <1>2 DEF Logout, Inv, Rooted
  <2>2. rec \in ReqState /\ rec.pc = "revoke" /\ rec.picked = {}
    BY <2>1 DEF Idle, ReqState, Kinds
  <2>3. req' = [req EXCEPT ![r] = rec] /\ UNCHANGED <<table, ended>>
    BY <1>2 DEF Logout
  <2> HIDE DEF rec
  <2> QED
    BY <2>2, <2>3, RequestMoves
<1>3. ASSUME SwitchOrganization(r) PROVE Inv'
  <2> DEFINE active == {u \in Token : Live(u) /\ u \notin expired}
             rec == [Idle EXCEPT !.kind = "switch", !.pc = "revoke",
                                 !.todo = {family[t] : t \in active}]
  <2>1. \A t \in active : family[t] \in Token
    BY DEF Inv, Rooted, Fresh, Live
  <2>2. rec \in ReqState /\ rec.pc = "revoke" /\ rec.picked = {}
    BY <2>1 DEF Idle, ReqState, Kinds
  <2>3. req' = [req EXCEPT ![r] = rec] /\ UNCHANGED <<table, ended>>
    BY <1>3 DEF SwitchOrganization
  <2> HIDE DEF rec
  <2> QED
    BY <2>2, <2>3, RequestMoves
<1> QED
  BY <1>1, <1>2, <1>3

LEMMA FindKeepsInv == ASSUME Inv, NEW r \in Request, FindForUpdate(r) PROVE Inv'
<1> DEFINE t == req[r].tok
<1>1. UNCHANGED <<table, ended>> /\ req[r].pc = "find" /\ ~Locked(t)
  BY DEF FindForUpdate, FindGoes
<1>2. t \in Token /\ family[t] \in Token
  BY <1>1 DEF Inv, Presented, Rooted
<1>3. ASSUME NEW reason \in {"reuse", "expired"}, RevokeAndReject(r, reason)
      PROVE  Inv'
  <2> DEFINE rec == [req[r] EXCEPT !.kind = reason, !.pc = "revoke", !.todo = {family[t]}]
  <2>1. rec \in ReqState /\ rec.pc = "revoke" /\ rec.picked = req[r].picked
    BY <1>2 DEF Inv, TypeOK, ReqState, Kinds
  <2>2. req' = [req EXCEPT ![r] = rec]
    BY <1>3 DEF RevokeAndReject, Inv, TypeOK
  <2>3. rec.picked \cap Fresh = {}
    BY <2>1 DEF Inv, PickedWereIssued
  <2> HIDE DEF rec, t
  <2> QED
    BY <1>1, <2>1, <2>2, <2>3, RequestMoves
<1>4. CASE Live(t) /\ Step(r, "check")
  BY <1>1, <1>4, StepKeepsInv
<1> QED
  BY <1>3, <1>4 DEF FindForUpdate

LEMMA RevokeMovesKeepInv ==
    ASSUME Inv, NEW r \in Request, NEW f \in Token,
           BeginRevoke(r, f) \/ RevokeFails(r, f)
    PROVE  Inv'
<1>1. CASE BeginRevoke(r, f)
  <2> DEFINE rec == [req[r] EXCEPT !.todo = @ \ {f}, !.begun = @ \cup {f},
                                   !.picked = @ \cup LiveIn(f)]
  <2>1. LiveIn(f) \subseteq Token \ Fresh
    BY DEF LiveIn, Live, Fresh
  <2>2. /\ rec \in ReqState /\ rec.pc = "revoke"
        /\ rec.picked = req[r].picked \cup LiveIn(f)
    BY <1>1, <2>1 DEF BeginRevoke, Inv, TypeOK, ReqState
  <2>3. req' = [req EXCEPT ![r] = rec] /\ UNCHANGED <<table, ended>>
    BY <1>1 DEF BeginRevoke, Inv, TypeOK
  <2>4. rec.picked \cap Fresh = {}
    BY <2>1, <2>2 DEF Inv, PickedWereIssued
  <2> HIDE DEF rec
  <2> QED
    BY <2>2, <2>3, <2>4, RequestMoves
<1>2. CASE RevokeFails(r, f)
  <2> DEFINE rec == [req[r] EXCEPT !.kind = "failed", !.begun = @ \ {f},
                                   !.todo = @ \ {f}, !.picked = @ \ Picked(r, f)]
  <2>1. /\ rec \in ReqState /\ rec.pc = "revoke"
        /\ rec.picked \subseteq req[r].picked
    BY <1>2 DEF RevokeFails, Inv, TypeOK, ReqState, Kinds
  <2>2. req' = [req EXCEPT ![r] = rec] /\ UNCHANGED <<table, ended>>
    BY <1>2 DEF RevokeFails, Inv, TypeOK
  <2>3. rec.picked \cap Fresh = {}
    BY <2>1 DEF Inv, PickedWereIssued
  <2> HIDE DEF rec
  <2> QED
    BY <2>1, <2>2, <2>3, RequestMoves
<1> QED
  BY <1>1, <1>2

-----------------------------------------------------------------------------
(* The actions that change rows.                                           *)

\* Nothing but the table moves on, and the locked rows stay as they are.
LEMMA FamilyStarts ==
    ASSUME Inv, NEW t \in Token, StartFamily(t), ended' = ended,
           \/ req' = req
           \/ \E r \in Request : Finish(r)
    PROVE  Inv'
<1> USE DEF Inv, TypeOK
<1>1. t \in Fresh /\ t # NoToken
  BY TokenFacts DEF StartFamily, NewRow
<1>2. /\ Fresh' = Fresh \ {t}
      /\ \A u \in Token \ {t} : (Live(u)' <=> Live(u)) /\ family'[u] = family[u]
      /\ Live(t)' /\ family'[t] = t
  BY <1>1 DEF StartFamily, Fresh, Live
<1>3. TypeOK'
  BY IdleType DEF StartFamily, Finish
<1>4. \A r \in Request : req'[r] = req[r] \/ req'[r] = Idle
  BY DEF Finish
<1>5. Rooted'
  <2>1. \A u \in Token \ {t} : u \notin Fresh => family[u] # t
    BY <1>1 DEF Rooted
  <2> QED
    BY <1>1, <1>2, <2>1 DEF Rooted
<1>6. Presented' /\ PickedWereIssued'
  BY <1>2, <1>4, IdleType DEF Presented, PickedWereIssued
<1>7. LockedIsLive'
  <2>1. ASSUME NEW r \in Request, NEW u \in Token, Holds(r, u)'
        PROVE  Holds(r, u) /\ u # t
    BY <1>1, <1>4, <2>1, IdleType DEF Holds, Presented
  <2> QED
    BY <1>2, <2>1 DEF LockedIsLive
<1>8. OneLivePerFamily'
  <2>1. \A u \in Token \ {t} : Live(u) => family[u] # t
    BY <1>1 DEF Rooted, Live, Fresh
  <2> QED
    BY <1>2, <2>1 DEF OneLivePerFamily
<1> QED
  BY <1>3, <1>5, <1>6, <1>7, <1>8

LEMMA ExpireKeepsInv == ASSUME Inv, NEW t \in Token, Expire(t) PROVE Inv'
<1> USE DEF Expire
<1>1. Fresh' = Fresh /\ \A u \in Token : Live(u)' <=> Live(u)
  BY DEF Fresh, Live
<1>2. TypeOK' /\ Rooted' /\ OneLivePerFamily'
  BY <1>1 DEF Inv, TypeOK, Rooted, OneLivePerFamily
<1>3. Presented' /\ PickedWereIssued' /\ LockedIsLive'
  BY <1>1 DEF Inv, Presented, PickedWereIssued, LockedIsLive, Holds
<1> QED
  BY <1>2, <1>3 DEF Inv

\* What a rotation does to the table: its row was the live one of the family, and
\* the new row takes its place.
LEMMA RotationFacts ==
    ASSUME Inv, NEW r \in Request, NEW new \in Token, req[r].pc = "commit", NewRow(new),
           status' = [status EXCEPT ![req[r].tok] = "revoked", ![new] = "live"],
           family' = [family EXCEPT ![new] = family[req[r].tok]]
    PROVE  /\ new \in Fresh /\ req[r].tok \in Token \ Fresh /\ Live(req[r].tok)
           /\ Fresh' = Fresh \ {new}
           /\ Live(new)' /\ family'[new] = family[req[r].tok]
           /\ \A u \in Token \ {new} :
                 family'[u] = family[u] /\ (Live(u)' <=> Live(u) /\ u # req[r].tok)
<1> DEFINE t == req[r].tok
<1>1. new \in Fresh /\ t \in Token \ Fresh
  BY DEF NewRow, Inv, Presented
<1>2. Live(t)
  BY <1>1 DEF Holds, Inv, LockedIsLive
<1> QED
  BY <1>1, <1>2 DEF Inv, TypeOK, Fresh, Live

LEMMA RotationKeepsInv == ASSUME Inv, NEW r \in Request, CommitRotation(r) PROVE Inv'
<1> DEFINE t == req[r].tok
<1>1. PICK new \in Token :
          /\ NewRow(new)
          /\ status' = [status EXCEPT ![t] = "revoked", ![new] = "live"]
          /\ family' = [family EXCEPT ![new] = family[t]]
          /\ replacedBy' = [replacedBy EXCEPT ![t] = new]
  BY DEF CommitRotation
<1>2. req[r].pc = "commit" /\ Finish(r) /\ expired' = expired /\ ended' = ended
  BY DEF CommitRotation
<1>3. /\ new \in Fresh /\ t \in Token \ Fresh /\ Live(t)
      /\ Fresh' = Fresh \ {new}
      /\ Live(new)' /\ family'[new] = family[t]
      /\ \A u \in Token \ {new} :
            family'[u] = family[u] /\ (Live(u)' <=> Live(u) /\ u # t)
  BY <1>1, <1>2, RotationFacts
<1>4. Holds(r, t)
  BY <1>2 DEF Holds
<1>5. family[t] \in Token \ Fresh /\ family[family[t]] = family[t]
  BY <1>3 DEF Inv, Rooted
<1>6. TypeOK'
  BY <1>1, <1>2, <1>5, IdleType DEF Inv, TypeOK, Finish
<1>7. \A q \in Request : IF q = r THEN req'[q] = Idle ELSE req'[q] = req[q]
  BY <1>2 DEF Finish, Inv, TypeOK
<1> HIDE DEF t
<1>8. Rooted'
  <2>1. \A u \in Token \ {new} : u \notin Fresh => family[u] # new
    BY <1>3 DEF Inv, Rooted
  <2> QED
    BY <1>3, <1>5, <2>1 DEF Inv, Rooted
<1>9. Presented' /\ PickedWereIssued'
  BY <1>3, <1>7, IdleType DEF Inv, Presented, PickedWereIssued
<1>10. LockedIsLive'
  <2>1. ASSUME NEW q \in Request, NEW u \in Token, Holds(q, u)'
        PROVE  Holds(q, u) /\ q # r
    BY <1>7, <2>1, IdleType DEF Holds
  <2>2. ASSUME NEW q \in Request, NEW u \in Token, Holds(q, u)'
        PROVE  u # t /\ u # new
    BY <1>3, <1>4, <2>1, <2>2 DEF Inv, LockedIsLive, Live, Fresh
  <2> QED
    BY <1>3, <2>1, <2>2 DEF Inv, LockedIsLive
<1>11. OneLivePerFamily'
  BY <1>3 DEF Inv, OneLivePerFamily
<1> QED
  BY <1>6, <1>8, <1>9, <1>10, <1>11 DEF Inv

\* revokeFamily's UPDATE revokes rows of its family, none of them locked.
LEMMA EndRevokeFacts ==
    ASSUME Inv, NEW r \in Request, NEW f \in Token, EndRevoke(r, f)
    PROVE  /\ Fresh' = Fresh
           /\ \A u \in Token : Live(u)' <=> Live(u) /\ u \notin Picked(r, f)
           /\ \A u \in Picked(r, f) : family[u] = f /\ ~Locked(u)
<1>1. \A u \in Picked(r, f) : u \in Token \ Fresh /\ family[u] = f /\ ~Locked(u)
  BY DEF EndRevoke, UpdateGoes, Picked, Inv, PickedWereIssued, TypeOK, ReqState
<1> QED
  BY <1>1 DEF EndRevoke, Fresh, Live, Inv, TypeOK

LEMMA EndRevokeKeepsInv ==
    ASSUME Inv, NEW r \in Request, NEW f \in Token, EndRevoke(r, f)
    PROVE  Inv'
<1> DEFINE rec == [req[r] EXCEPT !.begun = @ \ {f}, !.picked = @ \ Picked(r, f)]
<1>1. /\ rec \in ReqState /\ rec.pc = "revoke" /\ rec.picked \subseteq req[r].picked
  BY DEF EndRevoke, UpdateGoes, Inv, TypeOK, ReqState
<1>2. req' = [req EXCEPT ![r] = rec]
  BY DEF EndRevoke, Inv, TypeOK
<1>3. UNCHANGED <<expired, family, replacedBy>> /\ ended' \subseteq Token
  BY DEF EndRevoke, Inv, TypeOK
<1>4. status' \in [Token -> {"absent", "live", "revoked"}]
  BY DEF EndRevoke, Inv, TypeOK
<1>5. \A q \in Request : q # r => req'[q] = req[q]
  BY <1>2 DEF Inv, TypeOK
<1>6. req'[r] = rec
  BY <1>2 DEF Inv, TypeOK
<1> HIDE DEF rec
<1>7. TypeOK'
  BY <1>1, <1>2, <1>3, <1>4 DEF Inv, TypeOK
<1>8. Rooted' /\ OneLivePerFamily'
  BY <1>3, EndRevokeFacts DEF Inv, Rooted, OneLivePerFamily
<1>9. Presented' /\ PickedWereIssued'
  BY <1>1, <1>5, <1>6, EndRevokeFacts DEF Inv, Presented, PickedWereIssued
<1>10. LockedIsLive'
  <2>1. ASSUME NEW q \in Request, NEW u \in Token, Holds(q, u)'
        PROVE  Holds(q, u)
    BY <1>1, <1>5, <1>6, <2>1 DEF Holds
  <2> QED
    BY <2>1, EndRevokeFacts DEF Inv, LockedIsLive, Locked
<1> QED
  BY <1>7, <1>8, <1>9, <1>10 DEF Inv

-----------------------------------------------------------------------------
LEMMA HandleKeepsInv == ASSUME Inv, NEW r \in Request, Handle(r) PROVE Inv'
<1>1. CASE OpenTransaction(r)
  BY <1>1, StepKeepsInv DEF OpenTransaction
<1>2. CASE Check(r)
  BY <1>2, StepKeepsInv DEF Check
<1>3. CASE CommitRotation(r)
  BY <1>3, RotationKeepsInv
<1>4. CASE RollBack(r)
  BY <1>4, FinishKeepsInv DEF RollBack
<1>5. CASE Issue(r)
  BY <1>5, FamilyStarts DEF Issue
<1>6. CASE Fails(r)
  BY <1>6, FinishKeepsInv DEF Fails
<1>7. ASSUME NEW f \in Token, BeginRevoke(r, f) \/ RevokeFails(r, f) PROVE Inv'
  BY <1>7, RevokeMovesKeepInv
<1>8. CASE Revoked(r)
  BY <1>8, StepKeepsInv, FinishKeepsInv DEF Revoked
<1>9. CASE AcquireTimesOut(r)
  <2>1. ASSUME NEW f \in req[r].todo, RevokeFails(r, f) PROVE Inv'
    <3>1. f \in Token
      BY DEF Inv, TypeOK, ReqState
    <3> QED
      BY <2>1, <3>1, RevokeMovesKeepInv
  <2> QED
    BY <1>4, <1>6, <1>9, <2>1 DEF AcquireTimesOut
<1> QED
  BY <1>1, <1>2, <1>3, <1>4, <1>5, <1>6, <1>7, <1>8, <1>9 DEF Handle

LEMMA InvNext == Inv /\ [Next]_vars => Inv'
<1> SUFFICES ASSUME Inv, [Next]_vars PROVE Inv'
  OBVIOUS
<1>1. CASE Login
  BY <1>1, FamilyStarts DEF Login
<1>2. ASSUME NEW t \in Token, Expire(t) PROVE Inv'
  BY <1>2, ExpireKeepsInv
<1>3. ASSUME NEW r \in Request, Handle(r) PROVE Inv'
  BY <1>3, HandleKeepsInv
<1>4. ASSUME NEW r \in Request, Wait(r) PROVE Inv'
  BY <1>4, FindKeepsInv, EndRevokeKeepsInv DEF Wait
<1>5. ASSUME NEW r \in Request, SwitchOrganization(r) PROVE Inv'
  BY <1>5, BeginsKeepInv
<1>6. ASSUME NEW r \in Request, NEW t \in Token, Refresh(r, t) \/ Logout(r, t) PROVE Inv'
  BY <1>6, BeginsKeepInv
<1>7. CASE UNCHANGED vars
  BY <1>7 DEF vars, table, Inv, TypeOK, Rooted, Presented, LockedIsLive, Holds,
              PickedWereIssued, OneLivePerFamily, Live, Fresh
<1> QED
  BY <1>1, <1>2, <1>3, <1>4, <1>5, <1>6, <1>7 DEF Next

LEMMA Inductive == Spec => []Inv
<1> QED
  BY InvInit, InvNext, PTL DEF Spec

\* Whoever a request waits for can go on: a row lock is a rotation's that has left
\* its FOR UPDATE behind, and such a rotation waits for a connection at most.
LEMMA HolderGoes ==
    ASSUME NEW r \in Request, req[r].pc \in {"check", "commit"}
    PROVE  Goes(r)
BY DEF Goes, WantsConnection, TooLate

LEMMA SomeoneGoes ==
    ASSUME TypeOK, NEW r \in Request, req[r].pc # "idle"
    PROVE  \E q \in Request : Goes(q)
<1>1. ASSUME NEW t, Locked(t) PROVE \E q \in Request : Goes(q)
  BY <1>1, HolderGoes DEF Locked, Holds
<1>2. CASE WantsConnection(r)
  BY <1>2 DEF Goes, TooLate
<1>3. CASE req[r].pc = "find"
  BY <1>1, <1>3 DEF Goes, FindGoes
<1>4. CASE req[r].pc = "revoke" /\ req[r].todo = {} /\ req[r].begun = {}
  BY <1>4 DEF Goes, AllOver
<1>5. CASE req[r].pc = "revoke" /\ req[r].begun # {}
  <2>1. PICK f \in Token : f \in req[r].begun
    BY <1>5 DEF TypeOK, ReqState
  <2>2. CASE UpdateGoes(r, f)
    BY <2>2 DEF Goes
  <2>3. CASE ~UpdateGoes(r, f)
    BY <1>1, <1>5, <2>1, <2>3 DEF UpdateGoes
  <2> QED
    BY <2>2, <2>3
<1>6. CASE req[r].pc \in {"commit", "issue"}
  BY <1>6 DEF Goes
<1>7. req[r].pc \in {"open", "find", "check", "commit", "revoke", "issue"}
  BY DEF TypeOK, ReqState
<1> QED
  BY <1>2, <1>3, <1>4, <1>5, <1>6, <1>7 DEF WantsConnection

\* Requests never wait for each other's rows and connections in a circle: while
\* one is under way some request can go on, or its wait for a connection is up.
THEOREM NobodyIsStuck == Spec => []NobodyStuck
<1>1. Inv => NobodyStuck
  BY SomeoneGoes DEF Inv, NobodyStuck
<1> QED
  BY <1>1, Inductive, PTL

\* Two requests that present one token cannot both rotate it: whatever rotations,
\* reuses, logouts and switches interleave, a family has at most one live token.
THEOREM OneLive == Spec => []OneLivePerFamily
<1>1. Inv => OneLivePerFamily
  BY DEF Inv
<1> QED
  BY <1>1, Inductive, PTL

-----------------------------------------------------------------------------
(* The refinement: which steps open or close a session.                    *)

State == [f \in Token |-> SessionState(f)]

\* Every session keeps its state but one, which opens or closes.
Changes(f, from, to) ==
    /\ SessionState(f) = from /\ SessionState(f)' = to
    /\ \A g \in Token \ {f} : SessionState(g)' = SessionState(g)

LEMMA SessionOpens ==
    ASSUME Inv, NEW t \in Token, StartFamily(t)
    PROVE  Changes(t, "none", "open")
<1>1. t \in Fresh /\ t # NoToken
  BY TokenFacts DEF StartFamily, NewRow
<1>2. family[t] = NoToken /\ \A u \in Token \ {t} : Live(u) => family[u] # t
  BY <1>1 DEF Inv, Rooted, Live, Fresh
<1>3. /\ Live(t)' /\ family'[t] = t
      /\ \A u \in Token \ {t} : family'[u] = family[u] /\ (Live(u)' <=> Live(u))
  BY <1>1 DEF StartFamily, Live, Inv, TypeOK
<1>4. SessionState(t) = "none"
  BY <1>1, <1>2 DEF SessionState
<1>5. SessionState(t)' = "open"
  BY <1>3 DEF SessionState, LiveIn
<1>6. ASSUME NEW g \in Token \ {t} PROVE SessionState(g)' = SessionState(g)
  <2>1. LiveIn(g)' = LiveIn(g)
    BY <1>1, <1>3 DEF LiveIn, Live, Fresh
  <2> QED
    BY <1>3, <2>1 DEF SessionState
<1> QED
  BY <1>4, <1>5, <1>6 DEF Changes

\* The rotated token is replaced in its own family.
LEMMA RotationIsInvisible ==
    ASSUME Inv, NEW r \in Request, CommitRotation(r)
    PROVE  \A f \in Token : SessionState(f)' = SessionState(f)
<1> DEFINE t == req[r].tok
<1>1. PICK new \in Token :
          /\ NewRow(new)
          /\ status' = [status EXCEPT ![t] = "revoked", ![new] = "live"]
          /\ family' = [family EXCEPT ![new] = family[t]]
  BY DEF CommitRotation
<1>2. /\ new \in Fresh /\ t \in Token \ Fresh /\ Live(t)
      /\ Live(new)' /\ family'[new] = family[t]
      /\ \A u \in Token \ {new} :
            family'[u] = family[u] /\ (Live(u)' <=> Live(u) /\ u # t)
  BY <1>1, RotationFacts DEF CommitRotation
<1> HIDE DEF t
<1>3. family[new] = NoToken /\ new # NoToken
  BY <1>2, TokenFacts DEF Inv, Rooted
<1>4. family[t] # new
  BY <1>2 DEF Inv, Rooted
<1>5. SessionState(new)' = SessionState(new)
  BY <1>2, <1>3, <1>4 DEF SessionState
<1>6. ASSUME NEW f \in Token, f # new PROVE SessionState(f)' = SessionState(f)
  <2>1. CASE f = family[t]
    <3>1. t \in LiveIn(f) /\ new \in LiveIn(f)'
      BY <1>2, <2>1 DEF LiveIn
    <3> QED
      BY <1>2, <1>6, <3>1 DEF SessionState
  <2>2. CASE f # family[t]
    <3>1. LiveIn(f)' = LiveIn(f)
      BY <1>2, <2>2 DEF LiveIn, Live, Fresh
    <3> QED
      BY <1>2, <1>6, <3>1 DEF SessionState
  <2> QED
    BY <2>1, <2>2
<1> QED
  BY <1>5, <1>6

\* A revocation closes its session, or finds it closed, or leaves a row committed
\* after it began.
LEMMA RevokeCloses ==
    ASSUME Inv, NEW r \in Request, NEW f \in Token, EndRevoke(r, f)
    PROVE  \/ \A g \in Token : SessionState(g)' = SessionState(g)
           \/ Changes(f, "open", "closed")
<1>1. family' = family
  BY DEF EndRevoke
<1>2. \A u \in Token : family[u] # f => (Live(u)' <=> Live(u))
  BY EndRevokeFacts
<1>3. ASSUME NEW g \in Token \ {f} PROVE SessionState(g)' = SessionState(g)
  <2>1. LiveIn(g)' = LiveIn(g)
    BY <1>1, <1>2 DEF LiveIn
  <2> QED
    BY <1>1, <2>1 DEF SessionState
<1>4. LiveIn(f)' \subseteq LiveIn(f)
  BY <1>1, EndRevokeFacts DEF LiveIn
<1>5. CASE LiveIn(f) # {} /\ LiveIn(f)' = {} /\ family[f] = f
  BY <1>1, <1>3, <1>5 DEF Changes, SessionState
<1>6. CASE ~(LiveIn(f) # {} /\ LiveIn(f)' = {} /\ family[f] = f)
  <2>1. SessionState(f)' = SessionState(f)
    BY <1>1, <1>4, <1>6 DEF SessionState
  <2> QED
    BY <1>3, <2>1
<1> QED
  BY <1>5, <1>6

LEMMA SameTableSameState ==
    UNCHANGED table => \A f \in Token : SessionState(f)' = SessionState(f)
BY DEF table, SessionState, LiveIn, Live

LEMMA HandleChanges ==
    ASSUME Inv, NEW r \in Request, Handle(r)
    PROVE  \/ \A f \in Token : SessionState(f)' = SessionState(f)
           \/ \E f \in Token : Changes(f, "none", "open")
<1>1. CASE CommitRotation(r)
  BY <1>1, RotationIsInvisible
<1>2. CASE Issue(r)
  BY <1>2, SessionOpens DEF Issue
<1>3. CASE UNCHANGED table
  BY <1>3, SameTableSameState
<1> QED
  BY <1>1, <1>2, <1>3
     DEF Handle, OpenTransaction, Check, RollBack, Fails, BeginRevoke, RevokeFails,
         Revoked, AcquireTimesOut

LEMMA StepChanges ==
    ASSUME Inv, [Next]_vars
    PROVE  \/ \A f \in Token : SessionState(f)' = SessionState(f)
           \/ \E f \in Token : Changes(f, "none", "open") \/ Changes(f, "open", "closed")
<1>1. CASE Login
  BY <1>1, SessionOpens DEF Login
<1>2. ASSUME NEW t \in Token, Expire(t)
      PROVE  \A f \in Token : SessionState(f)' = SessionState(f)
  BY <1>2 DEF Expire, SessionState, LiveIn, Live
<1>3. ASSUME NEW r \in Request, Handle(r)
      PROVE  \/ \A f \in Token : SessionState(f)' = SessionState(f)
             \/ \E f \in Token : Changes(f, "none", "open")
  BY <1>3, HandleChanges
<1>4. ASSUME NEW r \in Request, NEW f \in Token, EndRevoke(r, f)
      PROVE  \/ \A g \in Token : SessionState(g)' = SessionState(g)
             \/ Changes(f, "open", "closed")
  BY <1>4, RevokeCloses
<1>5. CASE UNCHANGED table
  BY <1>5, SameTableSameState
<1>6. ASSUME NEW r \in Request, FindForUpdate(r) \/ SwitchOrganization(r)
      PROVE  UNCHANGED table
  BY <1>6 DEF FindForUpdate, SwitchOrganization
<1>7. ASSUME NEW r \in Request, NEW t \in Token, Refresh(r, t) \/ Logout(r, t)
      PROVE  UNCHANGED table
  BY <1>7 DEF Refresh, Logout
<1> QED
  BY <1>1, <1>2, <1>3, <1>4, <1>5, <1>6, <1>7 DEF Next, Wait, vars

\* A changed session is a step of the abstract specification.
LEMMA ChangeIsAbstract ==
    ASSUME NEW f \in Token
    PROVE  /\ Changes(f, "none", "open") => Session!Open(f)
           /\ Changes(f, "open", "closed") => Session!Close(f)
<1>1. ASSUME NEW from, NEW to, Changes(f, from, to)
      PROVE  State[f] = from /\ State' = [State EXCEPT ![f] = to]
  BY <1>1 DEF Changes, State
<1> QED
  BY <1>1 DEF Session!Open, Session!Close, State

LEMMA AbstractStep == Inv /\ [Next]_vars => [Session!Next]_State
<1> SUFFICES ASSUME Inv, [Next]_vars PROVE [Session!Next]_State
  OBVIOUS
<1>1. CASE \A f \in Token : SessionState(f)' = SessionState(f)
  BY <1>1 DEF State
<1>2. CASE \E f \in Token : Changes(f, "none", "open") \/ Changes(f, "open", "closed")
  BY <1>2, ChangeIsAbstract DEF Session!Next
<1> QED
  BY <1>1, <1>2, StepChanges

LEMMA AbstractInit == Init => Session!Init
<1> SUFFICES ASSUME Init PROVE \A f \in Token : SessionState(f) = "none"
  BY DEF Session!Init
<1> QED
  BY TokenFacts DEF Init, SessionState

\* A session opens once, and once its last token is revoked no rotation under way
\* and no later request opens it again.
THEOREM SessionsAreOver == Spec => ImplementsSessions
<1>1. Inv /\ [Next]_vars => [Session!Next]_State
  BY AbstractStep
<1> QED
  BY <1>1, AbstractInit, Inductive, PTL DEF Spec, ImplementsSessions, Session!Spec, State
=============================================================================
