---------------------------- MODULE AccountProofs ----------------------------
(***************************************************************************)
(* That an account keeps the password last chosen and the verification of  *)
(* its address while no two saves overlap, one usable reset link while no  *)
(* two issues overlap, and that a link changes it once while no two        *)
(* requests use it at once and each save is marked, for any number of      *)
(* links, passwords and requests.                                          *)
(***************************************************************************)
EXTENDS Accounts, TLAPS

Row == [password : Password, verified : BOOLEAN]

ReqState ==
    [kind : {"none", "reset", "verify", "profile", "request", "job"},
     pc : {"idle", "read", "save", "update", "mark", "spend", "mint"},
     link : Link \cup {NoLink}, fields : SUBSET {"password", "verified"},
     entity : Row, found : Row, picked : SUBSET Link]

Uses == [Link -> {"never", "once", "again", "loose"}]

TypeOK ==
    /\ user \in Row
    /\ link \in [Link -> {"absent", "open", "expired", "used"}]
    /\ req \in [Request -> ReqState]
    /\ chosen \in Password
    /\ use \in Uses
    /\ clashed \subseteq {"save", "issue"}

-----------------------------------------------------------------------------
(* The inductive invariant.                                                *)

\* What a request's place says of its kind.
Placed(q) ==
    /\ q.pc = "idle" => q.kind = "none"
    /\ q.pc \in {"read", "save", "update"} => q.kind \in {"reset", "verify", "profile"}
    /\ q.pc = "mark" => q.kind \in {"reset", "verify"}
    /\ q.pc \in {"spend", "mint"} => q.kind \in {"request", "job"}
    /\ q.kind \in {"reset", "verify", "request", "job"} => q.link \in Link
    /\ q.kind = "profile" => q.link = NoLink

RequestsPlaced == \A r \in Request : Placed(req[r])

Saves(r)  == req[r].kind \in {"reset", "verify", "profile"}
Issues(r) == req[r].kind \in {"request", "job"}

SavesAlone == "save" \notin clashed => \A r, q \in Request : Saves(r) /\ Saves(q) => q = r

\* The entity differs from the row only in what the request was asked to change.
Current(q) ==
    /\ q.pc \in {"save", "update"} =>
          /\ "password" \notin q.fields => q.entity.password = user.password
          /\ user.verified => q.entity.verified
    /\ q.pc = "update" => q.found = user

SavesCurrent == "save" \notin clashed => \A r \in Request : Current(req[r])

IssuesAlone == "issue" \notin clashed => \A r, q \in Request : Issues(r) /\ Issues(q) => q = r

\* No link of its table is usable but those an issue has picked.
Sweeps(q) ==
    q.pc \in {"spend", "mint"} => \A l \in Table(q.link) : link[l] = "open" => l \in q.picked

IssuesSweep == "issue" \notin clashed => \A r \in Request : Sweeps(req[r])

Inv ==
    /\ TypeOK /\ RequestsPlaced
    /\ SavesAlone /\ SavesCurrent /\ PasswordAsChosen
    /\ IssuesAlone /\ IssuesSweep /\ OneUsableLink

\* A link that has changed the account is used, or the request that changed it is
\* about to mark it; none that has yet to save holds it.
Spending(l) ==
    /\ use[l] # "again"
    /\ use[l] # "loose" => \A q, r \in Request : Using(q, l) /\ Using(r, l) => q = r
    /\ use[l] = "once" =>
          /\ \A r \in Request : Using(r, l) => req[r].pc = "mark"
          /\ link[l] = "used" \/ \E r \in Request : Using(r, l)

LinksSpending == \A l \in Link : Spending(l)

-----------------------------------------------------------------------------
LEMMA IdleType == Idle \in ReqState /\ Idle.pc = "idle" /\ Idle.kind = "none" /\ Idle.link = NoLink
BY AccountsAssumption DEF Idle, ReqState, Start, Row, Link

\* Nothing is asked of a request that has ended.
LEMMA IdleIsSound == Placed(Idle) /\ Current(Idle) /\ Sweeps(Idle)
BY IdleType DEF Placed, Current, Sweeps

LEMMA InvInit == Init => Inv
<1> SUFFICES ASSUME Init PROVE Inv
  OBVIOUS
<1> USE IdleType, IdleIsSound DEF Init
<1>1. TypeOK
  BY AccountsAssumption DEF TypeOK, Uses, Start, Row, Link
<1>2. RequestsPlaced /\ SavesAlone /\ SavesCurrent /\ IssuesAlone /\ IssuesSweep
  BY DEF RequestsPlaced, SavesAlone, Saves, SavesCurrent, IssuesAlone, Issues, IssuesSweep
<1>3. PasswordAsChosen /\ OneUsableLink
  BY DEF PasswordAsChosen, Start, OneUsableLink, Link
<1> QED
  BY <1>1, <1>2, <1>3 DEF Inv

\* A request begins or goes on, and no row changes.
LEMMA RequestMoves ==
    ASSUME Inv, NEW r \in Request, NEW rec \in ReqState, req' = [req EXCEPT ![r] = rec],
           UNCHANGED <<user, link, chosen>>,
           use' \in Uses,
           clashed \subseteq clashed', clashed' \subseteq {"save", "issue"},
           Placed(rec),
           "save" \notin clashed' => Current(rec),
           "issue" \notin clashed' => Sweeps(rec),
           rec.kind \in {"reset", "verify", "profile"} /\ "save" \notin clashed' =>
               Saves(r) \/ \A q \in Request : ~Saves(q),
           rec.kind \in {"request", "job"} /\ "issue" \notin clashed' =>
               Issues(r) \/ \A q \in Request : ~Issues(q)
    PROVE  Inv'
<1>1. \A q \in Request : req'[q] = IF q = r THEN rec ELSE req[q]
  BY DEF Inv, TypeOK
<1>2. TypeOK'
  BY DEF Inv, TypeOK
<1>3. RequestsPlaced'
  BY <1>1 DEF Inv, RequestsPlaced, Placed
<1>4. SavesAlone' /\ IssuesAlone'
  BY <1>1 DEF Inv, SavesAlone, Saves, IssuesAlone, Issues
<1>5. SavesCurrent'
  BY <1>1 DEF Inv, SavesCurrent, Current
<1>6. IssuesSweep'
  BY <1>1 DEF Inv, IssuesSweep, Sweeps, Table
<1>7. PasswordAsChosen' /\ OneUsableLink'
  BY DEF Inv, PasswordAsChosen, OneUsableLink
<1> QED
  BY <1>2, <1>3, <1>4, <1>5, <1>6, <1>7 DEF Inv

LEMMA FailsKeepsInv ==
    ASSUME Inv, NEW r \in Request, Fails(r)
    PROVE  Inv'
<1>1. clashed' \subseteq {"save", "issue"}
      /\ use' \in Uses
  BY DEF Fails, Inv, TypeOK, Uses
<1> QED
  BY <1>1, IdleType, IdleIsSound, RequestMoves DEF Fails, Finish

-----------------------------------------------------------------------------
(* Requests that begin.                                                    *)

\* A request that begins beside no clash begins alone.
LEMMA BeginsAlone ==
    ASSUME TypeOK, NEW effect \in {"save", "issue"}, Begins(effect)
    PROVE  /\ clashed \subseteq clashed' /\ clashed' \subseteq {"save", "issue"}
           /\ effect \notin clashed' =>
                 \A q \in Request : IF effect = "save" THEN ~Saves(q) ELSE ~Issues(q)
<1>1. \A q \in Request :
         /\ "save" \in Effect(req[q].kind) <=> Saves(q)
         /\ "issue" \in Effect(req[q].kind) <=> Issues(q)
  <2> TAKE q \in Request
  <2>1. req[q].kind \in {"none", "reset", "verify", "profile", "request", "job"}
    BY DEF TypeOK, ReqState
  <2> QED
    BY <2>1 DEF Effect, Saves, Issues
<1> QED
  BY <1>1 DEF Begins, TypeOK

LEMMA UseLinkKeepsInv ==
    ASSUME Inv, NEW r \in Request, NEW l \in Link, UseLink(r, l)
    PROVE  Inv'
<1> DEFINE rec == [Idle EXCEPT !.pc = "read", !.link = l,
                      !.kind = IF l \in ResetLink THEN "reset" ELSE "verify",
                      !.fields = IF l \in ResetLink THEN {"password"} ELSE {"verified"}]
<1>1. rec \in ReqState /\ rec.pc = "read" /\ rec.kind \in {"reset", "verify"}
  BY IdleType DEF ReqState
<1>2. Placed(rec) /\ Current(rec) /\ Sweeps(rec)
  BY <1>1 DEF Placed, Current, Sweeps
<1>3. req' = [req EXCEPT ![r] = rec] /\ UNCHANGED <<user, link, chosen>>
      /\ Begins("save")
  BY DEF UseLink
<1>4. use' \in Uses
  BY DEF UseLink, Inv, TypeOK, Uses
<1> HIDE DEF rec
<1> QED
  BY <1>1, <1>2, <1>3, <1>4, BeginsAlone, RequestMoves DEF Inv

LEMMA UpdateProfileKeepsInv ==
    ASSUME Inv, NEW r \in Request, NEW fields \in SUBSET {"password"},
           UpdateProfile(r, fields)
    PROVE  Inv'
<1> DEFINE rec == [Idle EXCEPT !.kind = "profile", !.pc = "read", !.fields = fields]
<1>1. rec \in ReqState /\ rec.pc = "read" /\ rec.kind = "profile" /\ rec.link = NoLink
  BY IdleType DEF ReqState
<1>2. Placed(rec) /\ Current(rec) /\ Sweeps(rec)
  BY <1>1 DEF Placed, Current, Sweeps
<1>3. req' = [req EXCEPT ![r] = rec] /\ UNCHANGED <<user, link, chosen, use>>
      /\ Begins("save")
  BY DEF UpdateProfile
<1> HIDE DEF rec
<1> QED
  BY <1>1, <1>2, <1>3, BeginsAlone, RequestMoves DEF Inv, TypeOK

LEMMA IssueKeepsInv ==
    ASSUME Inv, NEW r \in Request, NEW l \in Link, NEW kind \in {"request", "job"},
           Issue(r, l, kind)
    PROVE  Inv'
<1> DEFINE rec == [Idle EXCEPT !.kind = kind, !.pc = "spend", !.link = l,
                               !.picked = Unused(Table(l))]
<1>1. Table(l) \subseteq Link
  BY DEF Table, Link
<1>2. rec \in ReqState /\ rec.pc = "spend" /\ rec.kind \in {"request", "job"}
      /\ rec.link = l /\ rec.picked = Unused(Table(l))
  BY <1>1, IdleType DEF ReqState, Unused
<1>3. Placed(rec) /\ Current(rec) /\ Sweeps(rec)
  BY <1>2 DEF Placed, Current, Sweeps, Unused
<1>4. req' = [req EXCEPT ![r] = rec] /\ UNCHANGED <<user, link, chosen, use>>
      /\ Begins("issue")
  BY DEF Issue
<1> HIDE DEF rec
<1> QED
  BY <1>2, <1>3, <1>4, BeginsAlone, RequestMoves DEF Inv, TypeOK

-----------------------------------------------------------------------------
(* Requests that change the row.                                           *)

LEMMA FindUserKeepsInv ==
    ASSUME Inv, NEW r \in Request, NEW p \in Password, FindUser(r, p)
    PROVE  Inv'
<1> DEFINE e == Edited(user, req[r].fields, p)
           rec == [req[r] EXCEPT !.pc = "save", !.entity = e]
<1>1. e \in Row /\ ("password" \notin req[r].fields => e.password = user.password)
      /\ (user.verified => e.verified)
  BY DEF Inv, TypeOK, Row, ReqState, Edited
<1> HIDE DEF e
<1>2. req[r] \in ReqState /\ Placed(req[r]) /\ req[r].pc = "read"
  BY DEF Inv, TypeOK, RequestsPlaced, FindUser
<1>3. rec \in ReqState /\ rec.pc = "save" /\ rec.kind = req[r].kind
      /\ rec.fields = req[r].fields /\ rec.entity = e
  BY <1>1, <1>2 DEF ReqState
<1>4. Placed(rec) /\ Current(rec) /\ Sweeps(rec)
  BY <1>1, <1>2, <1>3 DEF Placed, Current, Sweeps
<1>5. req' = [req EXCEPT ![r] = rec] /\ UNCHANGED <<user, link, chosen, use, clashed>>
  BY DEF FindUser, e
<1>6. Saves(r) /\ ~Issues(r)
  BY <1>2 DEF Placed, Saves, Issues
<1>7. clashed' \subseteq {"save", "issue"}
      /\ use' \in Uses
  BY <1>5 DEF Inv, TypeOK
<1>8. rec.kind \notin {"request", "job"}
  BY <1>3, <1>6 DEF Issues
<1> HIDE DEF rec
<1> QED
  BY <1>3, <1>4, <1>5, <1>6, <1>7, <1>8, RequestMoves

LEMMA FindRowKeepsInv ==
    ASSUME Inv, NEW r \in Request, FindRow(r)
    PROVE  Inv'
<1> DEFINE rec == [req[r] EXCEPT !.pc = "update", !.found = user]
<1>1. req[r] \in ReqState /\ Placed(req[r]) /\ req[r].pc = "save"
      /\ ("save" \notin clashed => Current(req[r])) /\ user \in Row
  BY DEF Inv, TypeOK, RequestsPlaced, SavesCurrent, FindRow
<1>2. rec \in ReqState /\ rec.pc = "update" /\ rec.kind = req[r].kind
      /\ rec.fields = req[r].fields /\ rec.entity = req[r].entity /\ rec.found = user
  BY <1>1 DEF ReqState
<1>3. Placed(rec) /\ ("save" \notin clashed => Current(rec)) /\ Sweeps(rec)
  BY <1>1, <1>2 DEF Placed, Current, Sweeps
<1>4. req' = [req EXCEPT ![r] = rec] /\ UNCHANGED <<user, link, chosen, use, clashed>>
  BY DEF FindRow
<1>5. Saves(r) /\ ~Issues(r)
  BY <1>1 DEF Placed, Saves, Issues
<1>6. clashed' \subseteq {"save", "issue"}
      /\ use' \in Uses
  BY <1>4 DEF Inv, TypeOK
<1>7. rec.kind \notin {"request", "job"}
  BY <1>2, <1>5 DEF Issues
<1> HIDE DEF rec
<1> QED
  BY <1>2, <1>3, <1>4, <1>5, <1>6, <1>7, RequestMoves

LEMMA UpdateKeepsInv ==
    ASSUME Inv, NEW r \in Request, Update(r)
    PROVE  Inv' /\ (user.verified /\ "save" \notin clashed => user'.verified)
<1> DEFINE e == req[r].entity
           rec == IF req[r].kind = "profile" THEN Idle
                  ELSE [Idle EXCEPT !.kind = req[r].kind, !.pc = "mark", !.link = req[r].link]
<1>1. req[r] \in ReqState /\ Placed(req[r]) /\ req[r].pc = "update"
      /\ ("save" \notin clashed => Current(req[r])) /\ user \in Row /\ e \in Row
  BY DEF Inv, TypeOK, RequestsPlaced, SavesCurrent, Update, ReqState
<1>2. req' = [req EXCEPT ![r] = rec] /\ UNCHANGED <<link, clashed>>
      /\ use' \in Uses
  BY DEF Update, Finish, Counted, Inv, TypeOK, Uses
<1>3. req[r].kind \in {"reset", "verify", "profile"}
  BY <1>1 DEF Placed
<1>4. \/ rec = Idle
      \/ rec.pc = "mark" /\ rec.link = req[r].link /\ rec.kind \in {"reset", "verify"}
  BY <1>3, IdleType DEF ReqState
<1>5. rec \in ReqState
  BY <1>1, IdleType DEF ReqState
<1>6. user' \in Row
      /\ user'.password = (IF \/ "password" \in req[r].fields
                              \/ e.password # req[r].found.password
                           THEN e.password ELSE user.password)
      /\ user'.verified = IF e.verified # req[r].found.verified
                          THEN e.verified ELSE user.verified
  BY <1>1 DEF Update, Row
<1>7. "save" \notin clashed =>
        /\ user.verified => user'.verified
        /\ user'.password = IF "password" \in req[r].fields THEN e.password ELSE user.password
  BY <1>1, <1>6 DEF Current
<1>8. chosen' = IF "password" \in req[r].fields THEN e.password ELSE chosen
  BY DEF Update
<1>9. rec.kind \in {"none", req[r].kind} /\ rec.pc \in {"idle", "mark"}
  BY <1>4, IdleType
<1>10. Placed(rec)
  BY <1>1, <1>3, <1>4, <1>5, IdleIsSound DEF Placed
<1>11. \A q \in Request : req'[q] = IF q = r THEN rec ELSE req[q]
  BY <1>2 DEF Inv, TypeOK
<1> HIDE DEF rec
<1>12. TypeOK'
  BY <1>1, <1>2, <1>5, <1>6, <1>8 DEF Inv, TypeOK, Row, ReqState
<1>13. SavesAlone' /\ IssuesAlone'
  BY <1>2, <1>3, <1>9, <1>11 DEF Inv, SavesAlone, Saves, IssuesAlone, Issues
<1>14. SavesCurrent'
  <2> SUFFICES ASSUME "save" \notin clashed, NEW q \in Request PROVE Current(req[q])'
    BY <1>2 DEF SavesCurrent
  <2>1. CASE q = r
    BY <2>1, <1>9, <1>11 DEF Current
  <2>2. CASE q # r
    <3>1. Saves(r) /\ ~Saves(q) /\ Placed(req[q])
      BY <2>2, <1>3 DEF Inv, SavesAlone, Saves, RequestsPlaced
    <3> QED
      BY <2>2, <3>1, <1>11 DEF Saves, Placed, Current
  <2> QED
    BY <2>1, <2>2
<1>15. PasswordAsChosen'
  BY <1>2, <1>7, <1>8 DEF Inv, PasswordAsChosen
<1>16. IssuesSweep' /\ OneUsableLink'
  <2>1. Sweeps(rec)
    BY <1>9 DEF Sweeps
  <2> QED
    BY <2>1, <1>2, <1>11
    DEF Inv, IssuesSweep, Sweeps, Table, OneUsableLink
<1>17. RequestsPlaced'
  BY <1>10, <1>11 DEF Inv, RequestsPlaced, Placed
<1> QED
  BY <1>7, <1>12, <1>13, <1>14, <1>15, <1>16, <1>17 DEF Inv

-----------------------------------------------------------------------------
(* Links.                                                                  *)

\* Links change as a request ends or goes on with its issue.
LEMMA LinksMove ==
    ASSUME Inv, NEW r \in Request, NEW rec \in ReqState, req' = [req EXCEPT ![r] = rec],
           UNCHANGED <<user, chosen, clashed>>,
           link' \in [Link -> {"absent", "open", "expired", "used"}],
           use' \in Uses,
           rec.kind \in {"none", req[r].kind}, Placed(rec), Current(rec),
           IssuesSweep', OneUsableLink'
    PROVE  Inv'
<1>1. \A q \in Request : req'[q] = IF q = r THEN rec ELSE req[q]
  BY DEF Inv, TypeOK
<1>2. TypeOK'
  BY DEF Inv, TypeOK
<1>3. RequestsPlaced'
  BY <1>1 DEF Inv, RequestsPlaced, Placed
<1>4. SavesAlone' /\ IssuesAlone'
  BY <1>1 DEF Inv, SavesAlone, Saves, IssuesAlone, Issues
<1>5. SavesCurrent'
  BY <1>1 DEF Inv, SavesCurrent, Current
<1>6. PasswordAsChosen'
  BY DEF Inv, PasswordAsChosen
<1> QED
  BY <1>2, <1>3, <1>4, <1>5, <1>6 DEF Inv

LEMMA MarkUsedKeepsInv ==
    ASSUME Inv, NEW r \in Request, MarkUsed(r)
    PROVE  Inv'
<1>1. req[r].link \in Link
  BY DEF Inv, RequestsPlaced, Placed, MarkUsed
<1>2. \A l \in Link : link'[l] = IF l = req[r].link THEN "used" ELSE link[l]
  BY DEF MarkUsed, Inv, TypeOK
<1>3. req' = [req EXCEPT ![r] = Idle] /\ UNCHANGED <<user, chosen, clashed>>
      /\ link' \in [Link -> {"absent", "open", "expired", "used"}] /\ use' \in Uses
  BY <1>1 DEF MarkUsed, Finish, Inv, TypeOK
<1>4. IssuesSweep'
  <2> SUFFICES ASSUME "issue" \notin clashed, NEW q \in Request PROVE Sweeps(req[q])'
    BY <1>3 DEF IssuesSweep
  <2>1. req'[q] = IF q = r THEN Idle ELSE req[q]
    BY <1>3 DEF Inv, TypeOK
  <2>2. Sweeps(req[q])
    BY DEF Inv, IssuesSweep
  <2>3. \A l \in Link : link'[l] = "open" => link[l] = "open"
    BY <1>2
  <2> QED
    BY <2>1, <2>2, <2>3, IdleType DEF Sweeps, Table, Link
<1>5. OneUsableLink'
  BY <1>2, <1>3 DEF Inv, OneUsableLink, Link
<1> QED
  BY <1>3, <1>4, <1>5, IdleType, IdleIsSound, LinksMove

\* A link that is spent stays so, and no other changes.
LEMMA SpentLinks ==
    ASSUME TypeOK, NEW links
    PROVE  /\ Spent(links) \in [Link -> {"absent", "open", "expired", "used"}]
           /\ \A l \in Link : Spent(links)[l] = IF l \in links THEN "used" ELSE link[l]
BY DEF Spent, TypeOK

LEMMA SpendEarlierKeepsInv ==
    ASSUME Inv, NEW r \in Request, SpendEarlier(r)
    PROVE  Inv'
<1> DEFINE rec == [req[r] EXCEPT !.pc = "mint"]
<1>1. req[r] \in ReqState /\ Placed(req[r]) /\ req[r].pc = "spend"
      /\ ("issue" \notin clashed => Sweeps(req[r])) /\ TypeOK
  BY DEF Inv, TypeOK, RequestsPlaced, IssuesSweep, SpendEarlier
<1>2. rec \in ReqState /\ rec.pc = "mint" /\ rec.kind = req[r].kind /\ rec.link = req[r].link
      /\ rec.picked = req[r].picked
  BY <1>1 DEF ReqState
<1>3. Placed(rec) /\ Current(rec)
  BY <1>1, <1>2 DEF Placed, Current
<1>4. req' = [req EXCEPT ![r] = rec] /\ UNCHANGED <<user, chosen, use, clashed>>
  BY DEF SpendEarlier, Step
<1> HIDE DEF rec
<1>5. link' \in [Link -> {"absent", "open", "expired", "used"}]
      /\ \A l \in Link : link'[l] \in {"used", link[l]}
  BY <1>1, SpentLinks DEF SpendEarlier, TypeOK
<1>6. IssuesSweep'
  <2> SUFFICES ASSUME "issue" \notin clashed, NEW q \in Request PROVE Sweeps(req[q])'
    BY <1>4 DEF IssuesSweep
  <2>1. req'[q] = IF q = r THEN rec ELSE req[q]
    BY <1>4 DEF Inv, TypeOK
  <2>2. Sweeps(req[q])
    BY DEF Inv, IssuesSweep
  <2>3. \A l \in Link : link'[l] = "open" => link[l] = "open"
    BY <1>5
  <2> QED
    BY <2>1, <2>2, <2>3, <1>1, <1>2 DEF Sweeps, Table, Link
<1>7. OneUsableLink' /\ use' \in Uses
  BY <1>4, <1>5 DEF Inv, TypeOK, OneUsableLink, Link
<1> QED
  BY <1>2, <1>3, <1>4, <1>5, <1>6, <1>7, LinksMove

\* The link minted is the only usable one of its table: the others were picked.
LEMMA MintKeepsInv ==
    ASSUME Inv, NEW r \in Request, Mint(r)
    PROVE  Inv'
<1> DEFINE m == req[r].link
<1>1. TypeOK /\ Issues(r) /\ m \in Link /\ req[r].pc = "mint"
      /\ ("issue" \notin clashed => Sweeps(req[r])) /\ link[m] = "absent"
  BY DEF Inv, RequestsPlaced, Placed, IssuesSweep, Mint, Issues
<1>2. link' \in [Link -> {"absent", "open", "expired", "used"}]
      /\ \A l \in Link : link'[l] = IF l = m THEN "open"
                                  ELSE IF l \in req[r].picked THEN "used" ELSE link[l]
  BY <1>1, SpentLinks DEF Mint
<1>3. req' = [req EXCEPT ![r] = Idle] /\ UNCHANGED <<user, chosen, use, clashed>>
  BY DEF Mint, Finish
<1>4. IssuesSweep'
  <2> SUFFICES ASSUME "issue" \notin clashed, NEW q \in Request PROVE Sweeps(req[q])'
    BY <1>3 DEF IssuesSweep
  <2>1. req'[q] = IF q = r THEN Idle ELSE req[q]
    BY <1>3 DEF Inv, TypeOK
  <2>2. q = r \/ ~Issues(q)
    BY <1>1 DEF Inv, IssuesAlone
  <2>3. q = r \/ req'[q].pc \notin {"spend", "mint"}
    BY <2>1, <2>2 DEF Inv, RequestsPlaced, Placed, Issues
  <2> QED
    BY <2>1, <2>3, IdleType DEF Sweeps
<1>5. OneUsableLink'
  <2> SUFFICES ASSUME "issue" \notin clashed, NEW k \in ResetLink, NEW l \in ResetLink,
                      link'[k] = "open", link'[l] = "open"
               PROVE  k = l
    BY <1>3 DEF OneUsableLink
  <2>1. k = m \/ (link[k] = "open" /\ k \notin req[r].picked)
    BY <1>2 DEF Link
  <2>2. l = m \/ (link[l] = "open" /\ l \notin req[r].picked)
    BY <1>2 DEF Link
  <2>3. CASE m \in ResetLink
    BY <2>1, <2>2, <2>3, <1>1 DEF Sweeps, Table
  <2>4. CASE m \notin ResetLink
    BY <2>1, <2>2, <2>4 DEF Inv, OneUsableLink
  <2> QED
    BY <2>3, <2>4
<1>6. use' \in Uses
  BY <1>1, <1>2, <1>3 DEF Inv, TypeOK
<1> QED
  BY <1>2, <1>3, <1>4, <1>5, <1>6, IdleType, IdleIsSound, LinksMove

LEMMA ExpireKeepsInv ==
    ASSUME Inv, NEW l \in Link, Expire(l)
    PROVE  Inv'
<1>1. UNCHANGED <<user, req, chosen, use, clashed>>
      /\ \A k \in Link : link'[k] = IF k = l THEN "expired" ELSE link[k]
  BY DEF Expire, Inv, TypeOK
<1>2. TypeOK'
  BY DEF Expire, Inv, TypeOK
<1>3. IssuesSweep'
  BY <1>1 DEF Inv, IssuesSweep, Sweeps, Table, Link
<1>4. OneUsableLink'
  BY <1>1 DEF Inv, TypeOK, OneUsableLink, Expire, Link
<1>5. RequestsPlaced' /\ SavesAlone' /\ SavesCurrent' /\ PasswordAsChosen' /\ IssuesAlone'
  BY <1>1 DEF Inv, RequestsPlaced, Placed, SavesAlone, Saves, SavesCurrent, Current,
              PasswordAsChosen, IssuesAlone, Issues
<1> QED
  BY <1>2, <1>3, <1>4, <1>5 DEF Inv

-----------------------------------------------------------------------------
LEMMA NextKeepsInv ==
    ASSUME Inv, [Next]_vars
    PROVE  Inv' /\ (user.verified /\ "save" \notin clashed => user'.verified)
<1>1. ASSUME NEW r \in Request, Ask(r)
      PROVE  Inv' /\ UNCHANGED user
  <2>1. ASSUME NEW l \in Link, UseLink(r, l) PROVE Inv' /\ UNCHANGED user
    BY <2>1, UseLinkKeepsInv DEF UseLink
  <2>2. ASSUME NEW fields \in SUBSET {"password"}, UpdateProfile(r, fields)
        PROVE  Inv' /\ UNCHANGED user
    BY <2>2, UpdateProfileKeepsInv DEF UpdateProfile
  <2>3. ASSUME NEW l \in Link, NEW kind \in {"request", "job"}, Issue(r, l, kind)
        PROVE  Inv' /\ UNCHANGED user
    BY <2>3, IssueKeepsInv DEF Issue
  <2> QED
    BY <1>1, <2>1, <2>2, <2>3 DEF Ask
<1>2. ASSUME NEW r \in Request, Handle(r)
      PROVE  Inv' /\ (user.verified /\ "save" \notin clashed => user'.verified)
  <2>1. ASSUME NEW p \in Password, FindUser(r, p) PROVE Inv' /\ UNCHANGED user
    BY <2>1, FindUserKeepsInv DEF FindUser
  <2>2. ASSUME FindRow(r) PROVE Inv' /\ UNCHANGED user
    BY <2>2, FindRowKeepsInv DEF FindRow
  <2>3. ASSUME Update(r)
        PROVE  Inv' /\ (user.verified /\ "save" \notin clashed => user'.verified)
    BY <2>3, UpdateKeepsInv
  <2>4. ASSUME MarkUsed(r) PROVE Inv' /\ UNCHANGED user
    BY <2>4, MarkUsedKeepsInv DEF MarkUsed
  <2>5. ASSUME SpendEarlier(r) PROVE Inv' /\ UNCHANGED user
    BY <2>5, SpendEarlierKeepsInv DEF SpendEarlier
  <2>6. ASSUME Mint(r) PROVE Inv' /\ UNCHANGED user
    BY <2>6, MintKeepsInv DEF Mint
  <2>7. ASSUME Fails(r) PROVE Inv' /\ UNCHANGED user
    BY <2>7, FailsKeepsInv DEF Fails
  <2> QED
    BY <1>2, <2>1, <2>2, <2>3, <2>4, <2>5, <2>6, <2>7 DEF Handle
<1>3. ASSUME NEW l \in Link, Expire(l) PROVE Inv' /\ UNCHANGED user
  BY <1>3, ExpireKeepsInv DEF Expire
<1>4. CASE UNCHANGED vars
  BY <1>4 DEF vars, Inv, TypeOK, RequestsPlaced, SavesAlone, Saves, SavesCurrent, Current,
              PasswordAsChosen, IssuesAlone, Issues, IssuesSweep, Sweeps, Table,
              OneUsableLink
<1> QED
  BY <1>1, <1>2, <1>3, <1>4 DEF Next

LEMMA Inductive == Spec => []Inv
<1>1. Init => Inv
  BY InvInit
<1>2. Inv /\ [Next]_vars => Inv'
  BY NextKeepsInv
<1> QED
  BY <1>1, <1>2, PTL DEF Spec

-----------------------------------------------------------------------------
(* A link changes the account once.                                        *)

\* Nothing changes for the links in use: the same requests use them, and one that
\* is about to mark its link still is.
LEMMA SpendingStands ==
    ASSUME LinksSpending, use' = use,
           \A l \in Link : link[l] = "used" => link'[l] = "used",
           \A q \in Request, l \in Link : Using(q, l)' <=> Using(q, l),
           \A q \in Request : req[q].pc = "mark" => req'[q].pc = "mark"
    PROVE  LinksSpending'
BY DEF LinksSpending, Spending

LEMMA OthersSpendingStands ==
    ASSUME Inv, LinksSpending, NEW r \in Request, NEW rec, req' = [req EXCEPT ![r] = rec],
           use' = use, \A l \in Link : link[l] = "used" => link'[l] = "used",
           req[r].pc # "mark",
           \/ rec.kind = req[r].kind /\ rec.link = req[r].link
           \/ {rec.kind, req[r].kind} \cap {"reset", "verify"} = {}
    PROVE  LinksSpending'
<1>1. \A q \in Request : req'[q] = IF q = r THEN rec ELSE req[q]
  BY DEF Inv, TypeOK
<1> QED
  BY <1>1, SpendingStands DEF Using

LEMMA UseLinkKeepsSpending ==
    ASSUME Inv, LinksSpending, NEW r \in Request, NEW k \in Link, UseLink(r, k)
    PROVE  LinksSpending'
<1>1. link' = link /\ link[k] = "open" /\ ~\E l \in Link : Using(r, l)
  BY DEF UseLink, Inv, RequestsPlaced, Placed, Using
<1>2. \A q \in Request, l \in Link :
         /\ Using(q, l)' <=> Using(q, l) \/ (q = r /\ l = k)
         /\ q # r => req'[q] = req[q]
  BY <1>1, IdleType DEF UseLink, Using, Inv, TypeOK, ReqState
<1>3. \A l \in Link : use'[l] = IF l = k /\ \E q \in Request : Using(q, k)
                                THEN "loose" ELSE use[l]
  BY DEF UseLink, Inv, TypeOK, Uses
<1> SUFFICES ASSUME NEW l \in Link PROVE Spending(l)'
  BY DEF LinksSpending
<1>4. Spending(l) /\ use[l] \in {"never", "once", "again", "loose"}
  BY DEF LinksSpending, Inv, TypeOK, Uses
<1>5. CASE l # k
  BY <1>1, <1>2, <1>3, <1>4, <1>5 DEF Spending
<1>6. CASE l = k /\ \E q \in Request : Using(q, k)
  BY <1>3, <1>6 DEF Spending
<1>7. CASE l = k /\ ~\E q \in Request : Using(q, k)
  BY <1>1, <1>2, <1>3, <1>4, <1>7 DEF Spending
<1> QED
  BY <1>5, <1>6, <1>7

LEMMA UpdateKeepsSpending ==
    ASSUME Inv, LinksSpending, NEW r \in Request, Update(r)
    PROVE  LinksSpending'
<1>1. Placed(req[r]) /\ req[r].pc = "update" /\ link' = link
      /\ req[r].kind \in {"reset", "verify", "profile"}
  BY DEF Update, Inv, RequestsPlaced, Placed
<1>2. \A q \in Request, l \in Link :
         /\ Using(q, l)' <=> Using(q, l)
         /\ Using(q, l)' => IF q = r THEN req'[q].pc = "mark" ELSE req'[q] = req[q]
  <2> DEFINE rec == IF req[r].kind = "profile" THEN Idle
                    ELSE [Idle EXCEPT !.kind = req[r].kind, !.pc = "mark", !.link = req[r].link]
  <2>1. \A q \in Request : req'[q] = IF q = r THEN rec ELSE req[q]
    BY DEF Update, Finish, Inv, TypeOK
  <2>2. IF req[r].kind = "profile" THEN rec.kind = "none"
        ELSE rec.kind = req[r].kind /\ rec.pc = "mark" /\ rec.link = req[r].link
    BY IdleType DEF ReqState
  <2> HIDE DEF rec
  <2> QED
    BY <1>1, <2>1, <2>2 DEF Using
<1>3. \A l \in Link : use'[l] = IF Using(r, l) THEN Counted(use[l]) ELSE use[l]
  BY <1>1, AccountsAssumption DEF Update, Using, Placed, Link
<1> SUFFICES ASSUME NEW l \in Link PROVE Spending(l)'
  BY DEF LinksSpending
<1>4. Spending(l) /\ use[l] \in {"never", "once", "again", "loose"}
  BY DEF LinksSpending, Inv, TypeOK, Uses
<1>5. CASE ~Using(r, l)
  BY <1>1, <1>2, <1>3, <1>4, <1>5 DEF Spending
<1>6. CASE Using(r, l)
  <2>1. use[l] \in {"never", "loose"}
    BY <1>1, <1>4, <1>6 DEF Spending
  <2>2. use'[l] = IF use[l] = "never" THEN "once" ELSE "loose"
    BY <2>1, <1>3, <1>6 DEF Counted
  <2> QED
    BY <2>1, <2>2, <1>2, <1>4, <1>6 DEF Spending
<1> QED
  BY <1>5, <1>6

LEMMA MarkUsedKeepsSpending ==
    ASSUME Inv, LinksSpending, NEW r \in Request, MarkUsed(r)
    PROVE  LinksSpending'
<1>1. \A l \in Link : link'[l] = IF Using(r, l) THEN "used" ELSE link[l]
  BY DEF MarkUsed, Using, Inv, TypeOK, RequestsPlaced, Placed
<1>2. \A q \in Request, l \in Link : Using(q, l)' <=> Using(q, l) /\ q # r
  BY IdleType DEF MarkUsed, Finish, Using, Inv, TypeOK
<1>3. use' = use /\ \A q \in Request : q # r => req'[q] = req[q]
  BY DEF MarkUsed, Finish, Inv, TypeOK
<1> QED
  BY <1>1, <1>2, <1>3 DEF LinksSpending, Spending

LEMMA FailsKeepsSpending ==
    ASSUME Inv, LinksSpending, NEW r \in Request, Fails(r)
    PROVE  LinksSpending'
<1>1. \A q \in Request, l \in Link : Using(q, l)' <=> Using(q, l) /\ q # r
  BY IdleType DEF Fails, Finish, Using, Inv, TypeOK
<1>2. \A q \in Request : q # r => req'[q] = req[q]
  BY DEF Fails, Finish, Inv, TypeOK
<1>3. link' = link
      /\ \A l \in Link : use'[l] = IF req[r].pc = "mark" /\ Using(r, l) THEN "loose" ELSE use[l]
  BY DEF Fails, Using, Inv, RequestsPlaced, Placed
<1> SUFFICES ASSUME NEW l \in Link PROVE Spending(l)'
  BY DEF LinksSpending
<1>4. Spending(l)
  BY DEF LinksSpending
<1>5. CASE req[r].pc = "mark" /\ Using(r, l)
  BY <1>3, <1>5 DEF Spending
<1>6. CASE ~(req[r].pc = "mark" /\ Using(r, l))
  BY <1>1, <1>2, <1>3, <1>4, <1>6 DEF Spending
<1> QED
  BY <1>5, <1>6

\* The other steps of a request neither begin nor end a use, and none opens a used
\* link: only an absent one is minted.
LEMMA OthersKeepSpending ==
    ASSUME Inv, LinksSpending, NEW r \in Request,
           \/ \E fields \in SUBSET {"password"} : UpdateProfile(r, fields)
           \/ \E l \in Link, kind \in {"request", "job"} : Issue(r, l, kind)
           \/ \E p \in Password : FindUser(r, p)
           \/ FindRow(r) \/ SpendEarlier(r) \/ Mint(r)
    PROVE  LinksSpending'
<1>1. TypeOK /\ Placed(req[r]) /\ req[r] \in ReqState /\ Idle \in ReqState /\ Idle.kind = "none"
  BY IdleType DEF Inv, TypeOK, RequestsPlaced
<1>2. ASSUME NEW fields \in SUBSET {"password"}, UpdateProfile(r, fields) PROVE LinksSpending'
  <2>1. [Idle EXCEPT !.kind = "profile", !.pc = "read", !.fields = fields].kind = "profile"
    BY <1>1 DEF ReqState
  <2> QED
    BY <1>1, <1>2, <2>1, OthersSpendingStands DEF UpdateProfile, Placed
<1>3. ASSUME NEW l \in Link, NEW kind \in {"request", "job"}, Issue(r, l, kind)
      PROVE  LinksSpending'
  <2>1. [Idle EXCEPT !.kind = kind, !.pc = "spend", !.link = l,
                     !.picked = Unused(Table(l))].kind = kind
    BY <1>1 DEF ReqState
  <2> QED
    BY <1>1, <1>3, <2>1, OthersSpendingStands DEF Issue, Placed
<1>4. ASSUME NEW p \in Password, FindUser(r, p) PROVE LinksSpending'
  <2> DEFINE rec == [req[r] EXCEPT !.pc = "save", !.entity = Edited(user, req[r].fields, p)]
  <2>1. rec.kind = req[r].kind /\ rec.link = req[r].link /\ req[r].pc = "read"
        /\ req' = [req EXCEPT ![r] = rec] /\ use' = use /\ link' = link
    BY <1>1, <1>4 DEF FindUser, ReqState
  <2> HIDE DEF rec
  <2> QED
    BY <2>1, OthersSpendingStands
<1>5. ASSUME FindRow(r) PROVE LinksSpending'
  <2> DEFINE rec == [req[r] EXCEPT !.pc = "update", !.found = user]
  <2>1. rec.kind = req[r].kind /\ rec.link = req[r].link /\ req[r].pc = "save"
        /\ req' = [req EXCEPT ![r] = rec] /\ use' = use /\ link' = link
    BY <1>1, <1>5 DEF FindRow, ReqState
  <2> HIDE DEF rec
  <2> QED
    BY <2>1, OthersSpendingStands
<1>6. ASSUME SpendEarlier(r) PROVE LinksSpending'
  <2> DEFINE rec == [req[r] EXCEPT !.pc = "mint"]
  <2>1. rec.kind = req[r].kind /\ rec.link = req[r].link /\ req[r].pc = "spend"
        /\ req' = [req EXCEPT ![r] = rec] /\ use' = use
    BY <1>1, <1>6 DEF SpendEarlier, Step, ReqState
  <2>2. \A l \in Link : link[l] = "used" => link'[l] = "used"
    BY <1>1, <1>6, SpentLinks DEF SpendEarlier
  <2> HIDE DEF rec
  <2> QED
    BY <2>1, <2>2, OthersSpendingStands
<1>7. ASSUME Mint(r) PROVE LinksSpending'
  <2>1. \A l \in Link : link[l] = "used" => link'[l] = "used"
    BY <1>1, <1>7, SpentLinks DEF Mint
  <2> QED
    BY <1>1, <1>7, <2>1, OthersSpendingStands DEF Mint, Finish, Placed
<1> QED
  BY <1>2, <1>3, <1>4, <1>5, <1>6, <1>7

LEMMA NextKeepsSpending == Inv /\ LinksSpending /\ [Next]_vars => LinksSpending'
<1> SUFFICES ASSUME Inv, LinksSpending, [Next]_vars PROVE LinksSpending'
  OBVIOUS
<1>1. ASSUME NEW r \in Request, Ask(r) PROVE LinksSpending'
  BY <1>1, UseLinkKeepsSpending, OthersKeepSpending DEF Ask
<1>2. ASSUME NEW r \in Request, Handle(r) PROVE LinksSpending'
  BY <1>2, UpdateKeepsSpending, MarkUsedKeepsSpending, FailsKeepsSpending, OthersKeepSpending
  DEF Handle
<1>3. ASSUME NEW l \in Link, Expire(l) PROVE LinksSpending'
  BY <1>3, SpendingStands DEF Expire, Inv, TypeOK, Using
<1>4. CASE UNCHANGED vars
  BY <1>4, SpendingStands DEF vars, Using
<1> QED
  BY <1>1, <1>2, <1>3, <1>4 DEF Next

-----------------------------------------------------------------------------
(* What the account keeps.                                                 *)

\* The row holds the password last asked for by a profile update or a reset, as
\* long as no two requests that save the row overlap: the request that saves holds
\* an entity which differs from the row in what it was asked for and nothing else.
THEOREM KeepsChosenPassword == Spec => []PasswordAsChosen
<1>1. Inv => PasswordAsChosen
  BY DEF Inv
<1> QED
  BY <1>1, Inductive, PTL

\* No step unsets the verification of an address, again without such an overlap:
\* the entity a save writes was read after the verification it would unset.
THEOREM KeepsVerification == Spec => StaysVerified
<1>1. Inv /\ [Next]_vars => [user.verified /\ "save" \notin clashed => user'.verified]_vars
  BY NextKeepsInv
<1> QED
  BY <1>1, Inductive, PTL DEF Spec, StaysVerified

\* A link changes the account once, whatever issues, jobs and other requests run
\* beside its use, unless two requests came with it at once or the save of one was
\* never marked: the request that has saved keeps it from the others until the link
\* is used, and no issue opens it again.
THEOREM LinkChangesOnce == Spec => []SingleUse
<1>1. Init => LinksSpending
  BY IdleType DEF Init, LinksSpending, Spending, Using
<1>2. Inv /\ LinksSpending /\ [Next]_vars => LinksSpending'
  BY NextKeepsSpending
<1>3. LinksSpending => SingleUse
  BY DEF LinksSpending, Spending, SingleUse
<1> QED
  BY <1>1, <1>2, <1>3, Inductive, PTL DEF Spec

\* A user has one usable reset link, as long as no two issues overlap: the links
\* an issue picked are all that are usable when it mints its own.
THEOREM OneResetLink == Spec => []OneUsableLink
<1>1. Inv => OneUsableLink
  BY DEF Inv
<1> QED
  BY <1>1, Inductive, PTL
=============================================================================
