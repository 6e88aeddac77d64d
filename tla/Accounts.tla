------------------------------ MODULE Accounts -------------------------------
(***************************************************************************)
(* One user's account: the row in users, and the links mailed to reset its *)
(* password and to verify its address.  A profile update, a used link and  *)
(* the issue of a new one read the row, then write it with no lock or      *)
(* transaction between; each step is one statement.                        *)
(*                                                                         *)
(* UserRepositorySequelize.save reads the row again and updates the        *)
(* columns whose value in the entity differs from that row.                *)
(***************************************************************************)
EXTENDS Naturals, FiniteSets

CONSTANTS
    ResetLink, VerifyLink,  \* rows of the two token tables, and the links
    Password, First,        \* passwords, and the one the account starts with
    Request,                \* requests and queued jobs under way at once
    NoLink

ASSUME AccountsAssumption ==
    /\ First \in Password
    /\ ResetLink \cap VerifyLink = {} /\ NoLink \notin ResetLink \cup VerifyLink

Link == ResetLink \cup VerifyLink

VARIABLES
    user,     \* the row: password, and whether emailVerifiedAt is set
    link,     \* each link: absent, open, expired or used
    req,      \* what each request is doing
    chosen,   \* the password last asked for (history)
    use,      \* how often each link has changed the account (history)
    clashed   \* overlaps there have been: of two saves, of two issues (history)

vars == <<user, link, req, chosen, use, clashed>>

Start == [password |-> First, verified |-> FALSE]

\* fields: what the request is asked to change; entity: the AuthUser it holds;
\* found: the row as save has read it; picked: the links its UPDATE will spend.
Idle == [kind |-> "none", pc |-> "idle", link |-> NoLink, fields |-> {},
         entity |-> Start, found |-> Start, picked |-> {}]

Init ==
    /\ user = Start
    /\ link = [l \in Link |-> "absent"]
    /\ req = [r \in Request |-> Idle]
    /\ chosen = First
    /\ use = [l \in Link |-> "never"]
    /\ clashed = {}

Step(r, pc) == req' = [req EXCEPT ![r].pc = pc]
Finish(r)   == req' = [req EXCEPT ![r] = Idle]

\* What a request does to the database: write the row, or issue a link.
Effect(kind) == CASE kind = "none" -> {}
                  [] kind \in {"request", "job"} -> {"issue"}
                  [] OTHER -> {"save"}

\* A request with this effect begins: another one may be under way.
Begins(effect) ==
    clashed' = IF \E q \in Request : effect \in Effect(req[q].kind)
               THEN clashed \cup {effect} ELSE clashed

\* Links a job's transaction has updated and not committed.
Held(r) == IF req[r].kind = "job" /\ req[r].pc = "mint" THEN req[r].picked ELSE {}

\* A request under way that was made with this link.
Using(r, l) == req[r].kind \in {"reset", "verify"} /\ req[r].link = l

\* How often a link has changed the account: not counted once it is loose, that
\* is once two requests used it at once, or one saved and never marked it.
Counted(u) == CASE u = "never" -> "once"
                [] u = "loose" -> "loose"
                [] OTHER -> "again"

-----------------------------------------------------------------------------
(* Requests that change the row.                                           *)

\* findByTokenHash: a used or expired link is refused.
UseLink(r, l) ==
    /\ req[r].pc = "idle"
    /\ link[l] = "open"
    /\ req' = [req EXCEPT ![r] = [Idle EXCEPT !.pc = "read", !.link = l,
                  !.kind = IF l \in ResetLink THEN "reset" ELSE "verify",
                  !.fields = IF l \in ResetLink THEN {"password"} ELSE {"verified"}]]
    /\ Begins("save")
    /\ use' = IF \E q \in Request : Using(q, l) THEN [use EXCEPT ![l] = "loose"] ELSE use
    /\ UNCHANGED <<user, link, chosen>>

\* fields is empty when no password is given: the other columns a profile update
\* may set are not modelled.
UpdateProfile(r, fields) ==
    /\ req[r].pc = "idle"
    /\ req' = [req EXCEPT ![r] = [Idle EXCEPT !.kind = "profile", !.pc = "read",
                                  !.fields = fields]]
    /\ Begins("save")
    /\ UNCHANGED <<user, link, chosen, use>>

\* The AuthUser as the request edits it.
Edited(row, fields, password) ==
    [row EXCEPT !.password = IF "password" \in fields THEN password ELSE @,
                !.verified = @ \/ "verified" \in fields]

\* Mutant: a profile update without a password hashes what it did not get.
FindUserHashingAlways(r, password) ==
    /\ req[r].pc = "read"
    /\ req' = [req EXCEPT ![r].pc = "save",
                  ![r].entity = Edited(user, req[r].fields \cup {"password"}, password)]
    /\ UNCHANGED <<user, link, chosen, use, clashed>>

\* Mutant: fromPersistence is not given emailVerifiedAt.
FindUserUnverified(r, password) ==
    /\ req[r].pc = "read"
    /\ req' = [req EXCEPT ![r].pc = "save",
                  ![r].entity = Edited([user EXCEPT !.verified = FALSE],
                                       req[r].fields, password)]
    /\ UNCHANGED <<user, link, chosen, use, clashed>>

\* findById, and the changes asked for.
FindUser(r, password) ==
    /\ req[r].pc = "read"
    /\ req' = [req EXCEPT ![r].pc = "save",
                  ![r].entity = Edited(user, req[r].fields, password)]
    /\ UNCHANGED <<user, link, chosen, use, clashed>>

\* save: findByPk.
FindRow(r) ==
    /\ req[r].pc = "save"
    /\ req' = [req EXCEPT ![r].pc = "update", ![r].found = user]
    /\ UNCHANGED <<user, link, chosen, use, clashed>>

\* save: UPDATE of the columns that differ from the row it found; a new hash
\* always does.
Update(r) ==
    LET e == req[r].entity
        new == req[r].fields \cap {"password"}
        dirty == new \cup {c \in DOMAIN e : e[c] # req[r].found[c]} IN
    /\ req[r].pc = "update"
    /\ user' = [c \in DOMAIN user |-> IF c \in dirty THEN e[c] ELSE user[c]]
    /\ chosen' = IF "password" \in req[r].fields THEN e.password ELSE chosen
    /\ IF req[r].kind = "profile"
       THEN Finish(r)
       ELSE req' = [req EXCEPT ![r] = [Idle EXCEPT !.kind = req[r].kind, !.pc = "mark",
                                                   !.link = req[r].link]]
    /\ use' = [l \in Link |-> IF l = req[r].link THEN Counted(use[l]) ELSE use[l]]
    /\ UNCHANGED <<link, clashed>>

\* Mutant: the request is answered without marking its link.
MarkUsedLater(r) ==
    /\ req[r].pc = "mark"
    /\ Finish(r)
    /\ UNCHANGED <<user, link, chosen, use, clashed>>

\* markUsed, then the answer.
MarkUsed(r) ==
    /\ req[r].pc = "mark"
    /\ \A q \in Request : req[r].link \notin Held(q)
    /\ link' = [link EXCEPT ![req[r].link] = "used"]
    /\ Finish(r)
    /\ UNCHANGED <<user, chosen, use, clashed>>

-----------------------------------------------------------------------------
(* Issuing a link: spend the earlier ones, mint one.  A queued job does    *)
(* both in one transaction; a request without the queue in two.            *)

Unused(links) == {l \in links : link[l] \in {"open", "expired"}}

Table(l) == IF l \in ResetLink THEN ResetLink ELSE VerifyLink

\* The UPDATE picks the unused links; l stands for the table, and is not minted
\* yet.  Nothing is issued to a user already verified.
Issue(r, l, kind) ==
    /\ req[r].pc = "idle"
    /\ link[l] = "absent"
    /\ l \in VerifyLink => ~user.verified
    /\ req' = [req EXCEPT ![r] = [Idle EXCEPT !.kind = kind, !.pc = "spend",
                                  !.link = l, !.picked = Unused(Table(l))]]
    /\ Begins("issue")
    /\ UNCHANGED <<user, link, chosen, use>>

Spent(links) == [l \in Link |-> IF l \in links THEN "used" ELSE link[l]]

\* Mutant: only the links that have expired are spent.
SpendEarlierExpired(r) ==
    /\ req[r].pc = "spend"
    /\ req' = [req EXCEPT ![r].pc = "mint",
                          ![r].picked = {l \in @ : link[l] = "expired"}]
    /\ UNCHANGED <<user, link, chosen, use, clashed>>

\* invalidateAllForUser, revokeAllForUser: waits for the rows another
\* transaction has updated.
SpendEarlier(r) ==
    /\ req[r].pc = "spend"
    /\ \A q \in Request : Held(q) \cap req[r].picked = {}
    /\ Step(r, "mint")
    /\ link' = IF req[r].kind = "job" THEN link ELSE Spent(req[r].picked)
    /\ UNCHANGED <<user, chosen, use, clashed>>

\* The insert; a job's commit shows both.
Mint(r) ==
    /\ req[r].pc = "mint"
    /\ link[req[r].link] = "absent"
    /\ link' = [Spent(req[r].picked) EXCEPT ![req[r].link] = "open"]
    /\ Finish(r)
    /\ UNCHANGED <<user, chosen, use, clashed>>

-----------------------------------------------------------------------------
Expire(l) ==
    /\ link[l] = "open"
    /\ link' = [link EXCEPT ![l] = "expired"]
    /\ UNCHANGED <<user, req, chosen, use, clashed>>

\* A statement fails, the send of a job fails, or the process dies: the link of a
\* request that has saved stays open.
Fails(r) ==
    /\ req[r].pc # "idle"
    /\ Finish(r)
    /\ use' = [l \in Link |-> IF req[r].pc = "mark" /\ l = req[r].link THEN "loose" ELSE use[l]]
    /\ UNCHANGED <<user, link, chosen, clashed>>

Handle(r) ==
    \/ \E p \in Password : FindUser(r, p)
    \/ FindRow(r) \/ Update(r) \/ MarkUsed(r)
    \/ SpendEarlier(r) \/ Mint(r)
    \/ Fails(r)

Ask(r) ==
    \/ \E l \in Link : UseLink(r, l)
    \/ \E fields \in SUBSET {"password"} : UpdateProfile(r, fields)
    \/ \E l \in Link, kind \in {"request", "job"} : Issue(r, l, kind)

Next ==
    \/ \E r \in Request : Ask(r) \/ Handle(r)
    \/ \E l \in Link : Expire(l)

Spec == Init /\ [][Next]_vars

-----------------------------------------------------------------------------
(* What the account keeps.                                                 *)

\* The password is the one last asked for, by a profile update or a reset, and
\* no save of another field brings an earlier one back, as long as no two
\* requests that write the row overlap; links may be issued beside them.
PasswordAsChosen == "save" \notin clashed => user.password = chosen

\* An address once verified stays verified, again without such an overlap: a
\* reset that read the row before the verification unsets it.
StaysVerified ==
    [][user.verified /\ "save" \notin clashed => user'.verified]_vars

\* A link changes the account once, whatever requests, issues and jobs run beside
\* its use, unless two requests came with it at once or the mark after its save
\* failed: nothing but the check at the start keeps a second use out.
SingleUse == \A l \in Link : use[l] # "again"

\* "Invalidates the user's earlier tokens and mints one": the user has one
\* usable reset link, unless two issues overlapped and did not see each other's.
\* A job that fails between the two rolls both back, a request only loses the
\* earlier link.
OneUsableLink ==
    "issue" \notin clashed =>
        \A k, l \in ResetLink : link[k] = "open" /\ link[l] = "open" => k = l
=============================================================================
