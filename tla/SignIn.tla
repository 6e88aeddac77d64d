------------------------------- MODULE SignIn --------------------------------
(***************************************************************************)
(* Registering and logging in, below the HTTP layer: RegisterUser, which   *)
(* writes four rows in one transaction, and LoginUser with the lockout of  *)
(* loginLockout.ts, a counter per address in Redis that fails open.  Each  *)
(* step is one statement or one Redis command.                             *)
(***************************************************************************)
EXTENDS Naturals, FiniteSets

CONSTANTS
    Email, Username,  \* addresses as hashEmail and execute normalize them
    Request,          \* requests under way at once
    Threshold,        \* LOCKOUT_THRESHOLD
    MaxFaults,        \* bound: Redis commands that fail
    None

ASSUME SignInAssumption ==
    /\ Threshold \in Nat \ {0} /\ MaxFaults \in Nat
    /\ IsFiniteSet(Request) /\ None \notin Username

VARIABLES
    rows,     \* the tables that hold a row of each address's account
    named,    \* users.username
    outside,  \* users without an active membership
    count,    \* the lockout counter; 0 is no key
    expiring, \* the counters with a time to live
    at,       \* what each request is doing
    faults,   \* Redis commands that have failed
    lost,     \* counters whose EXPIRE was lost (history)
    guesses,  \* wrong passwords tried since the counter was cleared (history)
    missed    \* addresses with a command lost since then (history)

counter == <<count, expiring, lost, guesses, missed>>
accounts == <<rows, named, outside>>
signIn == <<accounts, counter, at, faults>>

Tables == {"user", "organization", "membership", "token"}

Idle == [pc |-> "idle", email |-> None, name |-> None, rows |-> {}, status |-> 0]

SignInInit ==
    /\ rows = [e \in Email |-> {}] /\ named = [e \in Email |-> None] /\ outside = {}
    /\ count = [e \in Email |-> 0] /\ expiring = {} /\ lost = {}
    /\ guesses = [e \in Email |-> 0] /\ missed = {}
    /\ at = [r \in Request |-> Idle] /\ faults = 0

Goto(r, pc) == at' = [at EXCEPT ![r].pc = pc]
Answer(r, status) == at' = [at EXCEPT ![r] = [Idle EXCEPT !.pc = "answer", !.status = status]]

Fault == faults < MaxFaults /\ faults' = faults + 1

-----------------------------------------------------------------------------
(* RegisterUser.                                                           *)

Register(r, e, n) ==
    /\ at[r].pc = "idle"
    /\ at' = [at EXCEPT ![r] = [Idle EXCEPT !.pc = "email", !.email = e, !.name = n]]
    /\ UNCHANGED <<accounts, counter, faults>>

NameTaken(n) == \E e \in Email : named[e] = n

ExistsByEmail(r) ==
    /\ at[r].pc = "email"
    /\ IF rows[at[r].email] # {} THEN Answer(r, 409) ELSE Goto(r, "username")
    /\ UNCHANGED <<accounts, counter, faults>>

ExistsByUsername(r) ==
    /\ at[r].pc = "username"
    /\ IF NameTaken(at[r].name) THEN Answer(r, 409) ELSE Goto(r, "user")
    /\ UNCHANGED <<accounts, counter, faults>>

\* The unique indexes make an insert wait for another one not yet committed.
Waits(r) ==
    \E q \in Request \ {r} :
        /\ at[q].rows # {}
        /\ at[q].email = at[r].email \/ at[q].name = at[r].name

\* Mutant: repo.create is not given the transaction.
InsertUserApart(r) ==
    /\ at[r].pc = "user" /\ ~Waits(r)
    /\ IF rows[at[r].email] # {} \/ NameTaken(at[r].name)
       THEN Answer(r, 409) /\ UNCHANGED rows
       ELSE /\ rows' = [rows EXCEPT ![at[r].email] = {"user"}]
            /\ at' = [at EXCEPT ![r].pc = "organization", ![r].rows = {"user"}]
    /\ UNCHANGED <<named, outside, counter, faults>>

\* repo.create: a duplicate is a UniqueConstraintError, and rolls back.
InsertUser(r) ==
    /\ at[r].pc = "user" /\ ~Waits(r)
    /\ IF rows[at[r].email] # {} \/ NameTaken(at[r].name)
       THEN Answer(r, 409)
       ELSE at' = [at EXCEPT ![r].pc = "organization", ![r].rows = {"user"}]
    /\ UNCHANGED <<accounts, counter, faults>>

Following == [organization |-> "membership", membership |-> "token", token |-> "commit"]

\* orgRepo.create, membershipRepo.create, issueRefreshToken.executeInTransaction.
InsertRow(r) ==
    /\ at[r].pc \in DOMAIN Following
    /\ at' = [at EXCEPT ![r].pc = Following[@], ![r].rows = @ \cup {at[r].pc}]
    /\ UNCHANGED <<accounts, counter, faults>>

\* The commit, and the answer once the verification email is scheduled, which never
\* fails the request; the commit's own reply may be lost.
Commit(r) ==
    /\ at[r].pc = "commit"
    /\ rows' = [rows EXCEPT ![at[r].email] = at[r].rows]
    /\ named' = [named EXCEPT ![at[r].email] = at[r].name]
    /\ \E status \in {201, 500} : Answer(r, status)
    /\ UNCHANGED <<outside, counter, faults>>

\* A statement fails, the transaction rolls back; or LoginUser's database does.
StatementFails(r) ==
    /\ at[r].pc \in {"email", "username", "user", "commit", "find", "member"}
                        \cup DOMAIN Following
    /\ Answer(r, 500)
    /\ UNCHANGED <<accounts, counter, faults>>

-----------------------------------------------------------------------------
(* The login handler: checkLockout, then LoginUser.                        *)

Login(r, e) ==
    /\ at[r].pc = "idle"
    /\ at' = [at EXCEPT ![r] = [Idle EXCEPT !.pc = "check", !.email = e]]
    /\ UNCHANGED <<accounts, counter, faults>>

\* Mutant: one attempt more than the threshold is let through.
CheckLockoutLate(r) ==
    /\ at[r].pc = "check"
    /\ IF count[at[r].email] > Threshold THEN Answer(r, 429) ELSE Goto(r, "find")
    /\ UNCHANGED <<accounts, counter, faults>>

CheckLockout(r) ==
    /\ at[r].pc = "check"
    /\ IF count[at[r].email] >= Threshold THEN Answer(r, 429) ELSE Goto(r, "find")
    /\ UNCHANGED <<accounts, counter, faults>>

\* Redis is closed or the GET fails: the attempt is let through.
CheckSkipped(r) ==
    /\ at[r].pc = "check"
    /\ Fault
    /\ Goto(r, "find")
    /\ missed' = missed \cup {at[r].email}
    /\ UNCHANGED <<accounts, count, expiring, lost, guesses>>

\* findByEmail and compare. No user is refused as a wrong password is.
RightPassword(r) ==
    /\ at[r].pc = "find" /\ rows[at[r].email] # {}
    /\ Goto(r, "member")
    /\ UNCHANGED <<accounts, counter, faults>>

WrongPassword(r) ==
    LET e == at[r].email IN
    /\ at[r].pc = "find"
    /\ Goto(r, "record")
    /\ guesses' = IF e \in missed THEN guesses ELSE [guesses EXCEPT ![e] = @ + 1]
    /\ UNCHANGED <<accounts, count, expiring, lost, missed, faults>>

\* Mutant: the counter is given its time to live when it locks, not when it starts.
RecordFailureLate(r) ==
    LET e == at[r].email IN
    /\ at[r].pc = "record"
    /\ count' = [count EXCEPT ![e] = @ + 1]
    /\ IF count'[e] = Threshold + 1 THEN Goto(r, "expire") ELSE Answer(r, 401)
    /\ UNCHANGED <<accounts, expiring, lost, guesses, missed, faults>>

\* INCR: only the first failure sets the time to live.
RecordFailure(r) ==
    LET e == at[r].email IN
    /\ at[r].pc = "record"
    /\ count' = [count EXCEPT ![e] = @ + 1]
    /\ IF count'[e] = 1 THEN Goto(r, "expire") ELSE Answer(r, 401)
    /\ UNCHANGED <<accounts, expiring, lost, guesses, missed, faults>>

\* Redis is closed or the INCR fails: it has counted or not, and no EXPIRE follows.
RecordFails(r) ==
    LET e == at[r].email IN
    /\ at[r].pc = "record"
    /\ Fault
    /\ \/ count' = count /\ missed' = missed \cup {e} /\ lost' = lost
       \/ /\ count' = [count EXCEPT ![e] = @ + 1]
          /\ lost' = IF count[e] = 0 THEN lost \cup {e} ELSE lost
          /\ missed' = missed
    /\ Answer(r, 401)
    /\ UNCHANGED <<accounts, expiring, guesses>>

\* EXPIRE does nothing to a key that is gone.
SetExpiry(r) ==
    LET e == at[r].email IN
    /\ at[r].pc = "expire"
    /\ expiring' = IF count[e] > 0 THEN expiring \cup {e} ELSE expiring
    /\ lost' = lost \ {e}
    /\ Answer(r, 401)
    /\ UNCHANGED <<accounts, count, guesses, missed, faults>>

\* The EXPIRE fails, or the process dies before it.
ExpiryLost(r) ==
    LET e == at[r].email IN
    /\ at[r].pc = "expire"
    /\ Fault
    /\ lost' = IF count[e] > 0 /\ e \notin expiring THEN lost \cup {e} ELSE lost
    /\ Answer(r, 401)
    /\ UNCHANGED <<accounts, count, expiring, guesses, missed>>

\* findDefaultByUser, then the refresh token: its row is RefreshSessions' own.
FindMembership(r) ==
    /\ at[r].pc = "member"
    /\ IF at[r].email \in outside THEN Answer(r, 403) ELSE Goto(r, "reset")
    /\ UNCHANGED <<accounts, counter, faults>>

Clear(e) ==
    /\ count' = [count EXCEPT ![e] = 0]
    /\ expiring' = expiring \ {e} /\ lost' = lost \ {e}
    /\ guesses' = [guesses EXCEPT ![e] = 0] /\ missed' = missed \ {e}

\* resetLockout: DEL, then the answer.
Reset(r) ==
    /\ at[r].pc = "reset"
    /\ Answer(r, 200)
    /\ Clear(at[r].email)
    /\ UNCHANGED <<accounts, faults>>

ResetFails(r) ==
    /\ at[r].pc = "reset"
    /\ Fault
    /\ Answer(r, 200)
    /\ UNCHANGED <<accounts, counter>>

\* LOCKOUT_TTL_SECONDS have passed.
KeyExpires(e) ==
    /\ e \in expiring
    /\ Clear(e)
    /\ UNCHANGED <<accounts, at, faults>>

\* An owner removes the user, or an invite lets them in again (Members).
MembershipChanges(e) ==
    /\ rows[e] # {}
    /\ outside' = IF e \in outside THEN outside \ {e} ELSE outside \cup {e}
    /\ UNCHANGED <<rows, named, counter, at, faults>>

SignInStep(r) ==
    \/ ExistsByEmail(r) \/ ExistsByUsername(r) \/ InsertUser(r) \/ InsertRow(r) \/ Commit(r)
    \/ StatementFails(r)
    \/ CheckLockout(r) \/ CheckSkipped(r) \/ RightPassword(r) \/ WrongPassword(r)
    \/ RecordFailure(r) \/ RecordFails(r) \/ SetExpiry(r) \/ ExpiryLost(r)
    \/ FindMembership(r) \/ Reset(r) \/ ResetFails(r)

SignInElsewhere == \E e \in Email : KeyExpires(e) \/ MembershipChanges(e)

-----------------------------------------------------------------------------
(* What registration and the lockout promise.                              *)

\* "A partial registration leaves an account nobody can sign into" (RegisterUser.ts):
\* whichever statement failed and whoever registered at once, an address has all of its
\* rows or none, and a username one address.
AccountsWhole ==
    /\ \A e \in Email : rows[e] \in {{}, Tables}
    /\ \A e, f \in Email : named[e] = named[f] /\ named[e] # None => e = f

\* While Redis answers, an address is not tried more often than the threshold and the
\* attempts that had passed the check when it was reached: "the (N+1)th request is
\* blocked" (loginLockout.ts) holds of requests that do not overlap.
GuessesBounded ==
    \A e \in Email :
        e \in missed \/ guesses[e] <= Threshold - 1 + Cardinality(Request)

\* A lock ends by itself, unless the one EXPIRE its counter gets was lost.
LockEnds ==
    \A e \in Email : count[e] >= Threshold ~> count[e] < Threshold \/ e \in lost
=============================================================================
