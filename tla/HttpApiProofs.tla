---------------------------- MODULE HttpApiProofs ----------------------------
(***************************************************************************)
(* That a registration leaves all of an account's rows or none, that an    *)
(* address is not tried more often than the lockout and the requests under *)
(* way allow, that a limiter counts its own requests only, and that every  *)
(* request ends with an answer the document lists, for any addresses,      *)
(* usernames and requests, threshold, budget and bounds.                   *)
(***************************************************************************)
EXTENDS HttpApi, FiniteSetTheorems, TLAPS

LoginPlaces == {"check", "find", "member", "reset", "record", "expire"}
RegisterPlaces ==
    {"email", "username", "user", "organization", "membership", "token", "commit"}

ReqState ==
    [pc : {"idle", "answer"} \cup LoginPlaces \cup RegisterPlaces,
     email : Email \cup {None}, name : Username \cup {None},
     rows : SUBSET Tables, status : Nat]

CounterType ==
    /\ count \in [Email -> Nat] /\ guesses \in [Email -> Nat]
    /\ expiring \subseteq Email /\ lost \subseteq Email /\ missed \subseteq Email

TypeOK ==
    /\ rows \in [Email -> SUBSET Tables]
    /\ named \in [Email -> Username \cup {None}]
    /\ CounterType
    /\ at \in [Request -> ReqState]

-----------------------------------------------------------------------------
(* The inductive invariant: registration.                                  *)

\* The rows a registration has inserted and not committed.
Inserted(pc) ==
    CASE pc = "organization" -> {"user"}
      [] pc = "membership" -> {"user", "organization"}
      [] pc = "token" -> {"user", "organization", "membership"}
      [] pc = "commit" -> Tables
      [] OTHER -> {}

Placed(q) ==
    /\ q.pc \in LoginPlaces \cup RegisterPlaces => q.email \in Email
    /\ q.pc \in RegisterPlaces => q.name \in Username
    /\ q.rows = Inserted(q.pc)

RequestsPlaced == \A r \in Request : Placed(at[r])

\* An open transaction is for an address without an account and a name nobody has.
OpenIsFresh ==
    \A r \in Request :
        at[r].rows # {} => rows[at[r].email] = {} /\ ~NameTaken(at[r].name)

\* The unique indexes keep two open transactions apart.
OpenApart ==
    \A r, q \in Request :
        at[r].rows # {} /\ at[q].rows # {} /\ r # q =>
            at[r].email # at[q].email /\ at[r].name # at[q].name

Inv == TypeOK /\ RequestsPlaced /\ OpenIsFresh /\ OpenApart /\ AccountsWhole

-----------------------------------------------------------------------------
LEMMA IdleFacts ==
    Idle \in ReqState /\ Placed(Idle) /\ Idle.rows = {} /\ Idle.pc = "idle"
BY DEF Idle, ReqState, Placed, Inserted, LoginPlaces, RegisterPlaces

LEMMA AnswerFacts ==
    ASSUME NEW r \in Request, NEW status \in Nat, Answer(r, status)
    PROVE  \E rec \in ReqState :
              /\ at' = [at EXCEPT ![r] = rec]
              /\ rec.pc = "answer" /\ rec.rows = {} /\ Placed(rec)
<1> DEFINE rec == [Idle EXCEPT !.pc = "answer", !.status = status]
<1>1. rec \in ReqState /\ rec.pc = "answer" /\ rec.rows = {}
  BY IdleFacts DEF ReqState
<1>2. Placed(rec)
  BY <1>1 DEF Placed, Inserted, LoginPlaces, RegisterPlaces
<1> QED
  BY <1>1, <1>2 DEF Answer

\* A request goes on to another place of the same kind, with no transaction open.
LEMMA GotoFacts ==
    ASSUME TypeOK, RequestsPlaced, NEW r \in Request, NEW pc, Goto(r, pc),
           \/ pc \in LoginPlaces /\ at[r].pc \in LoginPlaces
           \/ pc \in {"email", "username", "user"} /\ at[r].pc \in {"email", "username", "user"}
    PROVE  \E rec \in ReqState :
              /\ at' = [at EXCEPT ![r] = rec]
              /\ rec.pc = pc /\ rec.email = at[r].email /\ rec.rows = {} /\ Placed(rec)
<1> DEFINE rec == [at[r] EXCEPT !.pc = pc]
<1>1. at[r] \in ReqState /\ Placed(at[r])
  BY DEF TypeOK, RequestsPlaced
<1>2. rec \in ReqState /\ rec.pc = pc /\ rec.email = at[r].email /\ rec.name = at[r].name
      /\ rec.rows = at[r].rows
  BY <1>1 DEF ReqState, LoginPlaces, RegisterPlaces
<1>3. at[r].rows = {} /\ Placed(rec)
  BY <1>1, <1>2 DEF Placed, Inserted, LoginPlaces, RegisterPlaces
<1> QED
  BY <1>2, <1>3 DEF Goto

LEMMA InvInit == HttpInit => Inv
<1> SUFFICES ASSUME SignInInit PROVE Inv
  BY DEF HttpInit
<1>1. TypeOK
  BY IdleFacts DEF SignInInit, TypeOK, CounterType
<1>2. RequestsPlaced /\ OpenIsFresh /\ OpenApart
  BY IdleFacts DEF SignInInit, RequestsPlaced, OpenIsFresh, OpenApart
<1>3. AccountsWhole
  BY DEF SignInInit, AccountsWhole
<1> QED
  BY <1>1, <1>2, <1>3 DEF Inv

\* A request goes on outside its transaction, or within it.
LEMMA RequestMoves ==
    ASSUME Inv, NEW r \in Request, NEW rec \in ReqState, at' = [at EXCEPT ![r] = rec],
           Placed(rec), UNCHANGED <<rows, named>>, CounterType',
           \/ rec.rows = {}
           \/ at[r].rows # {} /\ rec.email = at[r].email /\ rec.name = at[r].name
    PROVE  Inv'
<1>1. \A q \in Request : at'[q] = IF q = r THEN rec ELSE at[q]
  BY DEF Inv, TypeOK
<1>2. TypeOK'
  BY DEF Inv, TypeOK
<1>3. RequestsPlaced'
  BY <1>1 DEF Inv, RequestsPlaced, Placed
<1>4. OpenIsFresh'
  BY <1>1 DEF Inv, OpenIsFresh, NameTaken
<1>5. OpenApart'
  BY <1>1 DEF Inv, OpenApart
<1>6. AccountsWhole'
  BY DEF Inv, AccountsWhole
<1> QED
  BY <1>2, <1>3, <1>4, <1>5, <1>6 DEF Inv

-----------------------------------------------------------------------------
(* RegisterUser.                                                           *)

LEMMA RegisterKeepsInv ==
    ASSUME Inv, NEW r \in Request, NEW e \in Email, NEW n \in Username, Register(r, e, n)
    PROVE  Inv'
<1> DEFINE rec == [Idle EXCEPT !.pc = "email", !.email = e, !.name = n]
<1>1. rec \in ReqState /\ rec.pc = "email" /\ rec.email = e /\ rec.name = n /\ rec.rows = {}
  BY IdleFacts DEF ReqState, RegisterPlaces
<1>2. Placed(rec)
  BY <1>1 DEF Placed, Inserted, LoginPlaces, RegisterPlaces
<1>3. at' = [at EXCEPT ![r] = rec] /\ UNCHANGED <<accounts, counter>>
  BY DEF Register
<1>4. CounterType'
  BY <1>3 DEF Inv, TypeOK, CounterType, counter
<1> HIDE DEF rec
<1> QED
  BY <1>1, <1>2, <1>3, <1>4, RequestMoves DEF accounts

LEMMA InsertUserKeepsInv ==
    ASSUME Inv, NEW r \in Request, InsertUser(r)
    PROVE  Inv'
<1>1. UNCHANGED <<accounts, counter>> /\ CounterType'
  BY DEF InsertUser, Inv, TypeOK, CounterType, counter
<1>2. CASE rows[at[r].email] # {} \/ NameTaken(at[r].name)
  <2>1. Answer(r, 409)
    BY <1>2 DEF InsertUser
  <2> QED
    BY <1>1, <2>1, AnswerFacts, RequestMoves DEF accounts
<1>3. CASE ~(rows[at[r].email] # {} \/ NameTaken(at[r].name))
  <2> DEFINE rec == [at[r] EXCEPT !.pc = "organization", !.rows = {"user"}]
  <2>1. at[r] \in ReqState /\ Placed(at[r]) /\ at[r].pc = "user" /\ ~Waits(r)
    BY DEF Inv, TypeOK, RequestsPlaced, InsertUser
  <2>2. rec \in ReqState /\ rec.pc = "organization" /\ rec.rows = {"user"}
        /\ rec.email = at[r].email /\ rec.name = at[r].name
    BY <2>1 DEF ReqState, RegisterPlaces, Tables
  <2>3. Placed(rec)
    BY <2>1, <2>2 DEF Placed, Inserted, LoginPlaces, RegisterPlaces
  <2>4. at' = [at EXCEPT ![r] = rec]
    BY <1>3 DEF InsertUser
  <2> HIDE DEF rec
  <2>5. \A q \in Request : at'[q] = IF q = r THEN rec ELSE at[q]
    BY <2>4 DEF Inv, TypeOK
  <2>6. TypeOK' /\ RequestsPlaced'
    BY <1>1, <2>2, <2>3, <2>4, <2>5 DEF Inv, TypeOK, RequestsPlaced, Placed, accounts
  <2>7. OpenIsFresh'
    BY <1>1, <1>3, <2>2, <2>5 DEF Inv, OpenIsFresh, NameTaken, accounts
  <2>8. OpenApart'
    BY <2>1, <2>2, <2>5 DEF Inv, OpenApart, Waits
  <2>9. AccountsWhole'
    BY <1>1 DEF Inv, AccountsWhole, accounts
  <2> QED
    BY <2>6, <2>7, <2>8, <2>9 DEF Inv
<1> QED
  BY <1>2, <1>3

LEMMA InsertRowKeepsInv ==
    ASSUME Inv, NEW r \in Request, InsertRow(r)
    PROVE  Inv'
<1> DEFINE rec == [at[r] EXCEPT !.pc = Following[@], !.rows = @ \cup {at[r].pc}]
<1>1. at[r] \in ReqState /\ Placed(at[r])
      /\ at[r].pc \in {"organization", "membership", "token"}
  BY DEF Inv, TypeOK, RequestsPlaced, InsertRow, Following
<1>2. at' = [at EXCEPT ![r] = rec] /\ UNCHANGED <<accounts, counter>>
  BY DEF InsertRow
<1>3. CounterType'
  BY <1>2 DEF Inv, TypeOK, CounterType, counter
<1>4. Following[at[r].pc] = CASE at[r].pc = "organization" -> "membership"
                              [] at[r].pc = "membership" -> "token"
                              [] at[r].pc = "token" -> "commit"
  BY <1>1 DEF Following
<1>5. rec \in ReqState /\ rec.pc = Following[at[r].pc] /\ rec.email = at[r].email
      /\ rec.name = at[r].name /\ rec.rows = at[r].rows \cup {at[r].pc}
  BY <1>1, <1>4 DEF ReqState, RegisterPlaces, Tables
<1>6. at[r].rows # {} /\ Placed(rec)
  BY <1>1, <1>4, <1>5 DEF Placed, Inserted, LoginPlaces, RegisterPlaces, Tables
<1> HIDE DEF rec
<1> QED
  BY <1>2, <1>3, <1>5, <1>6, RequestMoves DEF accounts

\* The rows committed are all four, of an address and a name that were free.
LEMMA CommitKeepsInv ==
    ASSUME Inv, NEW r \in Request, Commit(r)
    PROVE  Inv'
<1>1. at[r] \in ReqState /\ at[r].rows = Tables /\ at[r].email \in Email
      /\ at[r].name \in Username /\ Tables # {}
  BY DEF Inv, TypeOK, RequestsPlaced, Placed, Commit, Inserted, RegisterPlaces, Tables
<1>2. rows[at[r].email] = {} /\ ~NameTaken(at[r].name)
  BY <1>1 DEF Inv, OpenIsFresh
<1>3. UNCHANGED counter
      /\ \A e \in Email :
            /\ rows'[e] = IF e = at[r].email THEN Tables ELSE rows[e]
            /\ named'[e] = IF e = at[r].email THEN at[r].name ELSE named[e]
  BY <1>1 DEF Inv, TypeOK, Commit
<1>4. PICK rec \in ReqState : at' = [at EXCEPT ![r] = rec] /\ rec.rows = {} /\ Placed(rec)
  <2>1. \E status \in {201, 500} : Answer(r, status)
    BY DEF Commit
  <2> QED
    BY <2>1, AnswerFacts
<1>5. \A q \in Request : at'[q] = IF q = r THEN rec ELSE at[q]
  BY <1>4 DEF Inv, TypeOK
<1>6. TypeOK'
  <2>1. CounterType'
    BY <1>3 DEF Inv, TypeOK, CounterType, counter
  <2> QED
    BY <2>1, <1>1, <1>4 DEF Inv, TypeOK, Commit
<1>7. RequestsPlaced'
  BY <1>4, <1>5 DEF Inv, RequestsPlaced, Placed
<1>8. OpenIsFresh'
  <2> SUFFICES ASSUME NEW q \in Request, at'[q].rows # {}
               PROVE  rows'[at'[q].email] = {} /\ \A e \in Email : named'[e] # at'[q].name
    BY DEF OpenIsFresh, NameTaken
  <2>1. q # r /\ at'[q] = at[q]
    BY <1>4, <1>5
  <2>2. at[q].email # at[r].email /\ at[q].name # at[r].name
    BY <1>1, <2>1 DEF Inv, OpenApart
  <2>3. rows[at[q].email] = {} /\ ~NameTaken(at[q].name)
    BY <2>1 DEF Inv, OpenIsFresh
  <2>4. at[q].email \in Email
    BY <2>1 DEF Inv, RequestsPlaced, Placed, Inserted, RegisterPlaces
  <2> QED
    BY <1>3, <2>1, <2>2, <2>3, <2>4 DEF NameTaken
<1>9. OpenApart'
  BY <1>4, <1>5 DEF Inv, OpenApart
<1>10. AccountsWhole'
  BY <1>2, <1>3 DEF Inv, AccountsWhole, NameTaken
<1> QED
  BY <1>6, <1>7, <1>8, <1>9, <1>10 DEF Inv

-----------------------------------------------------------------------------
(* The inductive invariant: the lockout.                                   *)

\* The attempts at an address that are at this place.
In(f, pc, e) == {r \in Request : f[r].pc = pc /\ f[r].email = e}
Size(f, pc, e) == Cardinality(In(f, pc, e))
Is(q, pc, e) == q.pc = pc /\ q.email = e

\* Every wrong password is counted, or about to be.
Counted == \A e \in Email : e \notin missed => guesses[e] <= count[e] + Size(at, "record", e)

\* The attempts that have passed the check leave room for themselves.
Tried ==
    \A e \in Email :
        e \notin missed => guesses[e] + Size(at, "find", e) <= Threshold - 1 + Cardinality(Request)

Lockout == Counted /\ Tried

LEMMA SizeType ==
    ASSUME NEW f, NEW pc, NEW e
    PROVE  /\ IsFiniteSet(In(f, pc, e)) /\ Size(f, pc, e) \in Nat
           /\ Size(f, pc, e) <= Cardinality(Request) /\ Cardinality(Request) \in Nat
<1>1. In(f, pc, e) \in SUBSET Request
  BY DEF In
<1> QED
  BY <1>1, SignInAssumption, FS_Subset, FS_CardinalityType DEF Size

LEMMA SizesApart ==
    ASSUME NEW f, NEW e
    PROVE  Size(f, "find", e) + Size(f, "record", e) <= Cardinality(Request)
<1> DEFINE U == In(f, "find", e) \cup In(f, "record", e)
<1>1. U \in SUBSET Request /\ In(f, "find", e) \cap In(f, "record", e) = {}
  BY DEF In
<1>2. Cardinality(U) = Size(f, "find", e) + Size(f, "record", e) - 0
  BY <1>1, SizeType, FS_Union, FS_EmptySet DEF Size
<1>3. Cardinality(U) <= Cardinality(Request)
  BY <1>1, SignInAssumption, FS_Subset
<1> QED
  BY <1>2, <1>3, SizeType

\* One request moves: a place it enters has one more, a place it leaves one less.
LEMMA SizeMoves ==
    ASSUME NEW f, NEW g, NEW r \in Request, \A q \in Request : q # r => g[q] = f[q],
           NEW pc, NEW e
    PROVE  /\ Is(g[r], pc, e) /\ ~Is(f[r], pc, e) => Size(g, pc, e) = Size(f, pc, e) + 1
           /\ Is(f[r], pc, e) /\ ~Is(g[r], pc, e) => Size(g, pc, e) = Size(f, pc, e) - 1
           /\ (Is(f[r], pc, e) <=> Is(g[r], pc, e)) => Size(g, pc, e) = Size(f, pc, e)
<1> USE DEF Is
<1> DEFINE was == Is(f[r], pc, e)
           is  == Is(g[r], pc, e)
<1>2. In(g, pc, e) = IF is THEN In(f, pc, e) \cup {r} ELSE In(f, pc, e) \ {r}
  BY DEF In
<1>3. r \in In(f, pc, e) <=> was
  BY DEF In
<1>4. /\ Cardinality(In(f, pc, e) \cup {r}) = IF was THEN Size(f, pc, e) ELSE Size(f, pc, e) + 1
      /\ Cardinality(In(f, pc, e) \ {r}) = IF was THEN Size(f, pc, e) - 1 ELSE Size(f, pc, e)
  BY <1>3, SizeType, FS_AddElement, FS_RemoveElement DEF Size
<1>5. Size(g, pc, e) = Cardinality(In(g, pc, e))
  BY DEF Size
<1>6. Size(f, pc, e) \in Nat
  BY SizeType
<1> QED
  BY <1>2, <1>4, <1>5, <1>6

LEMMA LockoutInit == HttpInit => Lockout
<1> SUFFICES ASSUME HttpInit, NEW e \in Email
             PROVE  /\ guesses[e] <= count[e] + Size(at, "record", e)
                    /\ guesses[e] + Size(at, "find", e) <= Threshold - 1 + Cardinality(Request)
  BY DEF Lockout, Counted, Tried
<1>1. guesses[e] = 0 /\ count[e] = 0
  BY DEF HttpInit, SignInInit
<1>2. Threshold \in Nat \ {0}
  BY SignInAssumption
<1> QED
  BY <1>1, <1>2, SizeType

\* Nobody comes to try a password or to be counted, or goes.
LEMMA SameSizes ==
    ASSUME Lockout, UNCHANGED counter,
           \A q \in Request, pc \in {"find", "record"} :
               /\ at'[q].pc = pc <=> at[q].pc = pc
               /\ at[q].pc = pc => at'[q].email = at[q].email
    PROVE  Lockout'
<1>1. ASSUME NEW e, NEW pc \in {"find", "record"}
      PROVE  Size(at', pc, e) = Size(at, pc, e)
  <2>1. In(at', pc, e) = In(at, pc, e)
    BY DEF In
  <2> QED
    BY <2>1 DEF Size
<1> QED
  BY <1>1 DEF Lockout, Counted, Tried, counter

\* A request goes where no password is tried, and is counted if it was to be.
LEMMA LeavingKeepsLockout ==
    ASSUME TypeOK, Lockout, NEW r \in Request,
           \A q \in Request : q # r => at'[q] = at[q],
           at'[r].pc \notin {"find", "record"},
           CounterType', guesses' = guesses, missed \subseteq missed',
           \A e \in Email : count'[e] >= count[e],
           at[r].pc = "record" =>
               \/ at[r].email \in missed'
               \/ \A e \in Email : e = at[r].email => count'[e] >= count[e] + 1
    PROVE  Lockout'
<1> SUFFICES ASSUME NEW e \in Email, e \notin missed'
             PROVE  /\ guesses[e] <= count'[e] + Size(at', "record", e)
                    /\ guesses[e] + Size(at', "find", e) <= Threshold - 1 + Cardinality(Request)
  BY DEF Lockout, Counted, Tried
<1>1. /\ guesses[e] <= count[e] + Size(at, "record", e)
      /\ guesses[e] + Size(at, "find", e) <= Threshold - 1 + Cardinality(Request)
  BY DEF Lockout, Counted, Tried
<1>2. guesses[e] \in Nat /\ count[e] \in Nat /\ count'[e] \in Nat /\ Threshold \in Nat
  BY SignInAssumption DEF TypeOK, CounterType
<1>3. Size(at', "find", e) <= Size(at, "find", e) /\ Size(at', "find", e) \in Int
  <2>1. ~Is(at'[r], "find", e)
    BY DEF Is
  <2> QED
    BY <2>1, SizeMoves, SizeType
<1>4. /\ Is(at[r], "record", e) => Size(at', "record", e) = Size(at, "record", e) - 1
      /\ ~Is(at[r], "record", e) => Size(at', "record", e) = Size(at, "record", e)
  <2>1. ~Is(at'[r], "record", e)
    BY DEF Is
  <2> QED
    BY <2>1, SizeMoves
<1> QED
  BY <1>1, <1>2, <1>3, <1>4, SizeType DEF Is

-----------------------------------------------------------------------------
(* The steps.                                                              *)

Kept == Inv /\ Lockout

\* A request goes where no password is tried, and is counted if it was to be.
LEMMA Leaves ==
    ASSUME Kept, NEW r \in Request, NEW rec \in ReqState, at' = [at EXCEPT ![r] = rec],
           Placed(rec), rec.rows = {}, rec.pc \notin {"find", "record"},
           UNCHANGED accounts, CounterType', guesses' = guesses, missed \subseteq missed',
           \A e \in Email : count'[e] >= count[e],
           at[r].pc = "record" =>
               \/ at[r].email \in missed'
               \/ \A e \in Email : e = at[r].email => count'[e] >= count[e] + 1
    PROVE  Kept'
<1>1. Inv'
  BY RequestMoves DEF Kept, accounts
<1>2. at'[r].pc \notin {"find", "record"} /\ \A q \in Request : q # r => at'[q] = at[q]
  BY DEF Kept, Inv, TypeOK
<1>3. Lockout'
  BY <1>2, LeavingKeepsLockout DEF Kept, Inv
<1> QED
  BY <1>1, <1>3 DEF Kept

\* The same when the counter is left alone.
LEMMA LeavesQuietly ==
    ASSUME Kept, NEW r \in Request, NEW rec \in ReqState, at' = [at EXCEPT ![r] = rec],
           Placed(rec), rec.rows = {}, rec.pc \notin {"find", "record"},
           UNCHANGED <<accounts, counter>>, at[r].pc # "record"
    PROVE  Kept'
<1>1. CounterType' /\ \A e \in Email : count'[e] >= count[e]
  BY DEF Kept, Inv, TypeOK, CounterType, counter
<1> QED
  BY <1>1, Leaves DEF counter

\* Registering leaves the lockout alone.
LEMMA RegistrationKeepsLockout ==
    ASSUME Kept, NEW r \in Request, UNCHANGED counter,
           \A q \in Request : q # r => at'[q] = at[q],
           at[r].pc \notin {"find", "record"}, at'[r].pc \notin {"find", "record"}
    PROVE  Lockout'
<1>1. \A q \in Request, pc \in {"find", "record"} :
         /\ at'[q].pc = pc <=> at[q].pc = pc
         /\ at[q].pc = pc => at'[q].email = at[q].email
  OBVIOUS
<1> QED
  BY <1>1, SameSizes DEF Kept

LEMMA RegistrationKept ==
    ASSUME Kept, NEW r \in Request,
           \/ \E e \in Email, n \in Username : Register(r, e, n)
           \/ InsertUser(r) \/ InsertRow(r) \/ Commit(r)
    PROVE  Kept'
<1>1. Inv'
  BY RegisterKeepsInv, InsertUserKeepsInv, InsertRowKeepsInv, CommitKeepsInv DEF Kept
<1>2. at[r].pc \notin {"find", "record"} /\ UNCHANGED counter
  BY DEF Register, InsertUser, InsertRow, Commit, Following
<1>3. PICK rec : at' = [at EXCEPT ![r] = rec] /\ rec.pc \notin {"find", "record"}
  <2>1. ASSUME NEW e \in Email, NEW n \in Username, Register(r, e, n)
        PROVE  \E rec : at' = [at EXCEPT ![r] = rec] /\ rec.pc \notin {"find", "record"}
    <3> DEFINE rec == [Idle EXCEPT !.pc = "email", !.email = e, !.name = n]
    <3>1. rec.pc = "email"
      BY DEF Idle
    <3> QED
      BY <2>1, <3>1 DEF Register
  <2>2. ASSUME NEW status \in Nat, Answer(r, status)
        PROVE  \E rec : at' = [at EXCEPT ![r] = rec] /\ rec.pc \notin {"find", "record"}
    BY <2>2, AnswerFacts
  <2>3. at[r] \in ReqState
    BY DEF Kept, Inv, TypeOK
  <2>4. ASSUME at' = [at EXCEPT ![r].pc = "organization", ![r].rows = {"user"}]
        PROVE  \E rec : at' = [at EXCEPT ![r] = rec] /\ rec.pc \notin {"find", "record"}
    <3> DEFINE rec == [at[r] EXCEPT !.pc = "organization", !.rows = {"user"}]
    <3>1. rec.pc = "organization"
      BY <2>3 DEF ReqState
    <3> QED
      BY <2>4, <3>1
  <2>5. ASSUME InsertRow(r)
        PROVE  \E rec : at' = [at EXCEPT ![r] = rec] /\ rec.pc \notin {"find", "record"}
    <3> DEFINE rec == [at[r] EXCEPT !.pc = Following[@], !.rows = @ \cup {at[r].pc}]
    <3>1. rec.pc = Following[at[r].pc] /\ Following[at[r].pc] \notin {"find", "record"}
      BY <2>3, <2>5 DEF ReqState, InsertRow, Following
    <3> QED
      BY <2>5, <3>1 DEF InsertRow
  <2> QED
    BY <2>1, <2>2, <2>4, <2>5 DEF InsertUser, Commit
<1>4. at'[r].pc \notin {"find", "record"} /\ \A q \in Request : q # r => at'[q] = at[q]
  BY <1>3 DEF Kept, Inv, TypeOK
<1>5. Lockout'
  BY <1>2, <1>4, RegistrationKeepsLockout
<1> QED
  BY <1>1, <1>5 DEF Kept

\* The statements that read, and those that fail.
LEMMA ReadsKept ==
    ASSUME Kept, NEW r \in Request,
           \/ ExistsByEmail(r) \/ ExistsByUsername(r) \/ StatementFails(r)
           \/ RightPassword(r) \/ FindMembership(r)
    PROVE  Kept'
<1>1. UNCHANGED <<accounts, counter>> /\ at[r].pc # "record"
  BY DEF ExistsByEmail, ExistsByUsername, StatementFails, RightPassword, FindMembership,
         Following
<1>2. \/ \E status \in Nat : Answer(r, status)
      \/ \E pc \in {"username", "user"} :
            Goto(r, pc) /\ at[r].pc \in {"email", "username", "user"}
      \/ \E pc \in {"member", "reset"} : Goto(r, pc) /\ at[r].pc \in LoginPlaces
  BY DEF ExistsByEmail, ExistsByUsername, StatementFails, RightPassword, FindMembership,
         LoginPlaces
<1>3. TypeOK /\ RequestsPlaced
  BY DEF Kept, Inv
<1>4. PICK rec \in ReqState : /\ at' = [at EXCEPT ![r] = rec]
                              /\ rec.rows = {} /\ Placed(rec)
                              /\ rec.pc \notin {"find", "record"}
  <2>1. ASSUME NEW status \in Nat, Answer(r, status)
        PROVE  \E rec \in ReqState : /\ at' = [at EXCEPT ![r] = rec]
                                     /\ rec.rows = {} /\ Placed(rec)
                                     /\ rec.pc \notin {"find", "record"}
    BY <2>1, AnswerFacts
  <2>2. ASSUME NEW pc \in {"username", "user", "member", "reset"}, Goto(r, pc),
               \/ pc \in {"username", "user"} /\ at[r].pc \in {"email", "username", "user"}
               \/ pc \in {"member", "reset"} /\ at[r].pc \in LoginPlaces
        PROVE  \E rec \in ReqState : /\ at' = [at EXCEPT ![r] = rec]
                                     /\ rec.rows = {} /\ Placed(rec)
                                     /\ rec.pc \notin {"find", "record"}
    <3>1. {"member", "reset"} \subseteq LoginPlaces
      BY DEF LoginPlaces
    <3> QED
      BY <2>2, <3>1, <1>3, GotoFacts
  <2> QED
    BY <1>2, <2>1, <2>2
<1> QED
  BY <1>1, <1>4, LeavesQuietly

\* An attempt passes the check: the wrong passwords so far are counted, or about to be,
\* and the attempts about to be counted are others than those that passed.
LEMMA PassingKeepsLockout ==
    ASSUME TypeOK, Lockout, NEW r \in Request,
           \A q \in Request : q # r => at'[q] = at[q],
           at[r].pc = "check", at'[r].pc = "find",
           \/ at'[r].email \in missed'
           \/ \A e \in Email : e = at'[r].email => count[e] < Threshold,
           count' = count, guesses' = guesses, missed \subseteq missed'
    PROVE  Lockout'
<1> SUFFICES ASSUME NEW e \in Email, e \notin missed'
             PROVE  /\ guesses[e] <= count[e] + Size(at', "record", e)
                    /\ guesses[e] + Size(at', "find", e) <= Threshold - 1 + Cardinality(Request)
  BY DEF Lockout, Counted, Tried
<1>1. /\ guesses[e] <= count[e] + Size(at, "record", e)
      /\ guesses[e] + Size(at, "find", e) <= Threshold - 1 + Cardinality(Request)
  BY DEF Lockout, Counted, Tried
<1>2. guesses[e] \in Nat /\ count[e] \in Nat /\ Threshold \in Nat
  BY SignInAssumption DEF TypeOK, CounterType
<1>3. Size(at', "record", e) = Size(at, "record", e)
  <2>1. ~Is(at'[r], "record", e) /\ ~Is(at[r], "record", e)
    BY DEF Is
  <2> QED
    BY <2>1, SizeMoves
<1>4. CASE at'[r].email = e
  <2>1. count[e] < Threshold
    BY <1>4
  <2> QED
    BY <1>1, <1>2, <1>3, <2>1, SizesApart, SizeType
<1>5. CASE at'[r].email # e
  <2>1. ~Is(at'[r], "find", e) /\ ~Is(at[r], "find", e)
    BY <1>5 DEF Is
  <2>2. Size(at', "find", e) = Size(at, "find", e)
    BY <2>1, SizeMoves
  <2> QED
    BY <1>1, <1>3, <2>2
<1> QED
  BY <1>4, <1>5

\* A wrong password: one attempt fewer that has passed, one more to be counted.
LEMMA GuessKeepsLockout ==
    ASSUME TypeOK, Lockout, NEW r \in Request,
           \A q \in Request : q # r => at'[q] = at[q],
           at[r].pc = "find", at'[r].pc = "record", at'[r].email = at[r].email,
           count' = count, missed' = missed,
           \A e \in Email : e \notin missed =>
               /\ e = at[r].email => guesses'[e] = guesses[e] + 1
               /\ e # at[r].email => guesses'[e] = guesses[e]
    PROVE  Lockout'
<1> SUFFICES ASSUME NEW e \in Email, e \notin missed
             PROVE  /\ guesses'[e] <= count[e] + Size(at', "record", e)
                    /\ guesses'[e] + Size(at', "find", e) <= Threshold - 1 + Cardinality(Request)
  BY DEF Lockout, Counted, Tried
<1>1. /\ guesses[e] <= count[e] + Size(at, "record", e)
      /\ guesses[e] + Size(at, "find", e) <= Threshold - 1 + Cardinality(Request)
  BY DEF Lockout, Counted, Tried
<1>2. guesses[e] \in Nat /\ count[e] \in Nat /\ Threshold \in Nat
  BY SignInAssumption DEF TypeOK, CounterType
<1>3. CASE at[r].email = e
  <2>1. /\ Is(at'[r], "record", e) /\ ~Is(at[r], "record", e)
        /\ ~Is(at'[r], "find", e) /\ Is(at[r], "find", e)
    BY <1>3 DEF Is
  <2>2. Size(at', "record", e) = Size(at, "record", e) + 1
    BY <2>1, SizeMoves
  <2>3. Size(at', "find", e) = Size(at, "find", e) - 1
    BY <2>1, SizeMoves
  <2> QED
    BY <1>1, <1>2, <1>3, <2>2, <2>3, SizeType
<1>4. CASE at[r].email # e
  <2>1. /\ ~Is(at'[r], "record", e) /\ ~Is(at[r], "record", e)
        /\ ~Is(at'[r], "find", e) /\ ~Is(at[r], "find", e)
    BY <1>4 DEF Is
  <2>2. Size(at', "record", e) = Size(at, "record", e)
    BY <2>1, SizeMoves
  <2>3. Size(at', "find", e) = Size(at, "find", e)
    BY <2>1, SizeMoves
  <2> QED
    BY <1>1, <1>4, <2>2, <2>3
<1> QED
  BY <1>3, <1>4

\* The counter of an address is cleared, and no attempt passes or is recorded.
LEMMA ClearKeepsLockout ==
    ASSUME TypeOK, Lockout, NEW c \in Email, Clear(c),
           \A q \in Request, pc \in {"find", "record"} :
               /\ at'[q].pc = pc <=> at[q].pc = pc
               /\ at[q].pc = pc => at'[q].email = at[q].email
    PROVE  Lockout' /\ CounterType'
<1>1. ASSUME NEW e, NEW pc \in {"find", "record"}
      PROVE  Size(at', pc, e) = Size(at, pc, e)
  <2>1. In(at', pc, e) = In(at, pc, e)
    BY DEF In
  <2> QED
    BY <2>1 DEF Size
<1>2. CounterType'
  BY DEF TypeOK, CounterType, Clear
<1> SUFFICES ASSUME NEW e \in Email, e \notin missed'
             PROVE  /\ guesses'[e] <= count'[e] + Size(at', "record", e)
                    /\ guesses'[e] + Size(at', "find", e) <= Threshold - 1 + Cardinality(Request)
  BY <1>2 DEF Lockout, Counted, Tried
<1>3. CASE e = c
  <2>1. guesses'[e] = 0 /\ count'[e] = 0 /\ Threshold \in Nat \ {0}
    BY <1>3, SignInAssumption DEF TypeOK, CounterType, Clear
  <2> QED
    BY <2>1, SizeType
<1>4. CASE e # c
  <2>1. guesses'[e] = guesses[e] /\ count'[e] = count[e] /\ e \notin missed
    BY <1>4 DEF TypeOK, CounterType, Clear
  <2>2. /\ guesses[e] <= count[e] + Size(at, "record", e)
        /\ guesses[e] + Size(at, "find", e) <= Threshold - 1 + Cardinality(Request)
    BY <2>1 DEF Lockout, Counted, Tried
  <2> QED
    BY <1>1, <2>1, <2>2
<1> QED
  BY <1>3, <1>4

\* A login goes to where a password is tried or counted.
LEMMA LoginMoves ==
    ASSUME Kept, NEW r \in Request, NEW pc \in LoginPlaces, Goto(r, pc),
           at[r].pc \in LoginPlaces, UNCHANGED accounts, CounterType'
    PROVE  /\ Inv'
           /\ \A q \in Request : q # r => at'[q] = at[q]
           /\ at'[r].pc = pc /\ at'[r].email = at[r].email /\ at[r].email \in Email
<1>1. TypeOK /\ RequestsPlaced
  BY DEF Kept, Inv
<1>2. PICK rec \in ReqState : /\ at' = [at EXCEPT ![r] = rec] /\ rec.pc = pc
                              /\ rec.email = at[r].email /\ rec.rows = {} /\ Placed(rec)
  BY <1>1, GotoFacts
<1>3. Inv'
  BY <1>2, RequestMoves DEF Kept, accounts
<1>4. at[r].email \in Email
  BY <1>1 DEF RequestsPlaced, Placed
<1> QED
  BY <1>1, <1>2, <1>3, <1>4 DEF TypeOK

LEMMA LoginKept ==
    ASSUME Kept, NEW r \in Request, NEW e \in Email, Login(r, e)
    PROVE  Kept'
<1> DEFINE rec == [Idle EXCEPT !.pc = "check", !.email = e]
<1>1. rec \in ReqState /\ rec.pc = "check" /\ rec.email = e /\ rec.rows = {}
  BY IdleFacts DEF ReqState, LoginPlaces
<1>2. Placed(rec)
  BY <1>1 DEF Placed, Inserted, LoginPlaces, RegisterPlaces
<1>3. at' = [at EXCEPT ![r] = rec] /\ UNCHANGED <<accounts, counter>> /\ at[r].pc # "record"
  BY DEF Login
<1> HIDE DEF rec
<1> QED
  BY <1>1, <1>2, <1>3, LeavesQuietly

LEMMA ChecksKept ==
    ASSUME Kept, NEW r \in Request, CheckLockout(r) \/ CheckSkipped(r)
    PROVE  Kept'
<1>1. at[r].pc = "check" /\ UNCHANGED <<accounts, count, guesses>> /\ missed \subseteq missed'
      /\ at[r].email \in Email /\ CounterType' /\ at[r].pc \in LoginPlaces
  BY DEF CheckLockout, CheckSkipped, counter, Kept, Inv, TypeOK, CounterType, RequestsPlaced,
         Placed, LoginPlaces
<1>2. CASE Answer(r, 429)
  <2>1. \A e \in Email : count'[e] >= count[e]
    BY <1>1 DEF Kept, Inv, TypeOK, CounterType
  <2> QED
    BY <1>1, <1>2, <2>1, AnswerFacts, Leaves
<1>3. CASE Goto(r, "find") /\ (at[r].email \in missed' \/ count[at[r].email] < Threshold)
  <2>1. "find" \in LoginPlaces
    BY DEF LoginPlaces
  <2>2. /\ Inv' /\ \A q \in Request : q # r => at'[q] = at[q]
        /\ at'[r].pc = "find" /\ at'[r].email = at[r].email
    BY <1>1, <1>3, <2>1, LoginMoves
  <2>3. Lockout'
    BY <1>1, <1>3, <2>2, PassingKeepsLockout DEF Kept, Inv
  <2> QED
    BY <2>2, <2>3 DEF Kept
<1>4. count[at[r].email] \in Nat /\ Threshold \in Nat
  BY <1>1, SignInAssumption DEF Kept, Inv, TypeOK, CounterType
<1> QED
  BY <1>2, <1>3, <1>4 DEF CheckLockout, CheckSkipped

LEMMA WrongPasswordKept ==
    ASSUME Kept, NEW r \in Request, WrongPassword(r)
    PROVE  Kept'
<1> DEFINE e == at[r].email
<1>1. at[r].pc = "find" /\ "record" \in LoginPlaces /\ "find" \in LoginPlaces
      /\ Goto(r, "record") /\ UNCHANGED <<accounts, count, expiring, lost, missed>>
      /\ guesses' = IF e \in missed THEN guesses ELSE [guesses EXCEPT ![e] = @ + 1]
  BY DEF WrongPassword, LoginPlaces
<1>2. CounterType'
  <2> HIDE DEF e
  <2>1. guesses' \in [Email -> Nat]
    <3>1. guesses \in [Email -> Nat]
      BY DEF Kept, Inv, TypeOK, CounterType
    <3>2. CASE e \in missed
      BY <1>1, <3>1, <3>2
    <3>3. CASE e \notin missed
      <4>1. guesses' = [guesses EXCEPT ![e] = guesses[e] + 1]
        BY <1>1, <3>3
      <4>2. e \in Email => guesses[e] + 1 \in Nat
        BY <3>1
      <4> QED
        BY <3>1, <4>1, <4>2
    <3> QED
      BY <3>2, <3>3
  <2> QED
    BY <1>1, <2>1 DEF Kept, Inv, TypeOK, CounterType
<1>3. /\ Inv' /\ \A q \in Request : q # r => at'[q] = at[q]
      /\ at'[r].pc = "record" /\ at'[r].email = e /\ e \in Email
  BY <1>1, <1>2, LoginMoves
<1>4. \A f \in Email : f \notin missed =>
          /\ f = e => guesses'[f] = guesses[f] + 1
          /\ f # e => guesses'[f] = guesses[f]
  BY <1>1 DEF Kept, Inv, TypeOK, CounterType
<1>5. Lockout'
  BY <1>1, <1>3, <1>4, GuessKeepsLockout DEF Kept, Inv
<1> QED
  BY <1>3, <1>5 DEF Kept

\* The INCR, whether its reply came or not, and the EXPIRE that may follow.
LEMMA RecordsKept ==
    ASSUME Kept, NEW r \in Request,
           RecordFailure(r) \/ RecordFails(r) \/ SetExpiry(r) \/ ExpiryLost(r)
    PROVE  Kept'
<1> DEFINE e == at[r].email
<1>1. at[r].pc \in LoginPlaces /\ e \in Email /\ UNCHANGED accounts /\ guesses' = guesses
      /\ missed \subseteq missed'
  BY DEF RecordFailure, RecordFails, SetExpiry, ExpiryLost, LoginPlaces, Kept, Inv, TypeOK,
         RequestsPlaced, Placed
<1>2. CounterType' /\ \A f \in Email : count'[f] >= count[f]
  BY <1>1 DEF Kept, Inv, TypeOK, CounterType, RecordFailure, RecordFails, SetExpiry, ExpiryLost
<1>3. at[r].pc = "record" =>
         e \in missed' \/ \A f \in Email : f = e => count'[f] >= count[f] + 1
  BY <1>1 DEF Kept, Inv, TypeOK, CounterType, RecordFailure, RecordFails, SetExpiry, ExpiryLost
<1>4. Answer(r, 401) \/ Goto(r, "expire")
  BY DEF RecordFailure, RecordFails, SetExpiry, ExpiryLost
<1>5. PICK rec \in ReqState : /\ at' = [at EXCEPT ![r] = rec]
                              /\ rec.rows = {} /\ Placed(rec)
                              /\ rec.pc \notin {"find", "record"}
  <2>1. TypeOK /\ RequestsPlaced /\ "expire" \in LoginPlaces
    BY DEF Kept, Inv, LoginPlaces
  <2> QED
    BY <1>1, <1>4, <2>1, AnswerFacts, GotoFacts
<1> QED
  BY <1>1, <1>2, <1>3, <1>5, Leaves

LEMMA ResetsKept ==
    ASSUME Kept, NEW r \in Request, Reset(r) \/ ResetFails(r)
    PROVE  Kept'
<1>1. at[r].pc = "reset" /\ at[r].email \in Email /\ UNCHANGED accounts
  BY DEF Reset, ResetFails, LoginPlaces, Kept, Inv, RequestsPlaced, Placed
<1>2. PICK rec \in ReqState : /\ at' = [at EXCEPT ![r] = rec] /\ rec.pc = "answer"
                              /\ rec.rows = {} /\ Placed(rec)
  <2>1. Answer(r, 200)
    BY DEF Reset, ResetFails
  <2> QED
    BY <2>1, AnswerFacts
<1>3. CASE Reset(r)
  <2>1. \A q \in Request, pc \in {"find", "record"} :
           /\ at'[q].pc = pc <=> at[q].pc = pc
           /\ at[q].pc = pc => at'[q].email = at[q].email
    BY <1>1, <1>2 DEF Kept, Inv, TypeOK
  <2>2. Lockout' /\ CounterType'
    BY <1>1, <1>3, <2>1, ClearKeepsLockout DEF Kept, Inv, Reset
  <2> QED
    BY <1>1, <1>2, <2>2, RequestMoves DEF Kept, accounts
<1>4. CASE ResetFails(r)
  BY <1>1, <1>2, <1>4, LeavesQuietly DEF ResetFails
<1> QED
  BY <1>3, <1>4

\* An answered request ends, a counter expires, a member is let in or out, or a request is
\* somewhere else on its way.
LEMMA ElsewhereKept ==
    ASSUME Kept,
           \/ \E r \in Request : EndSignIn(r)
           \/ SignInElsewhere
           \/ UNCHANGED signIn
    PROVE  Kept'
<1>1. ASSUME NEW r \in Request, EndSignIn(r)
      PROVE  Kept'
  <2>1. at' = [at EXCEPT ![r] = Idle] /\ UNCHANGED <<accounts, counter>> /\ at[r].pc = "answer"
    BY <1>1 DEF EndSignIn
  <2> QED
    BY <2>1, IdleFacts, LeavesQuietly
<1>2. ASSUME UNCHANGED <<rows, named, at>>, CounterType'
      PROVE  Inv'
  <2>1. TypeOK'
    BY <1>2 DEF Kept, Inv, TypeOK
  <2>2. RequestsPlaced' /\ OpenIsFresh' /\ OpenApart' /\ AccountsWhole'
    BY <1>2 DEF Kept, Inv, RequestsPlaced, Placed, OpenIsFresh, NameTaken, OpenApart,
                AccountsWhole
  <2> QED
    BY <2>1, <2>2 DEF Inv
<1>3. ASSUME NEW e \in Email, KeyExpires(e)
      PROVE  Kept'
  <2>1. Clear(e) /\ UNCHANGED <<rows, named, at>>
    BY <1>3 DEF KeyExpires, accounts
  <2>2. Lockout' /\ CounterType'
    BY <2>1, ClearKeepsLockout DEF Kept, Inv
  <2> QED
    BY <1>2, <2>1, <2>2 DEF Kept
<1>4. ASSUME UNCHANGED <<rows, named, at, counter>>
      PROVE  Kept'
  <2>1. CounterType'
    BY <1>4 DEF Kept, Inv, TypeOK, CounterType, counter
  <2>2. Lockout'
    BY <1>4, SameSizes DEF Kept
  <2> QED
    BY <1>2, <1>4, <2>1, <2>2 DEF Kept
<1>5. ASSUME NEW e \in Email, MembershipChanges(e)
      PROVE  Kept'
  BY <1>4, <1>5 DEF MembershipChanges
<1>6. CASE UNCHANGED signIn
  BY <1>4, <1>6 DEF signIn, accounts
<1> QED
  BY <1>1, <1>3, <1>5, <1>6 DEF SignInElsewhere

LEMMA NextKeeps == Kept /\ [HttpNext]_<<http, signIn>> => Kept'
<1> SUFFICES ASSUME Kept, [HttpNext]_<<http, signIn>> PROVE Kept'
  OBVIOUS
<1>1. ASSUME NEW r \in Request, SignInStep(r) PROVE Kept'
  BY <1>1, RegistrationKept, ReadsKept, ChecksKept, WrongPasswordKept, RecordsKept, ResetsKept
  DEF SignInStep
<1>2. ASSUME NEW r \in Request, BeginSignIn(r) PROVE Kept'
  BY <1>2, RegistrationKept, LoginKept DEF BeginSignIn
<1>3. ASSUME NEW r \in Request,
             \/ \E pipeline \in Pipelines : Arrive(r, pipeline[1], pipeline[2])
             \/ Pass(r) \/ Refuse(r) \/ CacheHit(r)
             \/ NotLimited(r) \/ Count(r) \/ StoreFails(r) \/ Handle(r)
      PROVE  UNCHANGED signIn
  BY <1>3 DEF Arrive, Pass, Refuse, CacheHit, NotLimited, Count, StoreFails, Handle
<1>4. ASSUME NEW l \in Limiter, WindowEnds(l) PROVE UNCHANGED signIn
  BY <1>4 DEF WindowEnds
<1> QED
  BY <1>1, <1>2, <1>3, <1>4, ElsewhereKept DEF HttpNext

LEMMA Inductive == HttpSpec => []Kept
<1>1. HttpInit => Kept
  BY InvInit, LockoutInit DEF Kept
<1> QED
  BY <1>1, NextKeeps, PTL DEF HttpSpec

-----------------------------------------------------------------------------
(* The limiters' budgets.                                                  *)

BudgetType == hits \in [{Key[l] : l \in Limiter} -> Nat] /\ reached \in [Limiter -> Nat]

\* No two limiters count under one key.
LEMMA KeysApart == \A l, m \in Limiter : Key[l] = Key[m] => l = m
BY DEF Limiter, Key, globalRateLimiter, userRateLimiter, analyticsRateLimiter,
       switchOrgRateLimiter, passwordResetEmailRateLimiter, passwordResetIpRateLimiter,
       emailVerificationEmailRateLimiter, emailVerificationIpRateLimiter,
       registerIpRateLimiter, loginRateLimiter, authSessionRateLimiter

LEMMA BudgetInit == HttpInit => BudgetType /\ OwnBudget
BY DEF HttpInit, BudgetType, OwnBudget

LEMMA BudgetNext ==
    BudgetType /\ OwnBudget /\ [HttpNext]_<<http, signIn>> => (BudgetType /\ OwnBudget)'
<1> SUFFICES ASSUME BudgetType, OwnBudget, [HttpNext]_<<http, signIn>>
             PROVE  BudgetType' /\ OwnBudget'
  OBVIOUS
<1>1. ASSUME UNCHANGED <<hits, reached>> PROVE BudgetType' /\ OwnBudget'
  BY <1>1 DEF BudgetType, OwnBudget
<1>2. ASSUME NEW r \in Request, Count(r) PROVE BudgetType' /\ OwnBudget'
  <2>1. PICK l \in Limiter : hits' = [hits EXCEPT ![Key[l]] = @ + 1]
                             /\ reached' = [reached EXCEPT ![l] = @ + 1]
    BY <1>2 DEF Count, At
  <2>2. BudgetType'
    BY <2>1 DEF BudgetType
  <2>3. \A m \in Limiter : m # l => hits'[Key[m]] = hits[Key[m]] /\ reached'[m] = reached[m]
    BY <2>1, KeysApart DEF BudgetType
  <2>4. hits'[Key[l]] = hits[Key[l]] + 1 /\ reached'[l] = reached[l] + 1
        /\ hits[Key[l]] \in Nat /\ reached[l] \in Nat
    BY <2>1 DEF BudgetType
  <2> QED
    BY <2>2, <2>3, <2>4 DEF OwnBudget
<1>3. ASSUME NEW l \in Limiter, WindowEnds(l) PROVE BudgetType' /\ OwnBudget'
  <2>1. hits' = [hits EXCEPT ![Key[l]] = 0] /\ reached' = [reached EXCEPT ![l] = 0]
    BY <1>3 DEF WindowEnds
  <2>2. BudgetType'
    BY <2>1 DEF BudgetType
  <2>3. \A m \in Limiter : m # l => hits'[Key[m]] = hits[Key[m]] /\ reached'[m] = reached[m]
    BY <2>1, KeysApart DEF BudgetType
  <2>4. hits'[Key[l]] = 0 /\ reached'[l] = 0
    BY <2>1 DEF BudgetType
  <2> QED
    BY <2>2, <2>3, <2>4 DEF OwnBudget
<1>4. ASSUME NEW r \in Request,
             \/ \E pipeline \in Pipelines : Arrive(r, pipeline[1], pipeline[2])
             \/ Pass(r) \/ Refuse(r) \/ CacheHit(r) \/ NotLimited(r) \/ StoreFails(r)
             \/ Handle(r) \/ BeginSignIn(r) \/ EndSignIn(r)
      PROVE  UNCHANGED <<hits, reached>>
  BY <1>4 DEF Arrive, Pass, Refuse, CacheHit, NotLimited, StoreFails, Handle, BeginSignIn,
              EndSignIn, http
<1> QED
  BY <1>1, <1>2, <1>3, <1>4 DEF HttpNext, http

-----------------------------------------------------------------------------
(* Answers.  What each stage of a pipeline can answer is listed for the    *)
(* operations that have the stage.                                         *)

Listed(op, status, stage) ==
    \/ op \notin Operations \/ <<op, status>> \in Documented \/ status = 304
    \/ op \notin ProbeOps /\ (<<stage, status>> \in Everywhere \/ <<op, status>> \in Gaps)

LEMMA GroupsListed ==
    /\ Entry \subseteq Documented /\ Session \subseteq Documented
    /\ Identity \subseteq Documented /\ Organizations \subseteq Documented
    /\ Memberships \subseteq Documented /\ Categories \subseteq Documented
    /\ CategoryById \subseteq Documented /\ Metrics \subseteq Documented
    /\ MetricById \subseteq Documented /\ Logs \subseteq Documented
    /\ LogById \subseteq Documented /\ Dummies \subseteq Documented
    /\ Settings \subseteq Documented /\ SettingById \subseteq Documented
    /\ SettingParts \subseteq Documented /\ Reports \subseteq Documented
    /\ Probes \subseteq Documented
BY DEF Documented, Paths

LEMMA ListedFacts ==
    \A op, status, stage :
        /\ <<op, status>> \in Documented => Listed(op, status, stage)
        /\ <<op, status>> \in Gaps /\ op \notin ProbeOps => Listed(op, status, stage)
BY DEF Listed

EntryOps == {"register", "login", "getProfile", "updateProfile"}
SessionOps == {"logout", "refresh", "forgotPassword", "resetPassword"}
OrganizationOps == {"createInvite", "listOrganizations", "listMembers"}
MembershipOps == {"acceptInvite", "changeRole", "removeMember"}
CategoryOps ==
    {"createCategory", "listCategories", "getCategory", "updateCategory", "deleteCategory"}
MetricOps == {"createMetric", "listMetrics", "getMetric", "updateMetric", "deleteMetric"}
LogOps == {"createLog", "listLogs", "logStats", "getLog", "updateLog", "deleteLog"}
DummyOps == {"dummyMetrics", "dummyCategories", "dummyLogs"}
SettingOps ==
    {"createSettings", "listSettings", "getSettings", "updateSettings", "deleteSettings",
     "achieve", "display"}
ReportOps == {"trends", "dashboard", "metricAnalytics"}

\* The operations behind authMiddleware, one group of the document and another.
Private == {"resendVerification", "switchOrg"} \cup OrganizationOps \cup MembershipOps
           \cup CategoryOps \cup MetricOps \cup LogOps \cup DummyOps \cup SettingOps \cup ReportOps

LEMMA OperationNames ==
    \A op \in Operations :
        op \in EntryOps \cup SessionOps \cup {"verifyEmail", "adminPing"} \cup Private
               \cup ProbeOps
<1>1. /\ \A path \in Entry : path[1] \in EntryOps
      /\ \A path \in Session : path[1] \in SessionOps
      /\ \A path \in Identity : path[1] \in {"verifyEmail", "resendVerification", "switchOrg"}
  BY DEF Entry, Session, Identity, EntryOps, SessionOps, Path
<1>2. /\ \A path \in Organizations : path[1] \in OrganizationOps
      /\ \A path \in Memberships : path[1] \in MembershipOps
      /\ \A path \in Categories \cup CategoryById : path[1] \in CategoryOps
      /\ \A path \in Metrics \cup MetricById : path[1] \in MetricOps
  BY DEF Organizations, Memberships, Categories, CategoryById, Metrics, MetricById,
         OrganizationOps, MembershipOps, CategoryOps, MetricOps, Path
<1>3. /\ \A path \in Logs \cup LogById : path[1] \in LogOps
      /\ \A path \in Dummies : path[1] \in DummyOps
      /\ \A path \in Settings \cup SettingById \cup SettingParts : path[1] \in SettingOps
      /\ \A path \in Reports : path[1] \in ReportOps
      /\ \A path \in Probes : path[1] \in {"adminPing"} \cup ProbeOps
  BY DEF Logs, LogById, Dummies, Settings, SettingById, SettingParts, Reports, Probes,
         LogOps, DummyOps, SettingOps, ReportOps, ProbeOps, Path
<1> QED
  BY <1>1, <1>2, <1>3 DEF Operations, Paths, Private

\* What the groups of operations list.
LEMMA PrivateLists ==
    \A op \in Private : \A stage : \A status \in {400, 401, 500} : Listed(op, status, stage)
<1>1. \A op \in {"resendVerification", "switchOrg"}, status \in {400, 401, 500} :
         <<op, status>> \in Identity
  BY DEF Identity, Path, Client
<1>2. \A status \in {400, 401, 500} :
         /\ \A op \in OrganizationOps : <<op, status>> \in Organizations
         /\ \A op \in MembershipOps : <<op, status>> \in Memberships
         /\ \A op \in {"createCategory", "listCategories"} : <<op, status>> \in Categories
         /\ \A op \in {"getCategory", "updateCategory", "deleteCategory"} :
              <<op, status>> \in CategoryById
  BY DEF Organizations, Memberships, Categories, CategoryById, OrganizationOps,
         MembershipOps, Path, Client
<1>3. \A status \in {400, 401, 500} :
         /\ \A op \in {"createMetric", "listMetrics"} : <<op, status>> \in Metrics
         /\ \A op \in {"getMetric", "updateMetric", "deleteMetric"} :
              <<op, status>> \in MetricById
         /\ \A op \in {"createLog", "listLogs", "logStats"} : <<op, status>> \in Logs
         /\ \A op \in {"getLog", "updateLog", "deleteLog"} : <<op, status>> \in LogById
  BY DEF Metrics, MetricById, Logs, LogById, Path, Client
<1>4. \A status \in {400, 401, 500} :
         /\ \A op \in DummyOps : <<op, status>> \in Dummies
         /\ \A op \in {"createSettings", "listSettings"} : <<op, status>> \in Settings
         /\ \A op \in {"getSettings", "updateSettings", "deleteSettings"} :
              <<op, status>> \in SettingById
         /\ \A op \in {"achieve", "display"} : <<op, status>> \in SettingParts
         /\ \A op \in ReportOps : <<op, status>> \in Reports
  BY DEF Dummies, Settings, SettingById, SettingParts, Reports, DummyOps, ReportOps, Path,
         Client
<1>5. ASSUME NEW op \in CategoryOps \cup MetricOps \cup LogOps \cup SettingOps, NEW stage,
             NEW status \in {400, 401, 500}
      PROVE  Listed(op, status, stage)
  BY <1>2, <1>3, <1>4, GroupsListed, ListedFacts DEF CategoryOps, MetricOps, LogOps, SettingOps
<1>6. ASSUME NEW op \in {"resendVerification", "switchOrg"} \cup OrganizationOps
                          \cup MembershipOps \cup DummyOps \cup ReportOps, NEW stage,
             NEW status \in {400, 401, 500}
      PROVE  Listed(op, status, stage)
  <2>1. CASE op \in {"resendVerification", "switchOrg"}
    BY <1>1, <2>1, GroupsListed, ListedFacts
  <2>2. CASE op \in OrganizationOps \cup MembershipOps
    <3>1. <<op, status>> \in Documented
      BY <1>2, <2>2, GroupsListed
    <3> QED
      BY <3>1, ListedFacts
  <2>3. CASE op \in DummyOps \cup ReportOps
    <3>1. <<op, status>> \in Documented
      BY <1>4, <2>3, GroupsListed
    <3> QED
      BY <3>1, ListedFacts
  <2> QED
    BY <1>6, <2>1, <2>2, <2>3
<1> QED
  BY <1>5, <1>6 DEF Private

LEMMA PublicLists ==
    /\ \A op \in EntryOps \cup SessionOps \cup {"verifyEmail", "adminPing"} :
         \A stage : Listed(op, 500, stage)
    /\ \A op \in {"register", "login", "updateProfile", "forgotPassword", "resetPassword",
                  "verifyEmail"} : \A stage : Listed(op, 400, stage)
    /\ \A op \in {"getProfile", "updateProfile", "adminPing"} : \A stage : Listed(op, 401, stage)
    /\ \A stage : Listed("adminPing", 403, stage)
<1>1. /\ \A op \in EntryOps : <<op, 500>> \in Entry
      /\ \A op \in {"register", "login", "updateProfile"} : <<op, 400>> \in Entry
      /\ \A op \in {"getProfile", "updateProfile"} : <<op, 401>> \in Entry
  BY DEF Entry, EntryOps, Path, Client
<1>2. /\ \A op \in SessionOps : <<op, 500>> \in Session
      /\ \A op \in {"forgotPassword", "resetPassword"} : <<op, 400>> \in Session
  BY DEF Session, SessionOps, Path, Client
<1>3. <<"verifyEmail", 500>> \in Identity /\ <<"verifyEmail", 400>> \in Identity
  BY DEF Identity, Path, Client
<1>4. <<"adminPing", 401>> \in Probes /\ <<"adminPing", 403>> \in Probes
  BY DEF Probes, Path
<1>5. <<"adminPing", 500>> \in Gaps /\ "adminPing" \notin ProbeOps
  BY DEF Gaps, ProbeOps
<1>6. ASSUME NEW op \in EntryOps \cup SessionOps \cup {"verifyEmail", "adminPing"}, NEW stage
      PROVE  Listed(op, 500, stage)
  <2>1. CASE op \in EntryOps
    <3>1. <<op, 500>> \in Documented
      BY <1>1, <2>1, GroupsListed
    <3> QED
      BY <3>1, ListedFacts
  <2>2. CASE op \in SessionOps
    <3>1. <<op, 500>> \in Documented
      BY <1>2, <2>2, GroupsListed
    <3> QED
      BY <3>1, ListedFacts
  <2>3. CASE op \in {"verifyEmail", "adminPing"}
    BY <1>3, <1>5, <2>3, GroupsListed, ListedFacts
  <2> QED
    BY <1>6, <2>1, <2>2, <2>3
<1>7. \A op \in {"register", "login", "updateProfile", "forgotPassword", "resetPassword",
                 "verifyEmail"} : \A stage : Listed(op, 400, stage)
  BY <1>1, <1>2, <1>3, GroupsListed, ListedFacts
<1> QED
  BY <1>1, <1>4, <1>6, <1>7, GroupsListed, ListedFacts

-----------------------------------------------------------------------------
(* The stages of the pipelines.                                            *)

SignInStatuses(op) ==
    IF op = "register" THEN {201, 409, 500} ELSE {200, 401, 403, 429, 500}

\* Everything a stage can answer an operation is listed.
Permits(op, stage) ==
    /\ stage \in Limiter => Listed(op, 429, stage) /\ Listed(op, 500, stage)
    /\ stage = "https" => Listed(op, 403, stage)
    /\ stage = "body" => \A status \in express_json : Listed(op, status, stage)
    /\ stage = "auth" => Listed(op, 401, stage) /\ Listed(op, 500, stage)
    /\ stage \in {"json", "validate"} => Listed(op, 400, stage)
    /\ stage = "role" => Listed(op, 403, stage)
    /\ stage \in Stop => op \notin Operations
    /\ stage = "cache" => Listed(op, 200, stage)
    /\ stage = "handler" =>
         IF op \in {"register", "login"}
         THEN \A status \in SignInStatuses(op) : Listed(op, status, stage)
         ELSE \A status \in Handled(op) : Listed(op, status, stage)

LEMMA Limiters ==
    Limiter = {"globalLimiter", "userLimiter", "analyticsLimiter", "switchOrgLimiter",
               "resetEmailLimiter", "resetIpLimiter", "verifyEmailLimiter", "verifyIpLimiter",
               "registerLimiter", "loginLimiter", "sessionLimiter"}
BY DEF Limiter, Key

LEMMA FiveHundred == \A op, stage : op \notin ProbeOps => Listed(op, 500, stage)
<1> SUFFICES ASSUME NEW op, NEW stage, op \notin ProbeOps PROVE Listed(op, 500, stage)
  OBVIOUS
<1>3. CASE op \notin Operations
  BY <1>3 DEF Listed
<1>1. CASE op \in Private
  BY <1>1, PrivateLists
<1>2. CASE op \in EntryOps \cup SessionOps \cup {"verifyEmail", "adminPing"}
  BY <1>2, PublicLists
<1> QED
  BY <1>1, <1>2, <1>3, OperationNames

\* The document adds a 429 to everything but the probes.
LEMMA LimiterPermits ==
    ASSUME NEW op, op \notin ProbeOps, NEW stage \in Limiter
    PROVE  Permits(op, stage)
<1>1. Listed(op, 429, stage)
  <2>1. op \in Operations => <<op, 429>> \in Documented
    BY DEF Documented, ProbeOps
  <2> QED
    BY <2>1 DEF Listed
<1>2. stage \notin {"https", "body", "auth", "json", "validate", "role", "cache", "handler"}
      /\ stage \notin Stop
  BY Limiters DEF Stop
<1> QED
  BY <1>1, <1>2, FiveHundred DEF Permits

LEMMA FrontPermits ==
    ASSUME NEW op, op \notin ProbeOps, NEW stage \in {"https", "globalLimiter", "body"}
    PROVE  Permits(op, stage)
<1>1. CASE stage = "globalLimiter"
  BY <1>1, Limiters, LimiterPermits
<1>2. CASE stage = "https"
  <2>1. <<stage, 403>> \in Everywhere
    BY <1>2 DEF Everywhere
  <2> QED
    BY <1>2, <2>1, Limiters DEF Permits, Listed, Stop
<1>3. CASE stage = "body"
  <2>1. \A status \in express_json : <<stage, status>> \in Everywhere
    BY <1>3 DEF Everywhere
  <2>2. \A status \in express_json : Listed(op, status, stage)
    BY <2>1 DEF Listed
  <2> QED
    BY <1>3, <2>2, Limiters DEF Permits, Stop
<1> QED
  BY <1>1, <1>2, <1>3

\* Guards other than limiters, one at a time.
LEMMA GuardPermits ==
    ASSUME NEW op
    PROVE  /\ Listed(op, 401, "auth") /\ op \notin ProbeOps => Permits(op, "auth")
           /\ Listed(op, 400, "json") => Permits(op, "json")
           /\ Listed(op, 400, "validate") => Permits(op, "validate")
           /\ Listed(op, 403, "role") => Permits(op, "role")
           /\ Listed(op, 200, "cache") => Permits(op, "cache")
           /\ op \notin Operations => \A stage \in Stop : Permits(op, stage)
BY FiveHundred, Limiters DEF Permits, Stop

LEMMA PrivatePermits ==
    ASSUME NEW op \in Private,
           NEW stage \in {"auth", "json", "validate", "userLimiter", "analyticsLimiter",
                          "switchOrgLimiter", "verifyIpLimiter", "verifyEmailLimiter"}
    PROVE  Permits(op, stage)
<1>1. op \notin ProbeOps
  BY DEF Private, ProbeOps, OrganizationOps, MembershipOps, CategoryOps, MetricOps, LogOps,
         DummyOps, SettingOps, ReportOps
<1> QED
  BY <1>1, PrivateLists, GuardPermits, LimiterPermits, Limiters

Stages == Limiter \cup Guards \cup {"handler"}

\* All of the stages of a pipeline, or of the guards of a route.
Holds(op, stages) ==
    /\ stages \in Seq(Stages)
    /\ \A i \in 1..Len(stages) : Permits(op, stages[i])

LEMMA TupleFacts ==
    ASSUME NEW S, NEW a \in S, NEW b \in S, NEW c \in S, NEW d \in S
    PROVE  /\ <<a>> \in Seq(S) /\ Len(<<a>>) = 1 /\ <<a>>[1] = a
           /\ <<a, b>> \in Seq(S) /\ Len(<<a, b>>) = 2 /\ <<a, b>>[1] = a /\ <<a, b>>[2] = b
           /\ /\ <<a, b, c>> \in Seq(S) /\ Len(<<a, b, c>>) = 3
              /\ <<a, b, c>>[1] = a /\ <<a, b, c>>[2] = b /\ <<a, b, c>>[3] = c
           /\ /\ <<a, b, c, d>> \in Seq(S) /\ Len(<<a, b, c, d>>) = 4
              /\ <<a, b, c, d>>[1] = a /\ <<a, b, c, d>>[2] = b
              /\ <<a, b, c, d>>[3] = c /\ <<a, b, c, d>>[4] = d
OBVIOUS

LEMMA StageNames ==
    {"https", "globalLimiter", "body", "auth", "role", "json", "validate", "cache",
     "notAllowed", "missing", "handler", "userLimiter", "analyticsLimiter",
     "switchOrgLimiter", "resetEmailLimiter", "resetIpLimiter", "verifyEmailLimiter",
     "verifyIpLimiter", "registerLimiter", "loginLimiter", "sessionLimiter"} = Stages
BY Limiters DEF Stages, Guards, Stop

LEMMA Holds1 ==
    ASSUME NEW op, NEW a \in Stages, Permits(op, a)
    PROVE  Holds(op, <<a>>)
<1> DEFINE s == <<a>>
<1>1. s \in Seq(Stages) /\ Len(s) = 1 /\ s[1] = a
  BY TupleFacts
<1>2. \A i \in 1..1 : i = 1
  OBVIOUS
<1> HIDE DEF s
<1>3. Holds(op, s)
  BY <1>1, <1>2 DEF Holds
<1> QED
  BY <1>3 DEF s

LEMMA Holds2 ==
    ASSUME NEW op, NEW a \in Stages, NEW b \in Stages, Permits(op, a), Permits(op, b)
    PROVE  Holds(op, <<a, b>>)
<1> DEFINE s == <<a, b>>
<1>1. s \in Seq(Stages) /\ Len(s) = 2 /\ s[1] = a /\ s[2] = b
  BY TupleFacts
<1>2. \A i \in 1..2 : i = 1 \/ i = 2
  OBVIOUS
<1> HIDE DEF s
<1>3. Holds(op, s)
  BY <1>1, <1>2 DEF Holds
<1> QED
  BY <1>3 DEF s

LEMMA Holds3 ==
    ASSUME NEW op, NEW a \in Stages, NEW b \in Stages, NEW c \in Stages,
           Permits(op, a), Permits(op, b), Permits(op, c)
    PROVE  Holds(op, <<a, b, c>>)
<1> DEFINE s == <<a, b, c>>
<1>1. s \in Seq(Stages) /\ Len(s) = 3 /\ s[1] = a /\ s[2] = b /\ s[3] = c
  BY TupleFacts
<1>2. \A i \in 1..3 : i = 1 \/ i = 2 \/ i = 3
  OBVIOUS
<1> HIDE DEF s
<1>3. Holds(op, s)
  BY <1>1, <1>2 DEF Holds
<1> QED
  BY <1>3 DEF s

LEMMA Holds4 ==
    ASSUME NEW op, NEW a \in Stages, NEW b \in Stages, NEW c \in Stages, NEW d \in Stages,
           Permits(op, a), Permits(op, b), Permits(op, c), Permits(op, d)
    PROVE  Holds(op, <<a, b, c, d>>)
<1> DEFINE s == <<a, b, c, d>>
<1>1. s \in Seq(Stages) /\ Len(s) = 4 /\ s[1] = a /\ s[2] = b /\ s[3] = c /\ s[4] = d
  BY TupleFacts
<1>2. \A i \in 1..4 : i = 1 \/ i = 2 \/ i = 3 \/ i = 4
  OBVIOUS
<1> HIDE DEF s
<1>3. Holds(op, s)
  BY <1>1, <1>2 DEF Holds
<1> QED
  BY <1>3 DEF s

LEMMA PrivateRoutes ==
    ASSUME NEW op \in Private
    PROVE  Holds(op, Write) /\ Holds(op, Erase) /\ Holds(op, Read)
<1>1. /\ Permits(op, "auth") /\ Permits(op, "userLimiter") /\ Permits(op, "json")
      /\ Permits(op, "validate")
  BY PrivatePermits
<1> QED
  BY <1>1, StageNames, Holds2, Holds3, Holds4 DEF Write, Erase, Read

LEMMA CachedRoutes ==
    ASSUME NEW op \in {"listMetrics", "getMetric", "getCategory", "listLogs", "logStats",
                       "getLog", "listSettings", "getSettings"}
    PROVE  Holds(op, CachedRead)
<1>2. op \in Private
  BY DEF Private, CategoryOps, MetricOps, LogOps, SettingOps
<1>3. <<op, 200>> \in Metrics \cup MetricById \cup CategoryById \cup Logs \cup LogById
                         \cup Settings \cup SettingById
  BY DEF Metrics, MetricById, CategoryById, Logs, LogById, Settings, SettingById, Path
<1>4. Permits(op, "cache")
  BY <1>3, GroupsListed, ListedFacts, GuardPermits
<1>5. Permits(op, "auth") /\ Permits(op, "validate")
  BY <1>2, PrivatePermits
<1> QED
  BY <1>4, <1>5, StageNames, Holds3 DEF CachedRead

LEMMA RoutesOfMembers == \A route \in OrganizationRoutes : Holds(route[1], route[2])
<1> SUFFICES ASSUME NEW route \in OrganizationRoutes PROVE Holds(route[1], route[2])
  OBVIOUS
<1>1. route[1] \in OrganizationOps \cup MembershipOps /\ route[2] \in {Write, Erase}
  BY DEF OrganizationRoutes, OrganizationOps, MembershipOps
<1> QED
  BY <1>1, PrivateRoutes DEF Private

LEMMA RoutesOfRows ==
    \A route \in MetricRoutes \cup CategoryRoutes \cup LogRoutes \cup SettingsRoutes :
        Holds(route[1], route[2])
<1> SUFFICES ASSUME NEW route \in MetricRoutes \cup CategoryRoutes \cup LogRoutes
                                  \cup SettingsRoutes
             PROVE  Holds(route[1], route[2])
  OBVIOUS
<1>1. \/ /\ route[1] \in MetricOps \cup CategoryOps \cup LogOps \cup SettingOps \cup DummyOps
                         \cup {"trends"}
         /\ route[2] \in {Write, Erase, Read}
      \/ /\ route[1] \in {"listMetrics", "getMetric", "getCategory", "listLogs", "logStats",
                          "getLog", "listSettings", "getSettings"}
         /\ route[2] = CachedRead
      \/ route = <<"feature405", <<"auth", "notAllowed">>>>
  BY DEF MetricRoutes, CategoryRoutes, LogRoutes, SettingsRoutes, MetricOps, CategoryOps,
         LogOps, SettingOps, DummyOps
<1>2. CASE route[1] \in MetricOps \cup CategoryOps \cup LogOps \cup SettingOps \cup DummyOps
                         \cup {"trends"} /\ route[2] \in {Write, Erase, Read}
  BY <1>2, PrivateRoutes DEF Private, ReportOps
<1>3. CASE route = <<"feature405", <<"auth", "notAllowed">>>>
  <2>1. "feature405" \notin Operations /\ "feature405" \notin ProbeOps
    BY OperationNames DEF EntryOps, SessionOps, Private, OrganizationOps, MembershipOps,
       CategoryOps, MetricOps, LogOps, DummyOps, SettingOps, ReportOps, ProbeOps
  <2>2. Permits("feature405", "auth") /\ Permits("feature405", "notAllowed")
    BY <2>1, GuardPermits DEF Stop, Listed
  <2> QED
    BY <1>3, <2>2, StageNames, Holds2
<1> QED
  BY <1>1, <1>2, <1>3, CachedRoutes

LEMMA OtherRoutes == \A route \in AnalyticsRoutes \cup AppRoutes : Holds(route[1], route[2])
<1>1. \A op \in {"dashboard", "metricAnalytics"} :
         Holds(op, <<"auth", "analyticsLimiter", "validate">>)
  <2> SUFFICES ASSUME NEW op \in {"dashboard", "metricAnalytics"}
               PROVE  Holds(op, <<"auth", "analyticsLimiter", "validate">>)
    OBVIOUS
  <2>1. op \in Private
    BY DEF Private, ReportOps
  <2>2. Permits(op, "auth") /\ Permits(op, "analyticsLimiter") /\ Permits(op, "validate")
    BY <2>1, PrivatePermits
  <2> QED
    BY <2>2, StageNames, Holds3
<1>2. Holds("adminPing", <<"auth", "role">>)
  <2>1. Permits("adminPing", "auth") /\ Permits("adminPing", "role")
    BY PublicLists, GuardPermits DEF ProbeOps
  <2> QED
    BY <2>1, StageNames, Holds2
<1>3. Holds("notFound", <<"missing">>)
  <2>1. "notFound" \notin Operations
    BY OperationNames DEF EntryOps, SessionOps, Private, OrganizationOps, MembershipOps,
       CategoryOps, MetricOps, LogOps, DummyOps, SettingOps, ReportOps, ProbeOps
  <2>2. Permits("notFound", "missing")
    BY <2>1, GuardPermits DEF Stop
  <2> QED
    BY <2>2, StageNames, Holds1
<1> QED
  BY <1>1, <1>2, <1>3 DEF AnalyticsRoutes, AppRoutes

\* The routes of features/auth: the ones that anybody can call, and those that need a token.
LEMMA OpenRoutes ==
    /\ Holds("logout", <<"sessionLimiter">>) /\ Holds("refresh", <<"sessionLimiter">>)
    /\ Holds("register", <<"registerLimiter", "json", "validate">>)
    /\ Holds("login", <<"loginLimiter", "json", "validate">>)
    /\ Holds("resetPassword", <<"resetIpLimiter", "json", "validate">>)
    /\ Holds("verifyEmail", <<"verifyIpLimiter", "json", "validate">>)
    /\ Holds("forgotPassword", <<"resetIpLimiter", "json", "validate", "resetEmailLimiter">>)
<1>1. ASSUME NEW op \in {"register", "login", "resetPassword", "verifyEmail", "forgotPassword"},
             NEW limiter \in Limiter
      PROVE  Permits(op, limiter) /\ Permits(op, "json") /\ Permits(op, "validate")
  <2>1. op \notin ProbeOps
    BY DEF ProbeOps
  <2> QED
    BY <2>1, LimiterPermits, PublicLists, GuardPermits
<1>2. ASSUME NEW op \in {"register", "login", "resetPassword", "verifyEmail"},
             NEW limiter \in Limiter
      PROVE  Holds(op, <<limiter, "json", "validate">>)
  BY <1>1, StageNames, Holds3 DEF Stages
<1>3. ASSUME NEW op \in {"logout", "refresh"} PROVE Holds(op, <<"sessionLimiter">>)
  <2>1. op \notin ProbeOps
    BY DEF ProbeOps
  <2>2. Permits(op, "sessionLimiter")
    BY <2>1, Limiters, LimiterPermits
  <2> QED
    BY <2>2, StageNames, Holds1
<1>4. Holds("forgotPassword", <<"resetIpLimiter", "json", "validate", "resetEmailLimiter">>)
  <2>1. /\ Permits("forgotPassword", "resetIpLimiter") /\ Permits("forgotPassword", "json")
        /\ Permits("forgotPassword", "validate") /\ Permits("forgotPassword", "resetEmailLimiter")
    BY <1>1, Limiters
  <2> QED
    BY <2>1, StageNames, Holds4
<1> QED
  BY <1>2, <1>3, <1>4, Limiters

LEMMA TokenRoutes ==
    /\ Holds("getProfile", <<"auth">>) /\ Holds("updateProfile", Write)
    /\ Holds("resendVerification", <<"auth", "verifyIpLimiter", "verifyEmailLimiter">>)
    /\ Holds("switchOrg", <<"auth", "switchOrgLimiter", "json", "validate">>)
    /\ Holds("auth405", <<"notAllowed">>)
<1>1. Holds("getProfile", <<"auth">>)
  <2>1. Permits("getProfile", "auth")
    BY PublicLists, GuardPermits DEF ProbeOps
  <2> QED
    BY <2>1, StageNames, Holds1
<1>2. Holds("updateProfile", Write)
  <2>1. /\ Permits("updateProfile", "auth") /\ Permits("updateProfile", "userLimiter")
        /\ Permits("updateProfile", "json") /\ Permits("updateProfile", "validate")
    BY PublicLists, GuardPermits, LimiterPermits, Limiters DEF ProbeOps
  <2> QED
    BY <2>1, StageNames, Holds4 DEF Write
<1>3. Holds("resendVerification", <<"auth", "verifyIpLimiter", "verifyEmailLimiter">>)
  <2>1. /\ Permits("resendVerification", "auth") /\ Permits("resendVerification", "verifyIpLimiter")
        /\ Permits("resendVerification", "verifyEmailLimiter")
    BY PrivatePermits DEF Private
  <2> QED
    BY <2>1, StageNames, Holds3
<1>4. Holds("switchOrg", <<"auth", "switchOrgLimiter", "json", "validate">>)
  <2>1. /\ Permits("switchOrg", "auth") /\ Permits("switchOrg", "switchOrgLimiter")
        /\ Permits("switchOrg", "json") /\ Permits("switchOrg", "validate")
    BY PrivatePermits DEF Private
  <2> QED
    BY <2>1, StageNames, Holds4
<1>5. Holds("auth405", <<"notAllowed">>)
  <2>1. "auth405" \notin Operations
    BY OperationNames DEF EntryOps, SessionOps, Private, OrganizationOps, MembershipOps,
       CategoryOps, MetricOps, LogOps, DummyOps, SettingOps, ReportOps, ProbeOps
  <2>2. Permits("auth405", "notAllowed")
    BY <2>1, GuardPermits DEF Stop
  <2> QED
    BY <2>2, StageNames, Holds1
<1> QED
  BY <1>1, <1>2, <1>3, <1>4, <1>5

LEMMA RouteGuards == \A route \in Routes : Holds(route[1], route[2])
<1>1. \A route \in AuthRoutes : Holds(route[1], route[2])
  BY OpenRoutes, TokenRoutes DEF AuthRoutes, Write
<1> QED
  BY <1>1, RoutesOfMembers, RoutesOfRows, OtherRoutes DEF Routes

-----------------------------------------------------------------------------
(* The handlers.                                                           *)

LEMMA StatusFacts ==
    /\ Status("validation") = 400 /\ Status("unauthorized") = 401
    /\ Status("forbidden") = 403 /\ Status("not_found") = 404
    /\ Status("conflict") = 409 /\ Status("unique") = 409 /\ Status("failure") = 500
BY DEF Status

\* What the use cases raise is listed, or one of the gaps.
LEMMA AuthRaises ==
    \A raise \in AuthHandlers : <<raise[1], Status(raise[2])>> \in Documented \cup Gaps
<1>1. /\ {<<"getProfile", 404>>, <<"updateProfile", 404>>, <<"switchOrg", 401>>} \subseteq Gaps
      /\ <<"updateProfile", 409>> \in Entry
      /\ {<<"refresh", 401>>, <<"resetPassword", 400>>} \subseteq Session
      /\ {<<"verifyEmail", 400>>, <<"switchOrg", 403>>} \subseteq Identity
  BY DEF Gaps, Entry, Session, Identity, Path, Client
<1> QED
  BY <1>1, GroupsListed, StatusFacts DEF AuthHandlers, Raise

LEMMA OrganizationRaises ==
    \A raise \in OrganizationHandlers : <<raise[1], Status(raise[2])>> \in Documented \cup Gaps
<1>1. /\ {<<"createInvite", 404>>, <<"acceptInvite", 404>>, <<"acceptInvite", 409>>}
             \subseteq Gaps
      /\ {<<"createInvite", 403>>, <<"createInvite", 409>>, <<"listMembers", 403>>}
             \subseteq Organizations
      /\ {<<"acceptInvite", 400>>, <<"changeRole", 400>>, <<"changeRole", 403>>,
          <<"changeRole", 404>>, <<"removeMember", 400>>, <<"removeMember", 403>>,
          <<"removeMember", 404>>} \subseteq Memberships
  BY DEF Gaps, Organizations, Memberships, Path, Client
<1> QED
  BY <1>1, GroupsListed, StatusFacts DEF OrganizationHandlers, Raise

LEMMA MetricRaises ==
    \A raise \in MetricHandlers : <<raise[1], Status(raise[2])>> \in Documented \cup Gaps
<1>1. /\ {<<"trends", 403>>, <<"dummyMetrics", 409>>} \subseteq Gaps
      /\ <<"trends", 404>> \in Reports
      /\ {<<"createMetric", 400>>, <<"createMetric", 404>>, <<"createMetric", 409>>}
             \subseteq Metrics
      /\ {<<"getMetric", 404>>, <<"updateMetric", 400>>, <<"updateMetric", 404>>,
          <<"updateMetric", 409>>, <<"deleteMetric", 404>>} \subseteq MetricById
  BY DEF Gaps, Reports, Metrics, MetricById, Path, Client, Missing
<1> QED
  BY <1>1, GroupsListed, StatusFacts DEF MetricHandlers, Raise

LEMMA CategoryRaises ==
    \A raise \in CategoryHandlers : <<raise[1], Status(raise[2])>> \in Documented \cup Gaps
<1>1. /\ <<"dummyCategories", 409>> \in Gaps
      /\ <<"createCategory", 409>> \in Categories
      /\ {<<"getCategory", 404>>, <<"updateCategory", 404>>, <<"updateCategory", 409>>,
          <<"deleteCategory", 404>>} \subseteq CategoryById
  BY DEF Gaps, Categories, CategoryById, Path, Client, Missing
<1> QED
  BY <1>1, GroupsListed, StatusFacts DEF CategoryHandlers, Raise

LEMMA LogRaises ==
    \A raise \in LogHandlers : <<raise[1], Status(raise[2])>> \in Documented \cup Gaps
<1>1. /\ {<<"createLog", 403>>, <<"logStats", 403>>, <<"dummyLogs", 404>>, <<"dummyLogs", 409>>}
             \subseteq Gaps
      /\ <<"dummyLogs", 403>> \in Dummies
      /\ {<<"createLog", 400>>, <<"createLog", 404>>, <<"createLog", 409>>, <<"logStats", 404>>}
             \subseteq Logs
      /\ {<<"getLog", 404>>, <<"updateLog", 400>>, <<"updateLog", 404>>, <<"updateLog", 409>>,
          <<"deleteLog", 404>>} \subseteq LogById
  BY DEF Gaps, Dummies, Logs, LogById, Path, Client, Missing
<1> QED
  BY <1>1, GroupsListed, StatusFacts DEF LogHandlers, Raise

LEMMA SettingsRaises ==
    \A raise \in SettingsHandlers : <<raise[1], Status(raise[2])>> \in Documented \cup Gaps
<1>1. /\ <<"createSettings", 403>> \in Gaps
      /\ {<<"createSettings", 404>>, <<"createSettings", 409>>} \subseteq Settings
      /\ {<<"getSettings", 404>>, <<"updateSettings", 400>>, <<"updateSettings", 404>>,
          <<"deleteSettings", 404>>} \subseteq SettingById
      /\ {<<"achieve", 404>>, <<"display", 404>>} \subseteq SettingParts
  BY DEF Gaps, Settings, SettingById, SettingParts, Path, Client, Missing
<1> QED
  BY <1>1, GroupsListed, StatusFacts DEF SettingsHandlers, Raise

LEMMA AnalyticsRaises ==
    \A raise \in AnalyticsHandlers : <<raise[1], Status(raise[2])>> \in Documented \cup Gaps
<1>1. {<<"dashboard", 400>>, <<"metricAnalytics", 400>>, <<"metricAnalytics", 404>>}
          \subseteq Reports
  BY DEF Reports, Path, Client
<1> QED
  BY <1>1, GroupsListed, StatusFacts DEF AnalyticsHandlers, Raise

LEMMA RaisesListed ==
    \A raise \in Raises : <<raise[1], Status(raise[2])>> \in Documented \cup Gaps
BY AuthRaises, OrganizationRaises, MetricRaises, CategoryRaises, LogRaises, SettingsRaises,
   AnalyticsRaises DEF Raises

\* The statuses successResponse is called with are listed.
LEMMA SuccessListed ==
    \A op \in Operations \ ({"register"} \cup ProbeOps) : <<op, Success(op)>> \in Documented
<1>1. /\ \A op \in EntryOps \ {"register"} : Success(op) = 200 /\ <<op, 200>> \in Entry
      /\ \A op \in SessionOps : Success(op) = 200 /\ <<op, 200>> \in Session
      /\ \A op \in {"verifyEmail", "resendVerification", "switchOrg"} :
           Success(op) = 200 /\ <<op, 200>> \in Identity
  BY DEF Success, Entry, Session, Identity, EntryOps, SessionOps, Path
<1>2. /\ Success("adminPing") = 200 /\ <<"adminPing", 200>> \in Probes
      /\ Success("createInvite") = 201 /\ <<"createInvite", 201>> \in Organizations
      /\ \A op \in {"listOrganizations", "listMembers"} :
           Success(op) = 200 /\ <<op, 200>> \in Organizations
      /\ \A op \in MembershipOps : Success(op) = 200 /\ <<op, 200>> \in Memberships
  BY DEF Success, Probes, Organizations, Memberships, MembershipOps, Path
<1>3. /\ Success("createCategory") = 201 /\ <<"createCategory", 201>> \in Categories
      /\ Success("listCategories") = 200 /\ <<"listCategories", 200>> \in Categories
      /\ \A op \in {"getCategory", "updateCategory", "deleteCategory"} :
           Success(op) = 200 /\ <<op, 200>> \in CategoryById
  BY DEF Success, Categories, CategoryById, Path
<1>4. /\ Success("createMetric") = 201 /\ <<"createMetric", 201>> \in Metrics
      /\ Success("listMetrics") = 200 /\ <<"listMetrics", 200>> \in Metrics
      /\ \A op \in {"getMetric", "updateMetric", "deleteMetric"} :
           Success(op) = 200 /\ <<op, 200>> \in MetricById
  BY DEF Success, Metrics, MetricById, Path
<1>5. /\ Success("createLog") = 201 /\ <<"createLog", 201>> \in Logs
      /\ \A op \in {"listLogs", "logStats"} : Success(op) = 200 /\ <<op, 200>> \in Logs
      /\ \A op \in {"getLog", "updateLog", "deleteLog"} :
           Success(op) = 200 /\ <<op, 200>> \in LogById
  BY DEF Success, Logs, LogById, Path
<1>6. /\ Success("createSettings") = 201 /\ <<"createSettings", 201>> \in Settings
      /\ Success("listSettings") = 200 /\ <<"listSettings", 200>> \in Settings
      /\ \A op \in {"getSettings", "updateSettings", "deleteSettings"} :
           Success(op) = 200 /\ <<op, 200>> \in SettingById
      /\ \A op \in {"achieve", "display"} : Success(op) = 200 /\ <<op, 200>> \in SettingParts
  BY DEF Success, Settings, SettingById, SettingParts, Path
<1>7. /\ \A op \in {"dummyMetrics", "dummyCategories"} :
           Success(op) = 201 /\ <<op, 201>> \in Dummies
      /\ Success("dummyLogs") = 202 /\ <<"dummyLogs", 202>> \in Dummies
  BY DEF Success, Dummies, Path
<1>15. \A op \in ReportOps : Success(op) = 200
  BY DEF Success, ReportOps
<1>16. \A op \in ReportOps : <<op, 200>> \in Reports
  BY DEF Reports, ReportOps, Path
<1> SUFFICES ASSUME NEW op \in Operations \ ({"register"} \cup ProbeOps)
             PROVE  <<op, Success(op)>> \in Documented
  OBVIOUS
<1>8. CASE op \in EntryOps \cup SessionOps \cup {"verifyEmail", "resendVerification", "switchOrg"}
  BY <1>1, <1>8, GroupsListed
<1>9. CASE op \in {"adminPing"} \cup OrganizationOps \cup MembershipOps
  <2>1. op \in {"adminPing", "createInvite"} => <<op, Success(op)>> \in Probes \cup Organizations
    BY <1>2
  <2>2. op \in {"listOrganizations", "listMembers"} => <<op, Success(op)>> \in Organizations
    BY <1>2
  <2>3. op \in MembershipOps => <<op, Success(op)>> \in Memberships
    BY <1>2
  <2> QED
    BY <1>9, <2>1, <2>2, <2>3, GroupsListed DEF OrganizationOps
<1>10. CASE op \in CategoryOps
  BY <1>3, <1>10, GroupsListed DEF CategoryOps
<1>11. CASE op \in MetricOps
  BY <1>4, <1>11, GroupsListed DEF MetricOps
<1>12. CASE op \in LogOps
  BY <1>5, <1>12, GroupsListed DEF LogOps
<1>13. CASE op \in SettingOps
  BY <1>6, <1>13, GroupsListed DEF SettingOps
<1>14. CASE op \in DummyOps \cup ReportOps
  <2>1. op \in {"dummyMetrics", "dummyCategories"} => <<op, Success(op)>> \in Dummies
    BY <1>7
  <2>2. op = "dummyLogs" => <<op, Success(op)>> \in Dummies
    BY <1>7
  <2>3. op \in ReportOps => <<op, Success(op)>> \in Reports
    BY <1>15, <1>16
  <2> QED
    BY <1>14, <2>1, <2>2, <2>3, GroupsListed DEF DummyOps
<1> QED
  BY <1>8, <1>9, <1>10, <1>11, <1>12, <1>13, <1>14, OperationNames DEF Private

\* Every answer of every handler is listed.
LEMMA HandlerPermits == \A op : Permits(op, "handler")
<1> SUFFICES ASSUME NEW op PROVE Permits(op, "handler")
  OBVIOUS
<1>1. "handler" \notin Limiter \cup Stop
  BY Limiters DEF Stop
<1>2. CASE op \notin Operations
  BY <1>1, <1>2 DEF Permits, Listed
<1>3. CASE op \in {"register", "login"}
  <2>1. \A status \in SignInStatuses(op) :
           <<op, status>> \in Entry \cup {<<"login", 403>>, <<op, 429>>}
    BY <1>3 DEF SignInStatuses, Entry, Path, Client
  <2>2. <<"login", 403>> \in Gaps /\ op \notin ProbeOps
    BY <1>3 DEF Gaps, ProbeOps
  <2>3. op \in Operations => <<op, 429>> \in Documented
    BY <1>3 DEF Documented
  <2>4. \A status \in SignInStatuses(op) : Listed(op, status, "handler")
    BY <2>1, <2>2, <2>3, GroupsListed DEF Listed
  <2> QED
    BY <1>1, <1>3, <2>4 DEF Permits
<1>4. CASE op \in ProbeOps
  <2>1. \A status \in Handled(op) : status = 304 \/ <<op, status>> \in Probes
    BY <1>4 DEF ProbeOps, Handled, Sent, Probes, Path
  <2>2. \A status \in Handled(op) : Listed(op, status, "handler")
    BY <2>1, GroupsListed DEF Listed
  <2>3. op \notin {"register", "login"}
    BY <1>4 DEF ProbeOps
  <2> QED
    BY <1>1, <2>2, <2>3 DEF Permits
<1>5. CASE op \in Operations \ ({"register", "login"} \cup ProbeOps)
  <2>1. Handled(op) = Sent(op, Success(op)) \cup Failures(op)
    BY <1>5 DEF Handled, ProbeOps
  <2>2. \A status \in Sent(op, Success(op)) : Listed(op, status, "handler")
    BY <1>5, SuccessListed DEF Sent, Listed
  <2>3. ASSUME NEW status \in Failures(op) PROVE Listed(op, status, "handler")
    <3>1. status = 500 \/ <<op, status>> \in Documented \cup Gaps
      BY <2>3, RaisesListed, StatusFacts DEF Failures
    <3> QED
      BY <1>5, <3>1, FiveHundred, ListedFacts
  <2> QED
    BY <1>1, <1>5, <2>1, <2>2, <2>3 DEF Permits
<1> QED
  BY <1>2, <1>3, <1>4, <1>5

-----------------------------------------------------------------------------
(* The pipelines: every stage may answer the operation, and the last one   *)
(* always does.                                                            *)

Ends(stages) == stages # <<>> /\ stages[Len(stages)] \in {"handler"} \cup Stop

LEMMA Joined ==
    ASSUME NEW S, NEW s \in Seq(S), NEW t \in Seq(S)
    PROVE  /\ s \o t \in Seq(S) /\ Len(s \o t) = Len(s) + Len(t)
           /\ \A i \in 1..Len(s) : (s \o t)[i] = s[i]
           /\ \A i \in 1..Len(t) : (s \o t)[Len(s) + i] = t[i]
OBVIOUS

LEMMA HoldsJoined ==
    ASSUME NEW op, NEW s, NEW t, Holds(op, s), Holds(op, t)
    PROVE  Holds(op, s \o t)
<1>1. s \in Seq(Stages) /\ t \in Seq(Stages) /\ Len(s) \in Nat /\ Len(t) \in Nat
  BY DEF Holds
<1>2. /\ s \o t \in Seq(Stages) /\ Len(s \o t) = Len(s) + Len(t)
      /\ \A i \in 1..Len(s) : (s \o t)[i] = s[i]
      /\ \A i \in 1..Len(t) : (s \o t)[Len(s) + i] = t[i]
  BY <1>1, Joined
<1> DEFINE u == s \o t
<1>3. ASSUME NEW i \in 1..Len(u) PROVE Permits(op, u[i])
  <2>1. CASE i <= Len(s)
    <3>1. i \in 1..Len(s)
      BY <1>1, <2>1
    <3> QED
      BY <1>2, <3>1 DEF Holds
  <2>2. CASE i > Len(s)
    <3>1. i - Len(s) \in 1..Len(t) /\ i = Len(s) + (i - Len(s))
      BY <1>1, <1>2, <2>2
    <3>2. u[Len(s) + (i - Len(s))] = t[i - Len(s)]
      BY <1>2, <3>1
    <3> QED
      BY <3>1, <3>2 DEF Holds
  <2> QED
    BY <1>1, <2>1, <2>2
<1> QED
  BY <1>2, <1>3 DEF Holds

LEMMA ThroughHolds ==
    ASSUME NEW op, op \notin ProbeOps, NEW guards, Holds(op, guards)
    PROVE  Holds(op, Through(guards)) /\ Ends(Through(guards))
<1> DEFINE front == <<"https", "globalLimiter", "body">>
           last == <<"handler">>
<1>1. Holds(op, front)
  BY FrontPermits, StageNames, Holds3
<1>2. Holds(op, last) /\ Len(last) = 1 /\ last[1] = "handler"
  BY HandlerPermits, StageNames, Holds1
<1>3. Through(guards) = (front \o guards) \o last
  BY DEF Through
<1> HIDE DEF front, last
<1>4. Holds(op, front \o guards)
  BY <1>1, HoldsJoined
<1> DEFINE s == front \o guards
<1> HIDE DEF s
<1>5. s \in Seq(Stages) /\ last \in Seq(Stages) /\ Holds(op, s \o last)
  BY <1>2, <1>4, HoldsJoined DEF Holds, s
<1>6. /\ Len(s) \in Nat /\ Len(s \o last) = Len(s) + 1
      /\ (s \o last)[Len(s) + 1] = "handler"
  BY <1>2, <1>5, Joined
<1>7. s \o last # <<>>
  BY <1>5, <1>6
<1> QED
  BY <1>3, <1>5, <1>6, <1>7 DEF Ends, s

LEMMA RoutesApart == \A route \in Routes : route[1] \notin ProbeOps
<1>1. \A route \in AuthRoutes \cup OrganizationRoutes : route[1] \notin ProbeOps
  BY DEF AuthRoutes, OrganizationRoutes, ProbeOps
<1>2. \A route \in MetricRoutes \cup CategoryRoutes : route[1] \notin ProbeOps
  BY DEF MetricRoutes, CategoryRoutes, ProbeOps
<1>3. \A route \in LogRoutes \cup SettingsRoutes : route[1] \notin ProbeOps
  BY DEF LogRoutes, SettingsRoutes, ProbeOps
<1>4. \A route \in AnalyticsRoutes \cup AppRoutes : route[1] \notin ProbeOps
  BY DEF AnalyticsRoutes, AppRoutes, ProbeOps
<1> QED
  BY <1>1, <1>2, <1>3, <1>4 DEF Routes

LEMMA OneStage ==
    ASSUME NEW op, NEW stage \in {"handler"} \cup Stop, Permits(op, stage)
    PROVE  Holds(op, <<stage>>) /\ Ends(<<stage>>)
<1>1. Holds(op, <<stage>>)
  BY Holds1 DEF Stages, Guards
<1> QED
  BY <1>1 DEF Ends

LEMMA PipelinesHold ==
    \A pipeline \in Pipelines : Holds(pipeline[1], pipeline[2]) /\ Ends(pipeline[2])
<1>1. Holds("trace", <<"notAllowed">>) /\ Ends(<<"notAllowed">>)
  <2>1. "trace" \notin Operations
    BY OperationNames DEF EntryOps, SessionOps, Private, OrganizationOps, MembershipOps,
       CategoryOps, MetricOps, LogOps, DummyOps, SettingOps, ReportOps, ProbeOps
  <2>2. Permits("trace", "notAllowed")
    BY <2>1, GuardPermits DEF Stop
  <2> QED
    BY <2>2, OneStage DEF Stop
<1>2. \A op \in ProbeOps : Holds(op, <<"handler">>) /\ Ends(<<"handler">>)
  BY HandlerPermits, OneStage
<1>3. \A route \in Routes : Holds(route[1], Through(route[2])) /\ Ends(Through(route[2]))
  BY RouteGuards, RoutesApart, ThroughHolds
<1> SUFFICES ASSUME NEW pipeline \in Pipelines
             PROVE  Holds(pipeline[1], pipeline[2]) /\ Ends(pipeline[2])
  OBVIOUS
<1>4. CASE pipeline = <<"trace", <<"notAllowed">>>>
  BY <1>1, <1>4
<1>5. CASE pipeline \in ProbeOps \X {<<"handler">>}
  BY <1>2, <1>5
<1>6. CASE \E route \in Routes : pipeline = <<route[1], Through(route[2])>>
  BY <1>3, <1>6
<1> QED
  BY <1>4, <1>5, <1>6 DEF Pipelines

-----------------------------------------------------------------------------
(* A request's way: what is ahead of it may answer it, and while it        *)
(* registers or logs in it stands at its handler.                          *)

WayType ==
    req \in [Request -> [op : {None} \cup {pipeline[1] : pipeline \in Pipelines},
                         ahead : Seq(Stages)]]

Allowed(q) == q.op # None => Holds(q.op, q.ahead) /\ Ends(q.ahead)

\* A place of a registration, of a login, or an answer either can end with.
Belongs(q, op) ==
    /\ op \in {"register", "login"}
    /\ q.pc \in LoginPlaces => op = "login"
    /\ q.pc \in RegisterPlaces => op = "register"
    /\ q.pc = "answer" => q.status \in SignInStatuses(op)

Attended(r) == At(r, {"handler"}) /\ Belongs(at[r], req[r].op)

Way ==
    /\ WayType
    /\ \A r \in Request : Allowed(req[r])
    /\ \A r \in Request : at[r].pc # "idle" => Attended(r)

LEMMA SilentFacts ==
    /\ Silent \in [op : {None} \cup {pipeline[1] : pipeline \in Pipelines}, ahead : Seq(Stages)]
    /\ Silent.op = None
BY DEF Silent

LEMMA WayInit == HttpInit => Way /\ AnsweredAsDocumented
<1> SUFFICES ASSUME HttpInit PROVE Way /\ AnsweredAsDocumented
  OBVIOUS
<1>1. \A r \in Request : req[r] = Silent /\ at[r] = Idle
  BY DEF HttpInit, SignInInit
<1>2. WayType
  BY SilentFacts DEF HttpInit, WayType
<1>3. AnsweredAsDocumented
  BY DEF HttpInit, AnsweredAsDocumented
<1> QED
  BY <1>1, <1>2, <1>3, SilentFacts, IdleFacts DEF Way, Allowed

\* The stage a request stands at may answer it.
LEMMA HeadPermitted ==
    ASSUME Way, NEW r \in Request, req[r].op # None
    PROVE  /\ Permits(req[r].op, Head(req[r].ahead))
           /\ Head(req[r].ahead) \in Stages
<1>1. req[r].ahead \in Seq(Stages) /\ req[r].ahead # <<>> /\ Holds(req[r].op, req[r].ahead)
  BY DEF Way, WayType, Allowed, Ends
<1> DEFINE s == req[r].ahead
<1>2. Len(s) \in Nat /\ Len(s) > 0 /\ Head(s) = s[1] /\ s[1] \in Stages
  BY <1>1
<1> QED
  BY <1>1, <1>2 DEF Holds

\* What the request does next leaves the others alone.
LEMMA WayMoves ==
    ASSUME Way, NEW r \in Request,
           NEW rec \in [op : {None} \cup {pipeline[1] : pipeline \in Pipelines},
                        ahead : Seq(Stages)],
           req' = [req EXCEPT ![r] = rec], Allowed(rec),
           \A q \in Request : q # r => at'[q] = at[q],
           at'[r].pc = "idle"
    PROVE  Way'
<1>1. \A q \in Request : req'[q] = IF q = r THEN rec ELSE req[q]
  BY DEF Way, WayType
<1>2. WayType'
  BY DEF Way, WayType
<1>3. \A q \in Request : Allowed(req[q])'
  BY <1>1 DEF Way, Allowed
<1>4. ASSUME NEW q \in Request, at'[q].pc # "idle" PROVE Attended(q)'
  BY <1>1, <1>4 DEF Way, Attended, At
<1> QED
  BY <1>2, <1>3, <1>4 DEF Way

LEMMA ArriveKeepsWay ==
    ASSUME Way, NEW r \in Request, NEW pipeline \in Pipelines,
           Arrive(r, pipeline[1], pipeline[2])
    PROVE  Way'
<1> DEFINE rec == [op |-> pipeline[1], ahead |-> pipeline[2]]
<1>1. Holds(pipeline[1], pipeline[2]) /\ Ends(pipeline[2])
  BY PipelinesHold
<1>2. /\ rec \in [op : {None} \cup {p[1] : p \in Pipelines}, ahead : Seq(Stages)]
      /\ Allowed(rec)
  BY <1>1 DEF Holds, Allowed
<1>3. req' = [req EXCEPT ![r] = rec] /\ at' = at
  BY DEF Arrive, signIn
<1>4. at'[r].pc = "idle"
  BY <1>3, SilentFacts DEF Arrive, Way, Attended, At
<1> HIDE DEF rec
<1> QED
  BY <1>2, <1>3, <1>4, WayMoves

\* A guard or a limiter that lets a request pass is never its last stage.
LEMMA HandOnKeepsWay ==
    ASSUME Way, NEW r \in Request, At(r, (Guards \ Stop) \cup Limiter), HandOn(r), at' = at
    PROVE  Way'
<1> DEFINE s == req[r].ahead
           rec == [req[r] EXCEPT !.ahead = Tail(@)]
<1>1. /\ req[r] \in [op : {None} \cup {p[1] : p \in Pipelines}, ahead : Seq(Stages)]
      /\ s \in Seq(Stages) /\ Holds(req[r].op, s) /\ Ends(s)
      /\ s # <<>> /\ Head(s) \notin {"handler"} \cup Stop
  BY Limiters DEF Way, WayType, Allowed, At, Ends, Guards, Stop
<1>2. /\ Len(s) \in Nat /\ Len(s) > 0 /\ Head(s) = s[1]
  BY <1>1
<1>3. Len(s) > 1
  BY <1>1, <1>2 DEF Ends
<1>4. /\ Tail(s) \in Seq(Stages) /\ Len(Tail(s)) = Len(s) - 1
      /\ \A i \in 1..(Len(s) - 1) : Tail(s)[i] = s[i + 1]
  BY <1>1, <1>2
<1>5. rec.op = req[r].op /\ rec.ahead = Tail(s)
      /\ rec \in [op : {None} \cup {p[1] : p \in Pipelines}, ahead : Seq(Stages)]
  BY <1>1, <1>4
<1>6. ASSUME NEW i \in 1..(Len(s) - 1) PROVE Permits(req[r].op, Tail(s)[i])
  <2>1. i + 1 \in 1..Len(s)
    BY <1>2, <1>6
  <2> QED
    BY <1>1, <1>4, <2>1 DEF Holds
<1>7. Holds(req[r].op, Tail(s))
  BY <1>4, <1>6 DEF Holds
<1>8. Ends(Tail(s))
  <2>1. Len(s) - 1 \in 1..(Len(s) - 1) /\ (Len(s) - 1) + 1 = Len(s)
    BY <1>2, <1>3
  <2>2. Tail(s)[Len(Tail(s))] = s[Len(s)]
    BY <1>4, <2>1
  <2>3. Tail(s) # <<>>
    <3> DEFINE rest == Tail(s)
    <3>1. Len(rest) = Len(s) - 1
      BY <1>4
    <3> HIDE DEF rest
    <3>2. rest # <<>>
      BY <1>2, <1>3, <3>1
    <3> QED
      BY <3>2 DEF rest
  <2> QED
    BY <1>1, <2>2, <2>3 DEF Ends
<1>9. at'[r].pc = "idle"
  BY <1>1 DEF Way, Attended, At
<1>10. req' = [req EXCEPT ![r] = rec]
  BY DEF HandOn
<1>11. Allowed(rec)
  BY <1>5, <1>7, <1>8 DEF Allowed
<1> HIDE DEF rec, s
<1> QED
  BY <1>5, <1>9, <1>10, <1>11, WayMoves

-----------------------------------------------------------------------------
(* An answer is listed, and ends the request's way.                        *)

LEMMA RespondKeeps ==
    ASSUME Way, AnsweredAsDocumented, NEW r \in Request, NEW status, Respond(r, status),
           req[r].op # None, Listed(req[r].op, status, Head(req[r].ahead)),
           \A q \in Request : q # r => at'[q] = at[q],
           at'[r].pc = "idle"
    PROVE  Way' /\ AnsweredAsDocumented'
<1>1. req' = [req EXCEPT ![r] = Silent]
  BY DEF Respond
<1>2. Way'
  BY <1>1, SilentFacts, WayMoves DEF Allowed
<1> DEFINE op == req[r].op
           stage == Head(req[r].ahead)
<1>3. CASE op \notin Operations \/ <<op, status>> \in Documented
  <2>1. unlisted' = unlisted
    BY <1>3 DEF Respond
  <2> QED
    BY <1>2, <2>1 DEF AnsweredAsDocumented
<1>4. CASE op \in Operations /\ <<op, status>> \notin Documented
  <2>1. unlisted' = unlisted \cup {<<op, status, stage>>}
    BY <1>4 DEF Respond
  <2>2. \/ status = 304
        \/ op \notin ProbeOps /\ (<<stage, status>> \in Everywhere \/ <<op, status>> \in Gaps)
    BY <1>4 DEF Listed
  <2> HIDE DEF op, stage
  <2>3. \A a \in unlisted' : a \in unlisted \/ a = <<op, status, stage>>
    BY <2>1
  <2>4. ASSUME NEW a, a = <<op, status, stage>>
        PROVE  \/ a[2] = 304
               \/ a[1] \notin ProbeOps /\ (<<a[3], a[2]>> \in Everywhere \/ <<a[1], a[2]>> \in Gaps)
    <3>1. a[1] = op /\ a[2] = status /\ a[3] = stage
      BY <2>4
    <3> QED
      BY <2>2, <3>1
  <2>5. AnsweredAsDocumented'
    BY <2>3, <2>4 DEF AnsweredAsDocumented
  <2> QED
    BY <1>2, <2>5
<1> QED
  BY <1>3, <1>4

LEMMA RefuseKeeps ==
    ASSUME Way, AnsweredAsDocumented, NEW r \in Request, Refuse(r)
    PROVE  Way' /\ AnsweredAsDocumented'
<1> DEFINE stage == Head(req[r].ahead)
<1>1. PICK status \in Refusals(stage) : Respond(r, status)
  BY DEF Refuse
<1>2. req[r].op # None /\ stage \in Guards /\ at' = at
  BY DEF Refuse, At, signIn
<1>3. Permits(req[r].op, stage)
  BY <1>2, HeadPermitted
<1>4. Listed(req[r].op, status, stage)
  <2> HIDE DEF stage
  <2>1. CASE stage = "https"
    BY <1>1, <1>3, <2>1 DEF Refusals, Permits
  <2>2. CASE stage = "body"
    BY <1>1, <1>3, <2>2 DEF Refusals, Permits
  <2>3. CASE stage = "auth"
    BY <1>1, <1>3, <2>3 DEF Refusals, Permits, authMiddleware
  <2>4. CASE stage \in {"json", "validate"}
    BY <1>1, <1>3, <2>4 DEF Refusals, Permits, validate, requireJsonObjectBody
  <2>5. CASE stage = "role"
    BY <1>1, <1>3, <2>5 DEF Refusals, Permits, requireOrgRole
  <2>6. CASE stage \in Stop
    BY <1>3, <2>6 DEF Permits, Listed
  <2>7. CASE stage = "cache"
    BY <1>1, <2>7 DEF Refusals
  <2> QED
    BY <1>2, <2>1, <2>2, <2>3, <2>4, <2>5, <2>6, <2>7 DEF Guards
<1>5. at'[r].pc = "idle"
  BY <1>2, Limiters DEF Way, Attended, At, Guards, Stop
<1> QED
  BY <1>1, <1>2, <1>4, <1>5, RespondKeeps

LEMMA CacheKeeps ==
    ASSUME Way, AnsweredAsDocumented, NEW r \in Request, CacheHit(r)
    PROVE  Way' /\ AnsweredAsDocumented'
<1>1. PICK status \in Sent(req[r].op, 200) : Respond(r, status)
  BY DEF CacheHit
<1>2. req[r].op # None /\ Head(req[r].ahead) = "cache" /\ at' = at
  BY DEF CacheHit, At, signIn
<1>3. Listed(req[r].op, 200, "cache")
  BY <1>2, HeadPermitted DEF Permits
<1>4. Listed(req[r].op, status, Head(req[r].ahead))
  BY <1>1, <1>2, <1>3 DEF Sent, Listed
<1>5. at'[r].pc = "idle"
  BY <1>2 DEF Way, Attended, At
<1> QED
  BY <1>1, <1>2, <1>4, <1>5, RespondKeeps

LEMMA LimitersKeep ==
    ASSUME Way, AnsweredAsDocumented, NEW r \in Request, Count(r) \/ StoreFails(r)
    PROVE  Way' /\ AnsweredAsDocumented'
<1>1. At(r, Limiter) /\ req[r].op # None /\ Head(req[r].ahead) \in Limiter /\ at' = at
  BY DEF Count, StoreFails, At, signIn
<1>2. /\ Listed(req[r].op, 429, Head(req[r].ahead))
      /\ Listed(req[r].op, 500, Head(req[r].ahead))
  BY <1>1, HeadPermitted DEF Permits
<1>3. at'[r].pc = "idle"
  BY <1>1, Limiters DEF Way, Attended, At
<1>4. CASE Respond(r, 429) \/ Respond(r, 500)
  BY <1>1, <1>2, <1>3, <1>4, RespondKeeps
<1>5. CASE HandOn(r) /\ UNCHANGED unlisted
  <2>1. Way'
    BY <1>1, <1>5, HandOnKeepsWay DEF At
  <2> QED
    BY <1>5, <2>1 DEF AnsweredAsDocumented
<1> QED
  BY <1>4, <1>5, StatusFacts DEF Count, StoreFails

LEMMA HandleKeeps ==
    ASSUME Way, AnsweredAsDocumented, NEW r \in Request, Handle(r)
    PROVE  Way' /\ AnsweredAsDocumented'
<1>1. PICK status \in Handled(req[r].op) : Respond(r, status)
  BY DEF Handle
<1>2. /\ req[r].op # None /\ Head(req[r].ahead) = "handler" /\ at' = at
      /\ req[r].op \notin {"login", "register"}
  BY DEF Handle, At, signIn
<1>3. Listed(req[r].op, status, Head(req[r].ahead))
  BY <1>1, <1>2, HeadPermitted DEF Permits
<1>4. at'[r].pc = "idle"
  BY <1>2 DEF Way, Attended, Belongs
<1> QED
  BY <1>1, <1>2, <1>3, <1>4, RespondKeeps

-----------------------------------------------------------------------------
(* Registering and logging in end with the answers Belongs names.          *)

LEMMA GoesTo ==
    ASSUME at \in [Request -> ReqState], NEW r \in Request, NEW pc, Goto(r, pc)
    PROVE  at'[r].pc = pc /\ \A q \in Request : q # r => at'[q] = at[q]
<1> DEFINE rec == [at[r] EXCEPT !.pc = pc]
<1>1. rec.pc = pc
  BY DEF ReqState
<1>2. at' = [at EXCEPT ![r] = rec]
  BY DEF Goto
<1> HIDE DEF rec
<1> QED
  BY <1>1, <1>2

LEMMA AnswersWith ==
    ASSUME at \in [Request -> ReqState], NEW r \in Request, NEW status, Answer(r, status)
    PROVE  /\ at'[r].pc = "answer" /\ at'[r].status = status
           /\ \A q \in Request : q # r => at'[q] = at[q]
<1> DEFINE rec == [Idle EXCEPT !.pc = "answer", !.status = status]
<1>1. rec.pc = "answer" /\ rec.status = status
  BY DEF Idle
<1>2. at' = [at EXCEPT ![r] = rec]
  BY DEF Answer
<1> HIDE DEF rec
<1> QED
  BY <1>1, <1>2

LEMMA PlaceBelongs ==
    ASSUME NEW q, NEW op
    PROVE  /\ q.pc \in LoginPlaces /\ op = "login" => Belongs(q, op)
           /\ q.pc \in RegisterPlaces /\ op = "register" => Belongs(q, op)
           /\ q.pc = "answer" /\ op \in {"register", "login"} /\ q.status \in SignInStatuses(op)
                => Belongs(q, op)
BY DEF Belongs, LoginPlaces, RegisterPlaces

LEMMA RegistrationBelongs ==
    ASSUME at \in [Request -> ReqState], NEW r \in Request, Belongs(at[r], "register"),
           \/ ExistsByEmail(r) \/ ExistsByUsername(r) \/ InsertUser(r) \/ InsertRow(r)
           \/ Commit(r)
    PROVE  /\ Belongs(at'[r], "register") /\ at[r].pc # "idle"
           /\ \A q \in Request : q # r => at'[q] = at[q]
<1>1. ASSUME NEW status \in {201, 409, 500}, Answer(r, status)
      PROVE  /\ Belongs(at'[r], "register")
             /\ \A q \in Request : q # r => at'[q] = at[q]
  BY <1>1, AnswersWith, PlaceBelongs DEF SignInStatuses
<1>2. ASSUME NEW pc \in RegisterPlaces, Goto(r, pc)
      PROVE  /\ Belongs(at'[r], "register")
             /\ \A q \in Request : q # r => at'[q] = at[q]
  BY <1>2, GoesTo, PlaceBelongs
<1>3. CASE ExistsByEmail(r) \/ ExistsByUsername(r)
  BY <1>1, <1>2, <1>3 DEF ExistsByEmail, ExistsByUsername, RegisterPlaces
<1>4. CASE InsertUser(r)
  <2> DEFINE rec == [at[r] EXCEPT !.pc = "organization", !.rows = {"user"}]
  <2>1. rec.pc = "organization"
    BY DEF ReqState
  <2>2. Answer(r, 409) \/ at' = [at EXCEPT ![r] = rec]
    BY <1>4 DEF InsertUser
  <2> HIDE DEF rec
  <2>3. CASE at' = [at EXCEPT ![r] = rec]
    <3>1. at'[r].pc \in RegisterPlaces /\ \A q \in Request : q # r => at'[q] = at[q]
      BY <2>1, <2>3 DEF RegisterPlaces
    <3> QED
      BY <1>4, <3>1, PlaceBelongs DEF InsertUser
  <2> QED
    BY <1>1, <1>4, <2>2, <2>3 DEF InsertUser
<1>5. CASE InsertRow(r)
  <2> DEFINE rec == [at[r] EXCEPT !.pc = Following[@], !.rows = @ \cup {at[r].pc}]
  <2>1. rec.pc = Following[at[r].pc]
    BY DEF ReqState
  <2>2. Following[at[r].pc] \in RegisterPlaces /\ at[r].pc # "idle"
    BY <1>5 DEF InsertRow, Following, RegisterPlaces
  <2>3. at' = [at EXCEPT ![r] = rec]
    BY <1>5 DEF InsertRow
  <2> HIDE DEF rec
  <2>4. at'[r].pc \in RegisterPlaces /\ \A q \in Request : q # r => at'[q] = at[q]
    BY <2>1, <2>2, <2>3
  <2> QED
    BY <2>2, <2>4, PlaceBelongs
<1>6. CASE Commit(r)
  BY <1>1, <1>6 DEF Commit
<1> QED
  BY <1>3, <1>4, <1>5, <1>6

LEMMA LoginBelongs ==
    ASSUME at \in [Request -> ReqState], NEW r \in Request, Belongs(at[r], "login"),
           \/ CheckLockout(r) \/ CheckSkipped(r) \/ RightPassword(r) \/ WrongPassword(r)
           \/ RecordFailure(r) \/ RecordFails(r) \/ SetExpiry(r) \/ ExpiryLost(r)
           \/ FindMembership(r) \/ Reset(r) \/ ResetFails(r)
    PROVE  /\ Belongs(at'[r], "login") /\ at[r].pc # "idle"
           /\ \A q \in Request : q # r => at'[q] = at[q]
<1>1. ASSUME NEW status \in {200, 401, 403, 429, 500}, Answer(r, status)
      PROVE  /\ Belongs(at'[r], "login")
             /\ \A q \in Request : q # r => at'[q] = at[q]
  BY <1>1, AnswersWith, PlaceBelongs DEF SignInStatuses
<1>2. ASSUME NEW pc \in LoginPlaces, Goto(r, pc)
      PROVE  /\ Belongs(at'[r], "login")
             /\ \A q \in Request : q # r => at'[q] = at[q]
  BY <1>2, GoesTo, PlaceBelongs
<1>3. CASE CheckLockout(r) \/ CheckSkipped(r) \/ RightPassword(r) \/ WrongPassword(r)
  BY <1>1, <1>2, <1>3 DEF CheckLockout, CheckSkipped, RightPassword, WrongPassword, LoginPlaces
<1>4. CASE RecordFailure(r) \/ RecordFails(r) \/ SetExpiry(r) \/ ExpiryLost(r)
  BY <1>1, <1>2, <1>4 DEF RecordFailure, RecordFails, SetExpiry, ExpiryLost, LoginPlaces
<1>5. CASE FindMembership(r) \/ Reset(r) \/ ResetFails(r)
  BY <1>1, <1>2, <1>5 DEF FindMembership, Reset, ResetFails, LoginPlaces
<1> QED
  BY <1>3, <1>4, <1>5

LEMMA StepBelongs ==
    ASSUME at \in [Request -> ReqState], NEW r \in Request, SignInStep(r), NEW op,
           Belongs(at[r], op)
    PROVE  /\ Belongs(at'[r], op) /\ at[r].pc # "idle"
           /\ \A q \in Request : q # r => at'[q] = at[q]
<1>1. CASE StatementFails(r)
  <2>1. Answer(r, 500) /\ at[r].pc # "idle"
    BY <1>1 DEF StatementFails, Following
  <2>2. 500 \in SignInStatuses(op) /\ op \in {"register", "login"}
    BY DEF Belongs, SignInStatuses
  <2> QED
    BY <2>1, <2>2, AnswersWith, PlaceBelongs
<1>2. CASE \/ ExistsByEmail(r) \/ ExistsByUsername(r) \/ InsertUser(r) \/ InsertRow(r)
           \/ Commit(r)
  <2>1. at[r].pc \in RegisterPlaces
    BY <1>2 DEF ExistsByEmail, ExistsByUsername, InsertUser, InsertRow, Commit, Following,
                RegisterPlaces
  <2>2. op = "register"
    BY <2>1 DEF Belongs
  <2> QED
    BY <1>2, <2>2, RegistrationBelongs
<1>3. CASE \/ CheckLockout(r) \/ CheckSkipped(r) \/ RightPassword(r) \/ WrongPassword(r)
           \/ RecordFailure(r) \/ RecordFails(r) \/ SetExpiry(r) \/ ExpiryLost(r)
           \/ FindMembership(r) \/ Reset(r) \/ ResetFails(r)
  <2>1. at[r].pc \in LoginPlaces
    BY <1>3 DEF CheckLockout, CheckSkipped, RightPassword, WrongPassword, RecordFailure,
                RecordFails, SetExpiry, ExpiryLost, FindMembership, Reset, ResetFails,
                LoginPlaces
  <2>2. op = "login"
    BY <2>1 DEF Belongs
  <2> QED
    BY <1>3, <2>2, LoginBelongs
<1> QED
  BY <1>1, <1>2, <1>3 DEF SignInStep

LEMMA SignInKeepsWay ==
    ASSUME Kept, Way, NEW r \in Request, SignInStep(r), UNCHANGED http
    PROVE  Way'
<1>1. req' = req /\ at \in [Request -> ReqState]
  BY DEF http, Kept, Inv, TypeOK
<1>2. at[r].pc # "idle"
  BY DEF SignInStep, ExistsByEmail, ExistsByUsername, InsertUser, InsertRow, Commit,
         StatementFails, CheckLockout, CheckSkipped, RightPassword, WrongPassword,
         RecordFailure, RecordFails, SetExpiry, ExpiryLost, FindMembership, Reset,
         ResetFails, Following
<1>3. Attended(r)
  BY <1>2 DEF Way
<1>4. Belongs(at'[r], req[r].op) /\ \A q \in Request : q # r => at'[q] = at[q]
  BY <1>1, <1>3, StepBelongs DEF Attended
<1>5. ASSUME NEW q \in Request, at'[q].pc # "idle" PROVE Attended(q)'
  BY <1>1, <1>3, <1>4, <1>5 DEF Way, Attended, At
<1>6. WayType' /\ \A q \in Request : Allowed(req[q])'
  BY <1>1 DEF Way, WayType, Allowed
<1> QED
  BY <1>5, <1>6 DEF Way

LEMMA BeginKeepsWay ==
    ASSUME Kept, Way, NEW r \in Request, BeginSignIn(r)
    PROVE  Way'
<1>1. req' = req /\ At(r, {"handler"}) /\ at \in [Request -> ReqState]
  BY DEF BeginSignIn, http, Kept, Inv, TypeOK
<1>2. Belongs(at'[r], req[r].op) /\ \A q \in Request : q # r => at'[q] = at[q]
  <2>1. ASSUME NEW e \in Email, NEW n \in Username, Register(r, e, n), req[r].op = "register"
        PROVE  Belongs(at'[r], req[r].op) /\ \A q \in Request : q # r => at'[q] = at[q]
    <3> DEFINE rec == [Idle EXCEPT !.pc = "email", !.email = e, !.name = n]
    <3>1. rec.pc = "email"
      BY DEF Idle
    <3>2. at' = [at EXCEPT ![r] = rec]
      BY <2>1 DEF Register
    <3> HIDE DEF rec
    <3>3. at'[r].pc \in RegisterPlaces /\ \A q \in Request : q # r => at'[q] = at[q]
      BY <1>1, <3>1, <3>2 DEF RegisterPlaces
    <3> QED
      BY <2>1, <3>3, PlaceBelongs
  <2>2. ASSUME NEW e \in Email, Login(r, e), req[r].op = "login"
        PROVE  Belongs(at'[r], req[r].op) /\ \A q \in Request : q # r => at'[q] = at[q]
    <3> DEFINE rec == [Idle EXCEPT !.pc = "check", !.email = e]
    <3>1. rec.pc = "check"
      BY DEF Idle
    <3>2. at' = [at EXCEPT ![r] = rec]
      BY <2>2 DEF Login
    <3> HIDE DEF rec
    <3>3. at'[r].pc \in LoginPlaces /\ \A q \in Request : q # r => at'[q] = at[q]
      BY <1>1, <3>1, <3>2 DEF LoginPlaces
    <3> QED
      BY <2>2, <3>3, PlaceBelongs
  <2> QED
    BY <2>1, <2>2 DEF BeginSignIn
<1>3. ASSUME NEW q \in Request, at'[q].pc # "idle" PROVE Attended(q)'
  BY <1>1, <1>2, <1>3 DEF Way, Attended, At
<1>4. WayType' /\ \A q \in Request : Allowed(req[q])'
  BY <1>1 DEF Way, WayType, Allowed
<1> QED
  BY <1>3, <1>4 DEF Way

LEMMA EndKeeps ==
    ASSUME Kept, Way, AnsweredAsDocumented, NEW r \in Request, EndSignIn(r)
    PROVE  Way' /\ AnsweredAsDocumented'
<1>1. /\ at[r].pc = "answer" /\ Respond(r, at[r].status)
      /\ at' = [at EXCEPT ![r] = Idle] /\ at \in [Request -> ReqState]
  BY DEF EndSignIn, Kept, Inv, TypeOK
<1>2. /\ req[r].op # None /\ Head(req[r].ahead) = "handler"
      /\ req[r].op \in {"register", "login"} /\ at[r].status \in SignInStatuses(req[r].op)
  BY <1>1 DEF Way, Attended, At, Belongs
<1>3. Listed(req[r].op, at[r].status, Head(req[r].ahead))
  BY <1>2, HeadPermitted DEF Permits
<1>4. at'[r].pc = "idle" /\ \A q \in Request : q # r => at'[q] = at[q]
  BY <1>1, IdleFacts
<1> QED
  BY <1>1, <1>2, <1>3, <1>4, RespondKeeps

LEMMA WayNext ==
    Kept /\ Way /\ AnsweredAsDocumented /\ [HttpNext]_<<http, signIn>>
        => Way' /\ AnsweredAsDocumented'
<1> SUFFICES ASSUME Kept, Way, AnsweredAsDocumented, [HttpNext]_<<http, signIn>>
             PROVE  Way' /\ AnsweredAsDocumented'
  OBVIOUS
<1>1. ASSUME UNCHANGED <<req, at, unlisted>> PROVE Way' /\ AnsweredAsDocumented'
  BY <1>1 DEF Way, WayType, Allowed, Attended, At, AnsweredAsDocumented
<1>2. ASSUME UNCHANGED unlisted PROVE AnsweredAsDocumented'
  BY <1>2 DEF AnsweredAsDocumented
<1>3. ASSUME NEW r \in Request, NEW pipeline \in Pipelines, Arrive(r, pipeline[1], pipeline[2])
      PROVE  Way' /\ AnsweredAsDocumented'
  BY <1>2, <1>3, ArriveKeepsWay DEF Arrive
<1>4. ASSUME NEW r \in Request, Pass(r) \/ NotLimited(r)
      PROVE  Way' /\ AnsweredAsDocumented'
  <2>1. At(r, (Guards \ Stop) \cup Limiter) /\ HandOn(r) /\ at' = at /\ UNCHANGED unlisted
    BY <1>4 DEF Pass, NotLimited, At, signIn
  <2> QED
    BY <1>2, <2>1, HandOnKeepsWay
<1>5. ASSUME NEW r \in Request,
             \/ Refuse(r) \/ CacheHit(r) \/ Count(r) \/ StoreFails(r) \/ Handle(r)
             \/ EndSignIn(r)
      PROVE  Way' /\ AnsweredAsDocumented'
  BY <1>5, RefuseKeeps, CacheKeeps, LimitersKeep, HandleKeeps, EndKeeps
<1>6. ASSUME NEW r \in Request, BeginSignIn(r) \/ (SignInStep(r) /\ UNCHANGED http)
      PROVE  Way' /\ AnsweredAsDocumented'
  BY <1>2, <1>6, BeginKeepsWay, SignInKeepsWay DEF BeginSignIn, http
<1>7. ASSUME \/ \E l \in Limiter : WindowEnds(l)
             \/ SignInElsewhere /\ UNCHANGED http
      PROVE  Way' /\ AnsweredAsDocumented'
  BY <1>1, <1>7 DEF WindowEnds, SignInElsewhere, KeyExpires, MembershipChanges, http, signIn
<1> QED
  BY <1>1, <1>3, <1>4, <1>5, <1>6, <1>7 DEF HttpNext, http, signIn

-----------------------------------------------------------------------------
(* What registration, the lockout, the limiters and the document promise.  *)

\* Whichever statement of a registration fails and whoever registers beside it, an
\* address has all four rows or none, and a username belongs to one address.
THEOREM RegistersWhole == HttpSpec => []AccountsWhole
<1>1. Kept => AccountsWhole
  BY DEF Kept, Inv
<1> QED
  BY <1>1, Inductive, PTL

\* The wrong passwords tried at an address, while Redis answers, are at most the
\* threshold less one and one for each request under way.
THEOREM AttemptsBounded == HttpSpec => []GuessesBounded
<1>1. Kept => GuessesBounded
  <2> SUFFICES ASSUME Kept, NEW e \in Email, e \notin missed
               PROVE  guesses[e] <= Threshold - 1 + Cardinality(Request)
    BY DEF GuessesBounded
  <2>1. guesses[e] + Size(at, "find", e) <= Threshold - 1 + Cardinality(Request)
    BY DEF Kept, Lockout, Tried
  <2>2. guesses[e] \in Nat /\ Threshold \in Nat
    BY SignInAssumption DEF Kept, Inv, TypeOK, CounterType
  <2> QED
    BY <2>1, <2>2, SizeType
<1> QED
  BY <1>1, Inductive, PTL

\* No request of another route and no other limiter's store spends a limiter's budget.
THEOREM CountsItsOwn == HttpSpec => []OwnBudget
BY BudgetInit, BudgetNext, PTL DEF HttpSpec

\* Whatever guard, limiter, store, database or handler a request ends at, the document
\* lists its answer for the operation, or it is one of the gaps written down; and the
\* probes are answered by their handlers alone.
THEOREM AnswersAsDocumented == HttpSpec => []AnsweredAsDocumented
<1>1. HttpInit => Kept /\ Way /\ AnsweredAsDocumented
  BY InvInit, LockoutInit, WayInit DEF Kept
<1>2. Kept /\ Way /\ AnsweredAsDocumented /\ [HttpNext]_<<http, signIn>>
        => (Kept /\ Way /\ AnsweredAsDocumented)'
  BY NextKeeps, WayNext
<1> QED
  BY <1>1, <1>2, PTL DEF HttpSpec
=============================================================================
