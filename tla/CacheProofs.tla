----------------------------- MODULE CacheProofs -----------------------------
(***************************************************************************)
(* That a page a write has cleared is older than the write only when the   *)
(* GET that stored it overlapped the write, for any readers and writers,   *)
(* pages and writes of ResponseCache.                                      *)
(***************************************************************************)
EXTENDS ResponseCache, TLAPS

Entry == [saw : SUBSET Writer, met : SUBSET Writer]

TypeOK ==
    /\ committed \subseteq Writer
    /\ pc \in [Writer -> {"idle", "save", "clear", "walk", "answered", "failed"}]
    /\ swept \in [Writer -> SUBSET Page]
    /\ walks \in [Writer -> SUBSET Page]
    /\ cache \in [Page -> Entry \cup {NoEntry}]
    /\ get \in [Reader -> [at : {"idle", "hit", "missed", "store"},
                           page : Page \cup {NoGet.page},
                           saw : SUBSET Writer, met : SUBSET Writer]]

-----------------------------------------------------------------------------
(* The inductive invariant.                                                *)

\* The write changes what the page shows.
Affects(w, p) == Write[op[w]].tables \cap PageReads[p] # {}

\* A writer that has not begun has changed and cleared nothing, and no walk of its
\* is running.
NotBegun == \A w \in Writer : pc[w] = "idle" => w \notin committed /\ swept[w] = {} /\ walks[w] = {}

\* A write a GET has not met is not under way, and the GET has seen what it committed.
Meets(g) ==
    g.at \in {"missed", "store"} =>
        \A w \in Writer \ g.met :
            /\ pc[w] \notin {"save", "clear", "walk"}
            /\ g.at = "store" /\ w \in committed /\ Affects(w, g.page) => w \in g.saw

ReadsMeet == \A r \in Reader : Meets(get[r])

\* It will never commit.
Void(w) == w \notin committed /\ pc[w] \in {"answered", "failed"}

\* An entry was stored before a write that it neither saw nor met: such a write has
\* yet to clear the page.
EntriesSound ==
    \A w \in Writer, p \in Page :
        /\ cache[p] # NoEntry /\ Affects(w, p)
        /\ w \notin cache[p].saw \cup cache[p].met
        /\ p \in swept[w]
        => Void(w)

Inv == TypeOK /\ NotBegun /\ ReadsMeet /\ EntriesSound

LEMMA NoGetFacts ==
    /\ NoGet \in [at : {"idle", "hit", "missed", "store"}, page : Page \cup {NoGet.page},
                  saw : SUBSET Writer, met : SUBSET Writer]
    /\ Meets(NoGet)
BY DEF NoGet, Meets

LEMMA InvInit == Init => Inv
<1> SUFFICES ASSUME Init PROVE Inv
  OBVIOUS
<1>1. TypeOK
  BY NoGetFacts DEF Init, TypeOK
<1>2. NotBegun /\ EntriesSound
  BY DEF Init, NotBegun, EntriesSound
<1>3. ReadsMeet
  BY NoGetFacts DEF Init, ReadsMeet
<1> QED
  BY <1>1, <1>2, <1>3 DEF Inv

-----------------------------------------------------------------------------
(* A GET.                                                                  *)

\* A GET moves on, and Redis keeps what it had.
LEMMA GetMoves ==
    ASSUME Inv, NEW r \in Reader, NEW g, get' = [get EXCEPT ![r] = g],
           g \in [at : {"idle", "hit", "missed", "store"}, page : Page \cup {NoGet.page},
                  saw : SUBSET Writer, met : SUBSET Writer],
           Meets(g), UNCHANGED <<dbVars, writeVars, cache>>
    PROVE  Inv'
<1>1. TypeOK'
  BY DEF Inv, TypeOK, dbVars, writeVars
<1>2. NotBegun' /\ EntriesSound'
  BY DEF Inv, NotBegun, EntriesSound, Affects, Void, dbVars, writeVars
<1>3. ReadsMeet'
  <2> SUFFICES ASSUME NEW q \in Reader PROVE Meets(get[q])'
    BY DEF ReadsMeet
  <2>1. get'[q] = IF q = r THEN g ELSE get[q]
    BY DEF Inv, TypeOK
  <2> QED
    BY <2>1 DEF Inv, ReadsMeet, Meets, Affects, dbVars, writeVars
<1> QED
  BY <1>1, <1>2, <1>3 DEF Inv

LEMMA HitKeepsInv ==
    ASSUME Inv, NEW r \in Reader, NEW p \in Page, Hit(r, p)
    PROVE  Inv'
<1> DEFINE g == [at |-> "hit", page |-> p, saw |-> {}, met |-> {}]
<1>1. Meets(g)
  BY DEF Meets
<1> QED
  BY <1>1, GetMoves DEF Hit

LEMMA MissKeepsInv ==
    ASSUME Inv, NEW r \in Reader, NEW p \in Page, Miss(r, p)
    PROVE  Inv'
<1> DEFINE g == [at |-> "missed", page |-> p, saw |-> {}, met |-> UnderWay]
<1>1. Meets(g) /\ UnderWay \subseteq Writer
  BY DEF Meets, UnderWay
<1> QED
  BY <1>1, GetMoves DEF Miss

LEMMA QueryKeepsInv ==
    ASSUME Inv, NEW r \in Reader, Query(r)
    PROVE  Inv'
<1> DEFINE g == [get[r] EXCEPT !.at = "store", !.saw = Shows(get[r].page)]
<1>1. Shows(get[r].page) \subseteq Writer
  BY DEF Inv, TypeOK, Shows
<1>2. g \in [at : {"idle", "hit", "missed", "store"}, page : Page \cup {NoGet.page},
             saw : SUBSET Writer, met : SUBSET Writer]
      /\ g.at = "store" /\ g.page = get[r].page /\ g.saw = Shows(get[r].page)
      /\ g.met = get[r].met
  BY <1>1 DEF Inv, TypeOK
<1>3. Meets(get[r]) /\ get[r].at = "missed"
  BY DEF Inv, ReadsMeet, Query
<1>4. Meets(g)
  BY <1>2, <1>3 DEF Meets, Shows, Affects
<1>5. get' = [get EXCEPT ![r] = g] /\ UNCHANGED <<dbVars, writeVars, cache>>
  BY DEF Query
<1> HIDE DEF g
<1> QED
  BY <1>2, <1>4, <1>5, GetMoves

LEMMA EndGetKeepsInv ==
    ASSUME Inv, NEW r \in Reader, EndGet(r)
    PROVE  Inv'
BY NoGetFacts, GetMoves DEF EndGet

\* What is stored has seen or met every write but those that have not begun and those
\* that never commit.
LEMMA StoreKeepsInv ==
    ASSUME Inv, NEW r \in Reader, Store(r)
    PROVE  Inv'
<1> DEFINE g == get[r]
           e == [saw |-> g.saw, met |-> g.met \ g.saw]
<1>1. e \in Entry /\ UNCHANGED <<dbVars, writeVars>>
      /\ cache' = [cache EXCEPT ![g.page] = e] /\ get' = [get EXCEPT ![r] = NoGet]
  BY DEF Inv, TypeOK, Store, Entry
<1>2. TypeOK' /\ NotBegun'
  BY <1>1, NoGetFacts DEF Inv, TypeOK, NotBegun, dbVars, writeVars
<1>3. ReadsMeet'
  <2> SUFFICES ASSUME NEW q \in Reader PROVE Meets(get[q])'
    BY DEF ReadsMeet
  <2>1. get'[q] = IF q = r THEN NoGet ELSE get[q]
    BY <1>1 DEF Inv, TypeOK
  <2> QED
    BY <1>1, <2>1, NoGetFacts DEF Inv, ReadsMeet, Meets, Affects, dbVars, writeVars
<1>4. EntriesSound'
  <2> SUFFICES ASSUME NEW w \in Writer, NEW p \in Page, cache'[p] # NoEntry, Affects(w, p),
                      w \notin cache'[p].saw \cup cache'[p].met, p \in swept[w]
               PROVE  Void(w)
    BY <1>1 DEF EntriesSound, Affects, Void, dbVars, writeVars
  <2>1. cache'[p] = IF p = g.page THEN e ELSE cache[p]
    BY <1>1 DEF Inv, TypeOK
  <2>2. CASE p # g.page
    BY <2>1, <2>2 DEF Inv, EntriesSound
  <2>3. CASE p = g.page
    <3>1. w \notin g.saw /\ w \notin g.met
      BY <2>1, <2>3
    <3>2. pc[w] \notin {"save", "clear", "walk"} /\ w \notin committed
      BY <2>3, <3>1 DEF Inv, ReadsMeet, Meets, Store
    <3> QED
      BY <3>2 DEF Inv, TypeOK, NotBegun, Void
  <2> QED
    BY <2>2, <2>3
<1> QED
  BY <1>2, <1>3, <1>4 DEF Inv

LEMMA ExpireKeepsInv ==
    ASSUME Inv, NEW p \in Page, Expire(p)
    PROVE  Inv'
<1>1. UNCHANGED <<dbVars, writeVars, get>> /\ cache' = [cache EXCEPT ![p] = NoEntry]
  BY DEF Expire
<1>2. \A q \in Page : cache'[q] = IF q = p THEN NoEntry ELSE cache[q]
  BY <1>1 DEF Inv, TypeOK
<1>3. TypeOK' /\ NotBegun' /\ ReadsMeet'
  BY <1>1 DEF Inv, TypeOK, NotBegun, ReadsMeet, Meets, Affects, dbVars, writeVars
<1>4. EntriesSound'
  BY <1>1, <1>2 DEF Inv, EntriesSound, Affects, Void, dbVars, writeVars
<1> QED
  BY <1>3, <1>4 DEF Inv

-----------------------------------------------------------------------------
(* A write.                                                                *)

\* A handler that is under way goes on or ends, and its walks with it; nothing is
\* committed or deleted.
LEMMA WriterMoves ==
    ASSUME Inv, NEW w \in Writer, NEW to, NEW left \in SUBSET Page,
           pc' = [pc EXCEPT ![w] = to], walks' = [walks EXCEPT ![w] = left],
           UNCHANGED <<committed, op, swept, cache, get>>,
           \/ to = pc[w] /\ left \subseteq walks[w]
           \/ w \in UnderWay /\ to \in {"save", "clear", "walk", "answered", "failed"}
    PROVE  Inv'
<1>1. TypeOK'
  BY DEF Inv, TypeOK
<1>2. \A q \in Writer : pc'[q] = (IF q = w THEN to ELSE pc[q])
                        /\ walks'[q] = IF q = w THEN left ELSE walks[q]
  BY DEF Inv, TypeOK
<1>3. NotBegun'
  BY <1>2 DEF Inv, NotBegun, UnderWay
<1>4. EntriesSound'
  BY <1>2 DEF Inv, EntriesSound, Affects, Void, UnderWay
<1>5. ReadsMeet'
  BY <1>2 DEF Inv, ReadsMeet, Meets, Affects, UnderWay
<1> QED
  BY <1>1, <1>3, <1>4, <1>5 DEF Inv

LEMMA BeginKeepsInv ==
    ASSUME Inv, NEW w \in Writer, Begin(w)
    PROVE  Inv'
<1>1. pc[w] = "idle" /\ w \notin committed /\ swept[w] = {} /\ walks[w] = {}
      /\ UNCHANGED <<committed, op, walks, swept, cache>>
  BY DEF Inv, NotBegun, Begin, dbVars
<1>2. \A q \in Writer : pc'[q] = IF q = w THEN (IF Early(w) THEN "clear" ELSE "save") ELSE pc[q]
  BY DEF Inv, TypeOK, Begin
<1>3. \A r \in Reader :
         get'[r] = IF get[r].at \in {"missed", "store"}
                   THEN [get[r] EXCEPT !.met = @ \cup {w}] ELSE get[r]
  BY DEF Begin
<1>4. TypeOK'
  <2>1. get' \in [Reader -> [at : {"idle", "hit", "missed", "store"},
                             page : Page \cup {NoGet.page},
                             saw : SUBSET Writer, met : SUBSET Writer]]
    BY DEF Inv, TypeOK, Begin
  <2> QED
    BY <1>1, <2>1 DEF Inv, TypeOK, Begin
<1>5. NotBegun' /\ EntriesSound'
  BY <1>1, <1>2 DEF Inv, NotBegun, EntriesSound, Affects, Void
<1>6. ReadsMeet'
  <2> SUFFICES ASSUME NEW r \in Reader PROVE Meets(get[r])'
    BY DEF ReadsMeet
  <2>1. Meets(get[r]) /\ get[r] \in [at : {"idle", "hit", "missed", "store"},
                                    page : Page \cup {NoGet.page},
                                    saw : SUBSET Writer, met : SUBSET Writer]
    BY DEF Inv, ReadsMeet, TypeOK
  <2>2. /\ get'[r].at = get[r].at /\ get'[r].page = get[r].page /\ get'[r].saw = get[r].saw
        /\ get[r].at \in {"missed", "store"} => get'[r].met = get[r].met \cup {w}
    BY <1>3, <2>1
  <2>3. \A q \in Writer : q # w => pc'[q] = pc[q]
    BY <1>2
  <2> QED
    BY <1>1, <2>1, <2>2, <2>3 DEF Meets, Affects
<1> QED
  BY <1>4, <1>5, <1>6 DEF Inv

\* A write that is still to commit has met every GET under way, and has cleared no page
\* whose entry it did not meet.
LEMMA SaveKeepsInv ==
    ASSUME Inv, NEW w \in Writer, Save(w)
    PROVE  Inv'
<1>1. pc[w] = "save" /\ committed' = committed \cup {w}
      /\ UNCHANGED <<op, walks, swept, cache, get>>
  BY DEF Save
<1>2. \A q \in Writer :
         pc'[q] = IF q = w THEN (IF Early(w) THEN "answered" ELSE "clear") ELSE pc[q]
  BY DEF Inv, TypeOK, Save
<1>3. TypeOK'
  BY <1>1 DEF Inv, TypeOK, Save
<1>4. NotBegun' /\ EntriesSound'
  BY <1>1, <1>2 DEF Inv, NotBegun, EntriesSound, Affects, Void
<1>5. ReadsMeet'
  BY <1>1, <1>2 DEF Inv, ReadsMeet, Meets, Affects
<1> QED
  BY <1>3, <1>4, <1>5 DEF Inv

LEMMA WalkEndsKeepsInv ==
    ASSUME Inv, NEW w \in Writer, NEW p \in Page, WalkEnds(w, p)
    PROVE  Inv'
<1>1. pc[w] # "idle" /\ UNCHANGED <<committed, op, get>>
  BY DEF Inv, NotBegun, WalkEnds, dbVars
<1>2. Resume(w) \in {"clear", pc[w]} /\ (Resume(w) # pc[w] => pc[w] = "walk")
  BY DEF Resume
<1>3. \A q \in Writer : pc'[q] = IF q = w THEN Resume(w) ELSE pc[q]
  BY DEF Inv, TypeOK, WalkEnds
<1>4. \A q \in Writer :
         swept'[q] = (IF q = w THEN swept[w] \cup {p} ELSE swept[q])
         /\ walks'[q] = IF q = w THEN walks[w] \ {p} ELSE walks[q]
  BY DEF Inv, TypeOK, WalkEnds
<1>5. \A q \in Page : cache'[q] = IF q = p THEN NoEntry ELSE cache[q]
  BY DEF Inv, TypeOK, WalkEnds
<1>6. TypeOK'
  BY <1>1, <1>2 DEF Inv, TypeOK, WalkEnds
<1>7. NotBegun'
  BY <1>1, <1>2, <1>3, <1>4 DEF Inv, NotBegun
<1>8. EntriesSound'
  <2> SUFFICES ASSUME NEW v \in Writer, NEW q \in Page, cache'[q] # NoEntry, Affects(v, q),
                      v \notin cache'[q].saw \cup cache'[q].met, q \in swept'[v]
               PROVE  Void(v)'
    BY <1>1 DEF EntriesSound, Affects, Void
  <2>1. q # p /\ cache'[q] = cache[q] /\ q \in swept[v]
    BY <1>4, <1>5
  <2>2. Void(v)
    BY <2>1 DEF Inv, EntriesSound
  <2> QED
    BY <2>2, <1>1, <1>2, <1>3 DEF Void
<1>9. ReadsMeet'
  BY <1>1, <1>2, <1>3 DEF Inv, ReadsMeet, Meets, Affects
<1> QED
  BY <1>6, <1>7, <1>8, <1>9 DEF Inv

\* The steps of a writer that change neither the database nor an entry.
LEMMA WriterKeepsInv ==
    ASSUME Inv, NEW w \in Writer,
           \/ SaveFails(w) \/ StartRound(w) \/ EndRounds(w) \/ SkipRounds(w) \/ Dies(w)
           \/ \E p \in Page : MetricWalkFails(w, p) \/ WalkFails(w, p)
    PROVE  Inv'
<1> USE DEF dbVars, UnderWay
<1>1. walks = [walks EXCEPT ![w] = walks[w]] /\ walks[w] \in SUBSET Page
  BY DEF Inv, TypeOK
<1>2. CASE SaveFails(w)
  BY <1>1, <1>2, WriterMoves DEF SaveFails
<1>3. CASE StartRound(w)
  <2>1. PICK new \in SUBSET Page :
           walks' = [walks EXCEPT ![w] = walks[w] \cup new]
           /\ pc' = [pc EXCEPT ![w] = IF new = {} THEN "clear" ELSE "walk"]
    BY <1>3 DEF StartRound
  <2>2. w \in UnderWay /\ UNCHANGED <<committed, op, swept, cache, get>>
    BY <1>3 DEF StartRound
  <2>3. walks[w] \cup new \in SUBSET Page
    BY <1>1
  <2> QED
    BY <2>1, <2>2, <2>3, WriterMoves
<1>4. CASE EndRounds(w)
  BY <1>1, <1>4, WriterMoves DEF EndRounds, Cleared
<1>5. CASE SkipRounds(w)
  BY <1>1, <1>5, WriterMoves DEF SkipRounds, Cleared
<1>6. CASE Dies(w)
  <2> DEFINE to == IF w \in UnderWay THEN "failed" ELSE pc[w]
  <2>1. pc' = [pc EXCEPT ![w] = to] /\ walks' = [walks EXCEPT ![w] = {}]
        /\ UNCHANGED <<committed, op, swept, cache, get>>
    BY <1>6 DEF Dies
  <2> QED
    BY <2>1, WriterMoves
<1>7. ASSUME NEW p \in Page, MetricWalkFails(w, p)
      PROVE  Inv'
  <2>1. pc' = [pc EXCEPT ![w] = Resume(w)] /\ walks' = [walks EXCEPT ![w] = walks[w] \ {p}]
        /\ UNCHANGED <<committed, op, swept, cache, get>>
    BY <1>7 DEF MetricWalkFails
  <2>2. Resume(w) = pc[w] \/ (w \in UnderWay /\ Resume(w) = "clear")
    BY DEF Resume
  <2>3. walks[w] \ {p} \in SUBSET Page
    BY <1>1
  <2> QED
    BY <2>1, <2>2, <2>3, WriterMoves
<1>8. ASSUME NEW p \in Page, WalkFails(w, p)
      PROVE  Inv'
  <2> DEFINE to == IF pc[w] = "walk" THEN "failed" ELSE pc[w]
  <2>1. pc' = [pc EXCEPT ![w] = to] /\ walks' = [walks EXCEPT ![w] = walks[w] \ {p}]
        /\ UNCHANGED <<committed, op, swept, cache, get>>
    BY <1>8 DEF WalkFails
  <2>2. walks[w] \ {p} \in SUBSET Page
    BY <1>1
  <2> QED
    BY <2>1, <2>2, WriterMoves
<1> QED
  BY <1>2, <1>3, <1>4, <1>5, <1>6, <1>7, <1>8

-----------------------------------------------------------------------------
LEMMA InvNext == Inv /\ [Next]_vars => Inv'
<1> SUFFICES ASSUME Inv, [Next]_vars PROVE Inv'
  OBVIOUS
<1>1. ASSUME NEW r \in Reader,
             (\E p \in Page : Hit(r, p) \/ Miss(r, p)) \/ Query(r) \/ Store(r) \/ EndGet(r)
      PROVE  Inv'
  BY <1>1, HitKeepsInv, MissKeepsInv, QueryKeepsInv, StoreKeepsInv, EndGetKeepsInv
<1>2. ASSUME NEW p \in Page, Expire(p) PROVE Inv'
  BY <1>2, ExpireKeepsInv
<1>3. ASSUME NEW w \in Writer, Begin(w) \/ Save(w) \/ \E p \in Page : WalkEnds(w, p)
      PROVE  Inv'
  BY <1>3, BeginKeepsInv, SaveKeepsInv, WalkEndsKeepsInv
<1>4. CASE UNCHANGED vars
  BY <1>4 DEF vars, Inv, TypeOK, NotBegun, ReadsMeet, Meets, Affects, EntriesSound, Void
<1> QED
  BY <1>1, <1>2, <1>3, <1>4, WriterKeepsInv DEF Next

\* Once a write is answered, the page it cleared is older than the write only if the
\* GET that stored it overlapped the write: a GET that had stored before the write
\* began left an entry the walk deletes, one that began after the write saw it.
THEOREM CurrentOnceCleared == Spec => []CurrentUnlessOverlapped
<1>1. Inv => CurrentUnlessOverlapped
  BY DEF Inv, EntriesSound, Void, CurrentUnlessOverlapped, Old, Shows, Affects
<1> QED
  BY <1>1, InvInit, InvNext, PTL DEF Spec
=============================================================================
