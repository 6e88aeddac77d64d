--------------------------- MODULE ResponseCache ---------------------------
(***************************************************************************)
(* The cached pages of the metric, log, settings, category and analytics   *)
(* features: one user of one organization, whose GETs are answered from    *)
(* Redis when they can be, and whose writes clear the pages they change.   *)
(*                                                                         *)
(* A page kind stands for one of its keys (keys of a kind do not meet). A  *)
(* page is abstracted to the set of writes its database query saw, so it   *)
(* is old when a committed write to a table it reads is not in that set.   *)
(* Each Writer makes one write; a Reader reads again and again.            *)
(*                                                                         *)
(* An entry carries one piece of history the code does not keep: the       *)
(* writes that were under way at some moment of the read that stored it.   *)
(***************************************************************************)
EXTENDS Naturals, Sequences

CONSTANTS
    Reader,     \* GET requests under way at one time
    Writer,     \* write requests
    Page,       \* the page kinds watched, of those in PageReads
    Op,         \* the writes made, of those in Write
    NoEntry     \* no such key in Redis

-----------------------------------------------------------------------------
(* What a page shows: the tables its query reads.                           *)

MetricListReads == {"Metric", "Category", "Log"}
MetricDetailReads == {"Metric", "Category", "Settings", "Log"}
LogListReads == {"Log", "Metric"}
LogStatsReads == {"Log", "Metric"}
LogReads == {"Log", "Metric"}
SettingsListReads == {"Settings", "Metric"}
SettingReads == {"Settings", "Metric"}
CategoryListReads == {"Category", "Metric"}
CategoryReads == {"Category", "Metric"}
VizReads == {"Log", "Metric"}

\* The dashboard's key holds the version of every metric, settings and
\* category row it shows, read before the key is built: only the logs can be
\* older than the key.
VizDashReads == {"Log"}

PageReads ==
    [metrics |-> MetricListReads, metric |-> MetricDetailReads,
     logs |-> LogListReads, stats |-> LogStatsReads, log |-> LogReads,
     settings |-> SettingsListReads, setting |-> SettingReads,
     categories |-> CategoryListReads, category |-> CategoryReads,
     viz |-> VizReads, vizdash |-> VizDashReads]

(* What a write clears. Each invalidator is a sequence of rounds; the walks *)
(* of one round start together, and a round starts when the one before it   *)
(* is done.                                                                 *)

MetricWalks == {"metrics", "metric"}
VizWalks == {"viz", "vizdash"}
LogWalks == {"logs", "stats"} \cup VizWalks \cup MetricWalks
SettingsRounds == <<{"settings"}, {"setting"}>>
CategoryRounds == <<{"categories"}, {"category"}>>

(* The writes: the tables they change, the rounds of their invalidation,    *)
(* and whether they clear before the change is committed.                   *)

CreateMetric ==
    [tables |-> {"Metric", "Settings"}, rounds |-> <<MetricWalks>>, early |-> TRUE]
DeleteMetric ==
    [tables |-> {"Metric"}, rounds |-> <<MetricWalks>>, early |-> TRUE]
UpdateMetric ==
    [tables |-> {"Metric"}, rounds |-> <<MetricWalks>>, early |-> FALSE]
GenerateDummyMetrics ==
    [tables |-> {"Metric"}, rounds |-> <<{"metrics"}>>, early |-> FALSE]
CreateMetricLog ==
    [tables |-> {"Log"}, rounds |-> <<LogWalks \cup {"log"}>>, early |-> FALSE]
UpdateMetricLog ==
    [tables |-> {"Log"}, rounds |-> <<LogWalks \cup {"log"}>>, early |-> FALSE]
DeleteMetricLog ==
    [tables |-> {"Log"}, rounds |-> <<LogWalks \cup {"log"}>>, early |-> FALSE]
GenerateDummyMetricLogs ==
    [tables |-> {"Log"}, rounds |-> <<LogWalks>>, early |-> FALSE]
CreateMetricSettings ==
    [tables |-> {"Settings"}, rounds |-> SettingsRounds, early |-> FALSE]
UpdateMetricSettings ==
    [tables |-> {"Settings"}, rounds |-> SettingsRounds, early |-> FALSE]
UpdateDisplayOptions ==
    [tables |-> {"Settings"}, rounds |-> SettingsRounds, early |-> FALSE]
UpdateGoalAchievement ==
    [tables |-> {"Settings"}, rounds |-> SettingsRounds, early |-> FALSE]
DeleteMetricSettings ==
    [tables |-> {"Settings"}, rounds |-> SettingsRounds, early |-> FALSE]
CreateCategory ==
    [tables |-> {"Category"}, rounds |-> <<{"categories"}>>, early |-> FALSE]
GenerateDummyCategories ==
    [tables |-> {"Category"}, rounds |-> <<{"categories"}>>, early |-> FALSE]
UpdateCategory ==
    [tables |-> {"Category"}, rounds |-> CategoryRounds, early |-> FALSE]
DeleteCategory ==
    [tables |-> {"Category"}, rounds |-> CategoryRounds, early |-> FALSE]

Write ==
    [createMetric |-> CreateMetric, deleteMetric |-> DeleteMetric,
     updateMetric |-> UpdateMetric, dummyMetrics |-> GenerateDummyMetrics,
     createLog |-> CreateMetricLog, updateLog |-> UpdateMetricLog,
     deleteLog |-> DeleteMetricLog, dummyLogs |-> GenerateDummyMetricLogs,
     createSettings |-> CreateMetricSettings, updateSettings |-> UpdateMetricSettings,
     displayOptions |-> UpdateDisplayOptions, achieve |-> UpdateGoalAchievement,
     deleteSettings |-> DeleteMetricSettings,
     createCategory |-> CreateCategory, dummyCategories |-> GenerateDummyCategories,
     updateCategory |-> UpdateCategory, deleteCategory |-> DeleteCategory]

ASSUME PagesAreKinds == Page \subseteq DOMAIN PageReads
ASSUME OpsAreWrites == Op \subseteq DOMAIN Write

-----------------------------------------------------------------------------
VARIABLES
    committed,  \* the writers whose change is in the database
    op,         \* the write a writer makes
    pc,         \* where its handler is
    round,      \* the round of invalidation it starts next
    walks,      \* the pages its running walks have yet to delete
    awaited,    \* those of them the handler waits for
    swept,      \* history: the pages its walks have deleted
    cache,      \* Redis: page -> entry
    get         \* the GET a reader is making

dbVars == <<committed>>
writeVars == <<op, pc, round, walks, awaited, swept>>
vars == <<committed, op, pc, round, walks, awaited, swept, cache, get>>

UnderWay == {w \in Writer : pc[w] \in {"save", "clear", "walk"}}

\* What a query of page p sees: the committed writes to the tables it reads.
Shows(p) == {w \in committed : Write[op[w]].tables \cap PageReads[p] # {}}

NoGet == [at |-> "idle", page |-> CHOOSE p \in Page : TRUE, saw |-> {}, met |-> {}]

Init ==
    /\ committed = {}
    /\ op \in [Writer -> Op]
    /\ pc = [w \in Writer |-> "idle"]
    /\ round = [w \in Writer |-> 1]
    /\ walks = [w \in Writer |-> {}]
    /\ awaited = [w \in Writer |-> {}]
    /\ swept = [w \in Writer |-> {}]
    /\ cache = [p \in Page |-> NoEntry]
    /\ get = [r \in Reader |-> NoGet]

-----------------------------------------------------------------------------
(* A GET.                                                                   *)

\* Mutant: res.json is wrapped before the hit is answered, so a hit is stored again.
HitStoringAgain(r, p) ==
    /\ get[r].at = "idle"
    /\ cache[p] # NoEntry
    /\ get' = [get EXCEPT ![r] = [at |-> "store", page |-> p, saw |-> cache[p].saw, met |-> {}]]
    /\ UNCHANGED <<dbVars, writeVars, cache>>

\* A hit is answered from the entry and stores nothing.
Hit(r, p) ==
    /\ get[r].at = "idle"
    /\ cache[p] # NoEntry
    /\ get' = [get EXCEPT ![r] = [at |-> "hit", page |-> p, saw |-> {}, met |-> {}]]
    /\ UNCHANGED <<dbVars, writeVars, cache>>

\* A miss goes to the handler.
Miss(r, p) ==
    /\ get[r].at = "idle"
    /\ cache[p] = NoEntry
    /\ get' = [get EXCEPT ![r] = [at |-> "missed", page |-> p, saw |-> {}, met |-> UnderWay]]
    /\ UNCHANGED <<dbVars, writeVars, cache>>

\* The handler queries the database. A 200 body is to be stored: by cacheMiddleware
\* after the response, by the category and visualization repositories before it.
Query(r) ==
    /\ get[r].at = "missed"
    /\ get' = [get EXCEPT ![r].at = "store", ![r].saw = Shows(get[r].page)]
    /\ UNCHANGED <<dbVars, writeVars, cache>>

\* SETEX.
Store(r) ==
    /\ get[r].at = "store"
    /\ cache' = [cache EXCEPT ![get[r].page] = [saw |-> get[r].saw, met |-> get[r].met \ get[r].saw]]
    /\ get' = [get EXCEPT ![r] = NoGet]
    /\ UNCHANGED <<dbVars, writeVars>>

\* The GET ends and stores nothing: it was a hit, the handler answered an
\* error, Redis refused the SETEX, or the process died.
EndGet(r) ==
    /\ get[r].at # "idle"
    /\ get' = [get EXCEPT ![r] = NoGet]
    /\ UNCHANGED <<dbVars, writeVars, cache>>

\* Redis: the entry's TTL runs out.
Expire(p) ==
    /\ cache[p] # NoEntry
    /\ cache' = [cache EXCEPT ![p] = NoEntry]
    /\ UNCHANGED <<dbVars, writeVars, get>>

-----------------------------------------------------------------------------
(* A write.                                                                 *)

Rounds(w) == Write[op[w]].rounds
Early(w) == Write[op[w]].early

\* Where the handler goes once nothing is left to clear.
Cleared(w) == IF Early(w) THEN "save" ELSE "answered"

\* The request has passed its checks: a refused one changes nothing.
Begin(w) ==
    /\ pc[w] = "idle"
    /\ pc' = [pc EXCEPT ![w] = IF Early(w) THEN "clear" ELSE "save"]
    /\ get' = [r \in Reader |-> IF get[r].at \in {"missed", "store"}
                                THEN [get[r] EXCEPT !.met = @ \cup {w}] ELSE get[r]]
    /\ UNCHANGED <<dbVars, op, round, walks, awaited, swept, cache>>

\* The change is committed.
Save(w) ==
    /\ pc[w] = "save"
    /\ committed' = committed \cup {w}
    /\ pc' = [pc EXCEPT ![w] = IF Early(w) THEN "answered" ELSE "clear"]
    /\ UNCHANGED <<op, round, walks, awaited, swept, cache, get>>

SaveFails(w) ==
    /\ pc[w] = "save"
    /\ pc' = [pc EXCEPT ![w] = "failed"]
    /\ UNCHANGED <<dbVars, op, round, walks, awaited, swept, cache, get>>

\* The walks of the next round start.
StartRound(w) ==
    /\ pc[w] = "clear"
    /\ round[w] <= Len(Rounds(w))
    /\ LET new == Rounds(w)[round[w]] \cap Page IN
        /\ walks' = [walks EXCEPT ![w] = @ \cup new]
        /\ awaited' = [awaited EXCEPT ![w] = new]
        /\ pc' = [pc EXCEPT ![w] = IF new = {} THEN "clear" ELSE "walk"]
    /\ round' = [round EXCEPT ![w] = @ + 1]
    /\ UNCHANGED <<dbVars, op, swept, cache, get>>

\* The last round is done.
EndRounds(w) ==
    /\ pc[w] = "clear"
    /\ round[w] > Len(Rounds(w))
    /\ pc' = [pc EXCEPT ![w] = Cleared(w)]
    /\ UNCHANGED <<dbVars, op, round, walks, awaited, swept, cache, get>>

\* This process has given up on Redis (redisClient.isOpen is false): what is
\* left to clear is skipped.
SkipRounds(w) ==
    /\ pc[w] = "clear"
    /\ round[w] <= Len(Rounds(w))
    /\ pc' = [pc EXCEPT ![w] = Cleared(w)]
    /\ UNCHANGED <<dbVars, op, round, walks, awaited, swept, cache, get>>

\* The handler goes on when the last walk it waits for is over.
Resume(w) == IF pc[w] = "walk" /\ awaited'[w] = {} THEN "clear" ELSE pc[w]

\* Mutant: the walk stops after its first SCAN, whatever the cursor says.
WalkFirstPage(w, p) ==
    /\ p \in walks[w]
    /\ cache' \in {cache, [cache EXCEPT ![p] = NoEntry]}
    /\ swept' = [swept EXCEPT ![w] = @ \cup {p}]
    /\ walks' = [walks EXCEPT ![w] = @ \ {p}]
    /\ awaited' = [awaited EXCEPT ![w] = @ \ {p}]
    /\ pc' = [pc EXCEPT ![w] = Resume(w)]
    /\ UNCHANGED <<dbVars, op, round, get>>

\* A walk over page p, SCAN and DEL, ends. It has deleted an entry that was
\* there all along and may have passed one stored meanwhile: a deletion at
\* some moment of the walk.
WalkEnds(w, p) ==
    /\ p \in walks[w]
    /\ cache' = [cache EXCEPT ![p] = NoEntry]
    /\ swept' = [swept EXCEPT ![w] = @ \cup {p}]
    /\ walks' = [walks EXCEPT ![w] = @ \ {p}]
    /\ awaited' = [awaited EXCEPT ![w] = @ \ {p}]
    /\ pc' = [pc EXCEPT ![w] = Resume(w)]
    /\ UNCHANGED <<dbVars, op, round, get>>

\* A walk over a metric page fails: MetricCacheRedis logs it and resolves,
\* waiting no longer for its other walk, which goes on.
MetricWalkFails(w, p) ==
    /\ p \in walks[w] \cap MetricWalks
    /\ walks' = [walks EXCEPT ![w] = @ \ {p}]
    /\ awaited' = [awaited EXCEPT ![w] = @ \ MetricWalks]
    /\ pc' = [pc EXCEPT ![w] = Resume(w)]
    /\ UNCHANGED <<dbVars, op, round, swept, cache, get>>

\* Any other walk fails: the invalidator rethrows and the request fails, with
\* its change committed and the other walks of the round going on.
WalkFails(w, p) ==
    /\ p \in walks[w] \ MetricWalks
    /\ walks' = [walks EXCEPT ![w] = @ \ {p}]
    /\ awaited' = [awaited EXCEPT ![w] = {}]
    /\ pc' = [pc EXCEPT ![w] = IF pc[w] = "walk" THEN "failed" ELSE pc[w]]
    /\ UNCHANGED <<dbVars, op, round, swept, cache, get>>

\* The process dies, and with it the handler and its walks.
Dies(w) ==
    /\ w \in UnderWay \/ walks[w] # {}
    /\ pc' = [pc EXCEPT ![w] = IF w \in UnderWay THEN "failed" ELSE pc[w]]
    /\ walks' = [walks EXCEPT ![w] = {}]
    /\ awaited' = [awaited EXCEPT ![w] = {}]
    /\ UNCHANGED <<dbVars, op, round, swept, cache, get>>

-----------------------------------------------------------------------------
Next ==
    \/ \E r \in Reader :
        \/ \E p \in Page : Hit(r, p) \/ Miss(r, p)
        \/ Query(r) \/ Store(r) \/ EndGet(r)
    \/ \E p \in Page : Expire(p)
    \/ \E w \in Writer :
        \/ Begin(w) \/ Save(w) \/ SaveFails(w)
        \/ StartRound(w) \/ EndRounds(w) \/ SkipRounds(w)
        \/ \E p \in Page : WalkEnds(w, p) \/ MetricWalkFails(w, p) \/ WalkFails(w, p)
        \/ Dies(w)

Spec == Init /\ [][Next]_vars

\* Redis keeps its TTLs. Nothing else is promised: a reader may never come
\* back, and a write may stop anywhere.
FairSpec == Spec /\ \A p \in Page : WF_vars(Expire(p))

-----------------------------------------------------------------------------
(* Properties.                                                              *)

Old(p, w) == cache[p] # NoEntry /\ w \in Shows(p) \ cache[p].saw

\* A page that a write has cleared is older than the write only if the GET
\* that stored it was under way, up to its SETEX, at the same time as the
\* write: once a write is answered, a GET made after it, or one that had
\* stored before it began, never leaves the page from before it in Redis.
\* CreateMetric and DeleteMetric clear before they commit, and a GET between
\* the two puts the old page back.
CurrentUnlessOverlapped ==
    \A w \in Writer, p \in Page :
        pc[w] = "answered" /\ p \in swept[w] /\ Old(p, w) => w \in cache[p].met

\* However a write ends (answered, failed after its commit, its process dead,
\* Redis lost), and whether it clears a page or leaves it out, the pages that
\* show what it changed are current at last, for good.
CurrentAtLast == \A p \in Page : <>[](\A w \in Writer : ~Old(p, w))
=============================================================================
