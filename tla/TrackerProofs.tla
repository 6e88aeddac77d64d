--------------------------- MODULE TrackerProofs ---------------------------
(***************************************************************************)
(* Proofs about Tracker, for any rows, names, timestamps and bodies, any   *)
(* number of requests at once and any number of them in all: the unique    *)
(* indexes hold whatever the checks before them saw, a metric has its      *)
(* settings, the parts of the settings agree after any sequence and        *)
(* overlap of partial updates, and a save takes back only what another     *)
(* saved while its request held the row.                                   *)
(***************************************************************************)
EXTENDS Tracker, TLAPS

-----------------------------------------------------------------------------
(* The inductive invariants.  Each table's is its own; that of the settings *)
(* says too what a request that has read them will write.                  *)

CatsOK ==
    /\ cats = [c \in Category |-> [st |-> cats[c].st, name |-> cats[c].name]]
    /\ \A c, d \in Live(cats) : SameName(cats[c].name, cats[d].name) => c = d

MetricsOK ==
    /\ metrics = [m \in Metric |-> [st |-> metrics[m].st, name |-> metrics[m].name]]
    /\ \A m, n \in Live(metrics) : metrics[m].name = metrics[n].name => m = n

LogsOK ==
    /\ logs = [l \in Log |-> [st |-> logs[l].st, metric |-> logs[l].metric,
                              at |-> logs[l].at, value |-> logs[l].value]]
    /\ \A k, l \in Live(logs) :
         logs[k].metric = logs[l].metric /\ logs[k].at = logs[l].at => k = l

\* Settings are of a metric that was made, and of one no other settings are of.
SettingsPlaced ==
    /\ settings \in [Setting -> SettingRow]
    /\ \A s \in Setting : settings[s].st # "live" => ~settings[s].achieved
    /\ \A s \in Live(settings) : settings[s].metric \in Known
    /\ \A s, u \in Live(settings) : settings[s].metric = settings[u].metric => s = u

FrameOn(row) == row.frameOn => row.start # None /\ row.deadline # None
GoalOn(row) == /\ row.goalOn => row.type /\ row.value
               /\ row.alertOn => row.threshold

\* What a request edits in a row: its part, and a goal only to achieved.
Edits(op, row, e) ==
    /\ \A c \in DOMAIN NoSetting \ Part(op) : e[c] = row[c]
    /\ op = "achieve" => e.achieved

\* What request r holds of the settings it is about to save.
Held(r) ==
    LET s == req[r].row row == req[r].seen IN
    /\ Head(req[r].todo) = "update"
    /\ row \in SettingRow /\ row.st = "live" /\ FrameOn(row)
    /\ settings[s].st # "none"
    /\ settings[s].st = "live" =>
         /\ row.metric = settings[s].metric
         /\ r \notin overtaken => Edits(req[r].op, settings[s], row)
    /\ GoalOn(row) \/ s \in nulled \/ Nulls(r)

\* Requests about settings: their arguments, and where they hold a row.
Asked(r) ==
    /\ req[r].op = "createSettings" =>
         req[r].row \in Known /\ req[r].arg \in Body /\ BodyAccepted(req[r].arg)
    /\ req[r].op \in Saves => req[r].row \in Setting
    /\ req[r].op = "updateSettings" => req[r].arg \in Patch /\ PatchAccepted(req[r].arg)
    /\ req[r].op = "display" => req[r].arg \in BOOLEAN
    /\ req[r].op \in Saves => Head(req[r].todo) = "find" \/ Held(r)

ReqOK == req = [r \in Request |->
    [op |-> req[r].op, todo |-> req[r].todo, row |-> req[r].row,
     arg |-> req[r].arg, seen |-> req[r].seen]]

SettingsOK ==
    /\ SettingsPlaced /\ FrameWhole /\ GoalWhole /\ MetricHasSettings
    /\ ReqOK /\ \A r \in Request : Asked(r)

Inv == CatsOK /\ MetricsOK /\ LogsOK /\ SettingsOK

-----------------------------------------------------------------------------
(* The unique indexes.  Whatever a request checked before, the statement    *)
(* that writes a key is refused when a live row has it.                    *)

\* What writes each table.
LEMMA Writers ==
    ASSUME [Next]_vars
    PROVE  /\ \/ UNCHANGED cats
              \/ \E r \in Request :
                    InsertCategory(r) \/ SaveCategory(r) \/ DestroyCategory(r)
           /\ \/ UNCHANGED metrics
              \/ \E r \in Request :
                    CommitMetric(r) \/ CommitBatch(r) \/ SaveMetric(r) \/ DestroyMetric(r)
           /\ \/ UNCHANGED logs
              \/ \E r \in Request : InsertLog(r) \/ SaveLog(r) \/ DestroyLog(r)
           /\ \/ UNCHANGED <<settings, nulled, bare>>
              \/ \E r \in Request : \/ CommitMetric(r) \/ CommitBatch(r) \/ InsertSettings(r)
                                    \/ SaveSettings(r) \/ DestroySettings(r)
<1>1. ASSUME NEW r \in Request, Arrive(r)
      PROVE  UNCHANGED <<tables, history>>
  BY <1>1 DEF Arrive, CreateCategory, UpdateCategory, DeleteCategory, DummyCategories,
       CreateMetric, UpdateMetric, DeleteMetric, DummyMetrics, CreateLog, UpdateLog,
       DeleteLog, DummyLogs, CreateSettings, UpdateSettings, AchieveGoal, UpdateDisplay,
       DeleteSettings, Begin
<1>2. ASSUME NEW r \in Request,
             \/ FindCategory(r) \/ CategoryName(r) \/ RefindCategory(r) \/ FindMetric(r)
             \/ MetricName(r) \/ CategoryExists(r) \/ OriginalExists(r) \/ RefindMetric(r)
             \/ Access(r) \/ FindLog(r) \/ LogTimestamp(r) \/ FindForMetric(r)
             \/ FindSettings(r) \/ Fails(r)
      PROVE  UNCHANGED <<tables, nulled, bare>>
  BY <1>2 DEF FindCategory, CategoryName, RefindCategory, FindMetric, MetricName,
       CategoryExists, OriginalExists, RefindMetric, Access, FindLog, LogTimestamp,
       FindForMetric, FindSettings, Fails, history
<1>3. ASSUME NEW r \in Request
      PROVE  /\ InsertCategory(r) \/ SaveCategory(r) \/ DestroyCategory(r) =>
                   UNCHANGED <<metrics, logs, settings, history>>
             /\ InsertLog(r) \/ SaveLog(r) \/ DestroyLog(r) =>
                   UNCHANGED <<cats, metrics, settings, history>>
             /\ CommitMetric(r) => UNCHANGED <<cats, logs, history>>
             /\ CommitBatch(r) => UNCHANGED <<cats, logs, settings, overtaken, nulled>>
             /\ SaveMetric(r) \/ DestroyMetric(r) =>
                   UNCHANGED <<cats, logs, settings, history>>
             /\ InsertSettings(r) \/ SaveSettings(r) \/ DestroySettings(r) =>
                   UNCHANGED <<cats, metrics, logs>>
  BY DEF InsertCategory, SaveCategory, DestroyCategory, InsertLog, SaveLog, DestroyLog,
       CommitMetric, CommitBatch, SaveMetric, DestroyMetric, InsertSettings, SaveSettings,
       DestroySettings
<1>4. CASE UNCHANGED vars
  BY <1>4 DEF vars, history
<1> QED
  BY <1>1, <1>2, <1>3, <1>4 DEF Next, Statement, tables, history

LEMMA CatWritten ==
    ASSUME CatsOK, NEW c \in Category, NEW row,
           row = [st |-> row.st, name |-> row.name],
           cats' = [cats EXCEPT ![c] = row],
           \/ row.st # "live"
           \/ \A d \in Live(cats) \ {c} : ~SameName(cats[d].name, row.name)
    PROVE  CatsOK'
<1>1. DOMAIN cats = Category /\ DOMAIN cats' = Category
  BY DEF CatsOK
<1>2. /\ cats'[c] = row
      /\ \A d \in Category \ {c} : cats'[d] = cats[d]
  BY <1>1
<1>3. cats' = [d \in Category |-> [st |-> cats'[d].st, name |-> cats'[d].name]]
  BY DEF CatsOK
<1>4. \A a, b : SameName(a, b) <=> SameName(b, a)
  BY DEF SameName
<1>5. \A d, e \in Live(cats)' : SameName(cats'[d].name, cats'[e].name) => d = e
  BY <1>1, <1>2, <1>4 DEF CatsOK, Live
<1> QED
  BY <1>3, <1>5 DEF CatsOK

LEMMA CatsNext == CatsOK /\ [Next]_vars => CatsOK'
<1> SUFFICES ASSUME CatsOK, [Next]_vars
             PROVE  CatsOK'
  OBVIOUS
<1>1. ASSUME UNCHANGED cats PROVE CatsOK'
  BY <1>1 DEF CatsOK, Live
<1>2. DOMAIN cats = Category
  BY DEF CatsOK
<1>3. ASSUME NEW r \in Request, InsertCategory(r)
      PROVE  CatsOK'
  <2>1. CASE UNCHANGED cats
    BY <1>1, <2>1
  <2>2. CASE ~UNCHANGED cats
    <3>1. ~CategoryNameTaken(req[r].arg, None)
      BY <1>3, <2>2 DEF InsertCategory
    <3>2. PICK c \in Unused(cats) :
             cats' = [cats EXCEPT ![c] = [st |-> "live", name |-> req[r].arg]]
      BY <1>3, <2>2 DEF InsertCategory
    <3> DEFINE row == [st |-> "live", name |-> req[r].arg]
    <3>3. row = [st |-> row.st, name |-> row.name]
      OBVIOUS
    <3>4. \A d \in Live(cats) \ {c} : ~SameName(cats[d].name, row.name)
      BY <1>2, <3>1, TrackerAssumption DEF CategoryNameTaken, Live
    <3> HIDE DEF row
    <3>5. cats' = [cats EXCEPT ![c] = row] /\ c \in Category
      BY <1>2, <3>2 DEF row, Unused
    <3> QED
      BY <3>3, <3>4, <3>5, CatWritten
  <2> QED
    BY <2>1, <2>2
<1>4. ASSUME NEW r \in Request, SaveCategory(r)
      PROVE  CatsOK'
  <2> DEFINE c == req[r].row
             n == req[r].arg
             name == IF n = None THEN cats[c].name ELSE n
  <2>1. CASE UNCHANGED cats
    BY <1>1, <2>1
  <2>2. CASE ~UNCHANGED cats
    <3>1. /\ c \in Live(cats) /\ (n # None => ~CategoryNameTaken(n, c))
          /\ cats' = [cats EXCEPT ![c].name = IF n = None THEN @ ELSE n]
      BY <1>4, <2>2 DEF SaveCategory
    <3> DEFINE row == [cats[c] EXCEPT !.name = name]
    <3>2. c \in Category /\ cats[c] = [st |-> "live", name |-> cats[c].name]
      BY <1>2, <3>1 DEF CatsOK, Live
    <3>3. row = [st |-> row.st, name |-> row.name] /\ row.name = name
      BY <3>2
    <3>4. cats' = [cats EXCEPT ![c] = row]
      BY <1>2, <3>1, <3>2
    <3>5. \A d \in Live(cats) \ {c} : ~SameName(cats[d].name, row.name)
      BY <3>1, <3>3 DEF CategoryNameTaken, CatsOK
    <3> HIDE DEF c, n, name, row
    <3> QED
      BY <3>2, <3>3, <3>4, <3>5, CatWritten
  <2> QED
    BY <2>1, <2>2
<1>5. ASSUME NEW r \in Request, DestroyCategory(r)
      PROVE  CatsOK'
  <2> DEFINE c == req[r].row
             row == [NoCategory EXCEPT !.st = "deleted"]
  <2>1. row.st # "live" /\ row = [st |-> row.st, name |-> row.name]
    BY DEF NoCategory
  <2>2. cats' = [cats EXCEPT ![c] = row]
    BY <1>5 DEF DestroyCategory
  <2> HIDE DEF c, row
  <2>3. CASE c \in Category
    BY <2>1, <2>2, <2>3, CatWritten
  <2>4. CASE c \notin Category
    <3>1. UNCHANGED cats
      BY <1>2, <2>2, <2>4 DEF CatsOK
    <3> QED
      BY <1>1, <3>1
  <2> QED
    BY <2>3, <2>4
<1> QED
  BY <1>1, <1>3, <1>4, <1>5, Writers

LEMMA MetricWritten ==
    ASSUME MetricsOK, NEW m \in Metric, NEW row,
           row = [st |-> row.st, name |-> row.name],
           metrics' = [metrics EXCEPT ![m] = row],
           \/ row.st # "live"
           \/ \A n \in Live(metrics) \ {m} : metrics[n].name # row.name
    PROVE  MetricsOK'
<1>1. DOMAIN metrics = Metric /\ DOMAIN metrics' = Metric
  BY DEF MetricsOK
<1>2. /\ metrics'[m] = row
      /\ \A n \in Metric \ {m} : metrics'[n] = metrics[n]
  BY <1>1
<1>3. metrics' = [n \in Metric |-> [st |-> metrics'[n].st, name |-> metrics'[n].name]]
  BY DEF MetricsOK
<1>4. \A n, o \in Live(metrics)' : metrics'[n].name = metrics'[o].name => n = o
  BY <1>1, <1>2 DEF MetricsOK, Live
<1> QED
  BY <1>3, <1>4 DEF MetricsOK

LEMMA MetricsNext == MetricsOK /\ [Next]_vars => MetricsOK'
<1> SUFFICES ASSUME MetricsOK, [Next]_vars
             PROVE  MetricsOK'
  OBVIOUS
<1>1. ASSUME UNCHANGED metrics PROVE MetricsOK'
  BY <1>1 DEF MetricsOK, Live
<1>2. DOMAIN metrics = Metric
  BY DEF MetricsOK
<1>3. ASSUME NEW r \in Request, CommitMetric(r) \/ CommitBatch(r), ~UNCHANGED metrics
      PROVE  MetricsOK'
  <2>1. PICK n : /\ ~MetricNameTaken(n, None)
                 /\ \E m \in Unused(metrics) :
                       metrics' = [metrics EXCEPT ![m] = [st |-> "live", name |-> n]]
    BY <1>3 DEF CommitMetric, CommitBatch
  <2> DEFINE row == [st |-> "live", name |-> n]
  <2>2. PICK m \in Unused(metrics) : metrics' = [metrics EXCEPT ![m] = row]
    BY <2>1
  <2>3. row = [st |-> row.st, name |-> row.name]
    OBVIOUS
  <2>4. \A o \in Live(metrics) \ {m} : metrics[o].name # row.name
    BY <1>2, <2>1, TrackerAssumption DEF MetricNameTaken, Live
  <2> HIDE DEF row
  <2> QED
    BY <1>2, <2>2, <2>3, <2>4, MetricWritten DEF Unused
<1>4. ASSUME NEW r \in Request, SaveMetric(r), ~UNCHANGED metrics
      PROVE  MetricsOK'
  <2> DEFINE m == req[r].row
             write == req[r].seen.write
             name == Pick(write, metrics[m].name)
             row == [metrics[m] EXCEPT !.name = name]
  <2>1. /\ m \in Live(metrics) /\ \A n \in write : ~MetricNameTaken(n, m)
        /\ metrics' = [metrics EXCEPT ![m].name = Pick(write, @)]
    BY <1>4 DEF SaveMetric
  <2>2. m \in Metric /\ metrics[m] = [st |-> "live", name |-> metrics[m].name]
    BY <1>2, <2>1 DEF MetricsOK, Live
  <2>3. row = [st |-> row.st, name |-> row.name] /\ row.name = name
    BY <2>2
  <2>4. metrics' = [metrics EXCEPT ![m] = row]
    BY <2>1
  <2>5. name = metrics[m].name \/ name \in write
    BY DEF Pick
  <2>6. \A o \in Live(metrics) \ {m} : metrics[o].name # row.name
    BY <2>1, <2>3, <2>5 DEF MetricNameTaken, MetricsOK
  <2> HIDE DEF m, write, name, row
  <2> QED
    BY <2>2, <2>3, <2>4, <2>6, MetricWritten
<1>5. ASSUME NEW r \in Request, DestroyMetric(r)
      PROVE  MetricsOK'
  <2> DEFINE m == req[r].row
             row == [NoMetric EXCEPT !.st = "deleted"]
  <2>1. row.st # "live" /\ row = [st |-> row.st, name |-> row.name]
    BY DEF NoMetric
  <2>2. metrics' = [metrics EXCEPT ![m] = row]
    BY <1>5 DEF DestroyMetric
  <2> HIDE DEF m, row
  <2>3. CASE m \in Metric
    BY <2>1, <2>2, <2>3, MetricWritten
  <2>4. CASE m \notin Metric
    <3>1. UNCHANGED metrics
      BY <1>2, <2>2, <2>4 DEF MetricsOK
    <3> QED
      BY <1>1, <3>1
  <2> QED
    BY <2>3, <2>4
<1> QED
  BY <1>1, <1>3, <1>4, <1>5, Writers

LEMMA LogWritten ==
    ASSUME LogsOK, NEW l \in Log, NEW row,
           row = [st |-> row.st, metric |-> row.metric, at |-> row.at, value |-> row.value],
           logs' = [logs EXCEPT ![l] = row],
           \/ row.st # "live"
           \/ \A k \in Live(logs) \ {l} : logs[k].metric # row.metric \/ logs[k].at # row.at
    PROVE  LogsOK'
<1>1. DOMAIN logs = Log /\ DOMAIN logs' = Log
  BY DEF LogsOK
<1>2. logs'[l] = row /\ \A k \in Log \ {l} : logs'[k] = logs[k]
  BY <1>1
<1>3. logs' = [k \in Log |-> [st |-> logs'[k].st, metric |-> logs'[k].metric,
                              at |-> logs'[k].at, value |-> logs'[k].value]]
  BY DEF LogsOK
<1>4. \A k, o \in Live(logs)' :
         logs'[k].metric = logs'[o].metric /\ logs'[k].at = logs'[o].at => k = o
  BY <1>1, <1>2 DEF LogsOK, Live
<1> QED
  BY <1>3, <1>4 DEF LogsOK

\* An update of a log keeps its other columns.
LEMMA LogEdited ==
    ASSUME NEW st, NEW m, NEW at, NEW value, NEW t, NEW v,
           NEW log \in [st : {st}, metric : {m}, at : {at}, value : {value}]
    PROVE  [log EXCEPT !.at = t, !.value = v]
              \in [st : {st}, metric : {m}, at : {t}, value : {v}]
OBVIOUS

LEMMA LogsNext == LogsOK /\ [Next]_vars => LogsOK'
<1> SUFFICES ASSUME LogsOK, [Next]_vars
             PROVE  LogsOK'
  OBVIOUS
<1>1. ASSUME UNCHANGED logs PROVE LogsOK'
  BY <1>1 DEF LogsOK, Live
<1>2. DOMAIN logs = Log
  BY DEF LogsOK
<1>3. ASSUME NEW r \in Request, InsertLog(r), ~UNCHANGED logs
      PROVE  LogsOK'
  <2> DEFINE row == [st |-> "live", metric |-> req[r].row, at |-> req[r].arg, value |-> 0]
  <2>1. /\ ~LogTaken(req[r].row, req[r].arg, None)
        /\ \E l \in Unused(logs) : logs' = [logs EXCEPT ![l] = row]
    BY <1>3 DEF InsertLog
  <2>2. PICK l \in Unused(logs) : logs' = [logs EXCEPT ![l] = row]
    BY <2>1
  <2>3. \A k \in Live(logs) \ {l} : ~(logs[k].metric = req[r].row /\ logs[k].at = req[r].arg)
    BY <1>2, <2>1, TrackerAssumption DEF LogTaken, Live
  <2>4. /\ row.metric = req[r].row /\ row.at = req[r].arg
        /\ row = [st |-> row.st, metric |-> row.metric, at |-> row.at, value |-> row.value]
    OBVIOUS
  <2> HIDE DEF row
  <2> QED
    BY <1>2, <2>2, <2>3, <2>4, LogWritten DEF Unused
<1>4. ASSUME NEW r \in Request, SaveLog(r), ~UNCHANGED logs
      PROVE  LogsOK'
  <2> DEFINE l == req[r].row
  <2>1. PICK t, v : /\ logs[l].st = "live" /\ ~LogTaken(logs[l].metric, t, l)
                    /\ logs' = [logs EXCEPT ![l].at = t, ![l].value = v]
    BY <1>4 DEF SaveLog
  <2> DEFINE row == [logs[l] EXCEPT !.at = t, !.value = v]
  <2>2. CASE l \in Log
    <3> HIDE DEF l
    <3>1. logs[l] \in [st : {logs[l].st}, metric : {logs[l].metric}, at : {logs[l].at},
                       value : {logs[l].value}]
      BY <2>2 DEF LogsOK
    <3>2. row \in [st : {logs[l].st}, metric : {logs[l].metric}, at : {t}, value : {v}]
      BY <3>1, LogEdited
    <3> HIDE DEF row
    <3>3. /\ row.metric = logs[l].metric /\ row.at = t
          /\ row = [st |-> row.st, metric |-> row.metric, at |-> row.at, value |-> row.value]
      BY <3>2
    <3>4. logs' = [logs EXCEPT ![l] = row]
      BY <2>1 DEF row
    <3>5. \A k \in Live(logs) \ {l} : logs[k].metric # row.metric \/ logs[k].at # row.at
      BY <2>1, <3>3 DEF LogTaken
    <3> QED
      BY <2>2, <3>3, <3>4, <3>5, LogWritten
  <2>3. CASE l \notin Log
    <3>1. UNCHANGED logs
      BY <1>2, <2>1, <2>3 DEF LogsOK
    <3> QED
      BY <1>1, <3>1
  <2> QED
    BY <2>2, <2>3
<1>5. ASSUME NEW r \in Request, DestroyLog(r)
      PROVE  LogsOK'
  <2> DEFINE l == req[r].row
             row == [NoLog EXCEPT !.st = "deleted"]
  <2>1. row.st # "live"
        /\ row = [st |-> row.st, metric |-> row.metric, at |-> row.at, value |-> row.value]
    BY DEF NoLog
  <2>2. logs' = [logs EXCEPT ![l] = row]
    BY <1>5 DEF DestroyLog
  <2> HIDE DEF l, row
  <2>3. CASE l \in Log
    BY <2>1, <2>2, <2>3, LogWritten
  <2>4. CASE l \notin Log
    <3>1. UNCHANGED logs
      BY <1>2, <2>2, <2>4 DEF LogsOK
    <3> QED
      BY <1>1, <3>1
  <2> QED
    BY <2>3, <2>4
<1> QED
  BY <1>1, <1>3, <1>4, <1>5, Writers

-----------------------------------------------------------------------------
(* What a partial update makes of settings.                                *)

LEMMA PickFacts ==
    /\ \A old : Pick({}, old) = old
    /\ \A v, old : Pick({v}, old) = v
BY DEF Pick

LEMMA PickTyped ==
    ASSUME NEW S, NEW old \in S, NEW mention, mention \subseteq S
    PROVE  Pick(mention, old) \in S
BY DEF Pick

\* The columns are days: an instant stays a date, and none stays none.
LEMMA DayFacts ==
    ASSUME NEW instant \in Nat \cup {None}
    PROVE  /\ Day(instant) \in Nat \cup {None}
           /\ Day(instant) = None <=> instant = None
<1>1. CASE instant = None
  BY <1>1 DEF Day
<1>2. CASE instant \in Nat
  BY <1>2, BodyAssumption DEF Day
<1> QED
  BY <1>1, <1>2

\* A part of settings is switched on, off, or not mentioned.
LEMMA Switch ==
    ASSUME NEW switch \in {{}, {FALSE}, {TRUE}}, NEW old \in BOOLEAN
    PROVE  /\ Pick(switch, old) \in BOOLEAN
           /\ switch = {} => Pick(switch, old) = old
           /\ switch = {FALSE} => ~Pick(switch, old)
           /\ switch = {TRUE} => Pick(switch, old)
BY PickFacts

\* Every field of the entity after updateDetails.
LEMMA DetailsFields ==
    ASSUME NEW row \in SettingRow, NEW p
    PROVE  LET e == Details(row, p) IN
           /\ e = [row EXCEPT !.goalOn = e.goalOn, !.type = e.type, !.value = e.value,
                              !.frameOn = e.frameOn, !.start = e.start,
                              !.deadline = e.deadline, !.alertOn = e.alertOn,
                              !.threshold = e.threshold]
           /\ e.goalOn = Pick(p.goalOn, row.goalOn)
           /\ e.type = (p.goalOn # {FALSE} /\ Pick(p.type, row.type))
           /\ e.value = (p.goalOn # {FALSE} /\ Pick(p.value, row.value))
           /\ e.frameOn = (DatesWanted(p) \/ Pick(p.frameOn, row.frameOn))
           /\ e.start = IF p.frameOn = {FALSE} THEN None
                        ELSE IF p.start = {} THEN row.start ELSE Day(Pick(p.start, None))
           /\ e.deadline = IF p.frameOn = {FALSE} THEN None
                           ELSE IF p.deadline = {} THEN row.deadline
                           ELSE Day(Pick(p.deadline, None))
           /\ e.alertOn = Pick(p.alertOn, row.alertOn)
           /\ e.threshold = (p.alertOn # {FALSE} /\ Pick(p.threshold, row.threshold))
           /\ e.st = row.st /\ e.metric = row.metric /\ e.achieved = row.achieved
           /\ e.shown = row.shown
BY DEF Details, SettingRow

\* Switched on, a part of the body comes whole; mentioned or not, the parts of
\* the entity agree after it, but for a part the body nulls behind its switch.
NullsPart(p) == \/ p.goalOn = {} /\ {FALSE} \in {p.type, p.value}
                \/ p.alertOn = {} /\ p.threshold = {FALSE}

LEMMA DetailsWhole ==
    ASSUME NEW row \in SettingRow, NEW p \in Patch, PatchAccepted(p), ~DetailsRefused(p),
           FrameOn(row)
    PROVE  LET e == Details(row, p) IN
           /\ e \in SettingRow /\ e.st = row.st /\ e.metric = row.metric
           /\ e.achieved = row.achieved
           /\ FrameOn(e)
           /\ GoalOn(row) => GoalOn(e) \/ NullsPart(p)
<1> DEFINE e == Details(row, p)
<1>1. /\ {p.goalOn, p.type, p.value, p.frameOn, p.alertOn, p.threshold}
             \subseteq {{}, {FALSE}, {TRUE}}
      /\ p.start \subseteq Nat \cup {None} /\ p.deadline \subseteq Nat \cup {None}
      /\ \A v, w \in p.start : v = w
      /\ \A v, w \in p.deadline : v = w
      /\ None \notin Nat
  BY BodyAssumption
<1>2. /\ e.goalOn = Pick(p.goalOn, row.goalOn)
      /\ e.type = (p.goalOn # {FALSE} /\ Pick(p.type, row.type))
      /\ e.value = (p.goalOn # {FALSE} /\ Pick(p.value, row.value))
      /\ e.frameOn = (DatesWanted(p) \/ Pick(p.frameOn, row.frameOn))
      /\ e.alertOn = Pick(p.alertOn, row.alertOn)
      /\ e.threshold = (p.alertOn # {FALSE} /\ Pick(p.threshold, row.threshold))
      /\ e.st = row.st /\ e.metric = row.metric /\ e.achieved = row.achieved
      /\ e.shown = row.shown
  BY DetailsFields
<1>3. /\ p.frameOn = {FALSE} => e.start = None /\ e.deadline = None
      /\ p.frameOn # {FALSE} /\ p.start = {} => e.start = row.start
      /\ p.frameOn # {FALSE} /\ p.start # {} => e.start = Day(Pick(p.start, None))
      /\ p.frameOn # {FALSE} /\ p.deadline = {} => e.deadline = row.deadline
      /\ p.frameOn # {FALSE} /\ p.deadline # {} => e.deadline = Day(Pick(p.deadline, None))
  BY DetailsFields
<1>4. e = [row EXCEPT !.goalOn = e.goalOn, !.type = e.type, !.value = e.value,
                      !.frameOn = e.frameOn, !.start = e.start, !.deadline = e.deadline,
                      !.alertOn = e.alertOn, !.threshold = e.threshold]
  BY DetailsFields
<1> HIDE DEF e
<1>5. /\ row.goalOn \in BOOLEAN /\ row.type \in BOOLEAN /\ row.value \in BOOLEAN
      /\ row.frameOn \in BOOLEAN /\ row.alertOn \in BOOLEAN /\ row.threshold \in BOOLEAN
      /\ row.start \in Nat \cup {None} /\ row.deadline \in Nat \cup {None}
  BY DEF SettingRow
<1>6. Pick(p.start, None) \in Nat \cup {None} /\ Pick(p.deadline, None) \in Nat \cup {None}
  BY <1>1, PickTyped
<1>7. e.start \in Nat \cup {None} /\ e.deadline \in Nat \cup {None}
  BY <1>3, <1>5, <1>6, DayFacts
<1>8. /\ e.goalOn \in BOOLEAN /\ e.type \in BOOLEAN /\ e.value \in BOOLEAN
      /\ e.frameOn \in BOOLEAN /\ e.alertOn \in BOOLEAN /\ e.threshold \in BOOLEAN
  BY <1>1, <1>2, <1>5, Switch
<1>9. e \in SettingRow
  BY <1>4, <1>7, <1>8 DEF SettingRow
<1>10. FrameOn(e)
  <2>1. CASE DatesWanted(p)
    <3>1. p.frameOn # {FALSE}
      BY <2>1 DEF DatesWanted
    <3>2. /\ p.start \notin {{}, {None}} /\ p.deadline \notin {{}, {None}}
      BY <2>1 DEF PatchAccepted
    <3>3. Pick(p.start, None) # None /\ Pick(p.deadline, None) # None
      BY <1>1, <3>2 DEF Pick
    <3> QED
      BY <1>3, <1>6, <3>1, <3>2, <3>3, DayFacts DEF FrameOn
  <2>2. CASE p.frameOn = {FALSE}
    BY <1>2, <1>5, <2>1, <2>2, Switch DEF FrameOn, DatesWanted
  <2>3. CASE ~DatesWanted(p) /\ p.frameOn # {FALSE}
    <3>1. p.frameOn = {} /\ p.start = {} /\ p.deadline = {}
      BY <1>1, <2>3 DEF DatesWanted
    <3>2. e.start = row.start /\ e.deadline = row.deadline /\ e.frameOn = row.frameOn
      BY <1>2, <1>3, <1>5, <2>3, <3>1, Switch
    <3> QED
      BY <3>2 DEF FrameOn
  <2> QED
    BY <2>1, <2>2, <2>3
<1>11. ASSUME GoalOn(row), ~NullsPart(p)
       PROVE  GoalOn(e)
  <2>1. ASSUME e.goalOn PROVE e.type /\ e.value
    <3>1. CASE p.goalOn = {TRUE}
      BY <1>2, <1>5, <3>1, Switch DEF PatchAccepted
    <3>2. CASE p.goalOn = {}
      <4>1. row.type /\ row.value
        BY <1>2, <1>5, <1>11, <2>1, <3>2, Switch DEF GoalOn
      <4>2. p.type # {FALSE} /\ p.value # {FALSE}
        BY <1>11, <3>2 DEF NullsPart
      <4>3. Pick(p.type, row.type) /\ Pick(p.value, row.value)
        BY <1>1, <1>5, <4>1, <4>2, Switch
      <4> QED
        BY <1>2, <3>2, <4>3
    <3> QED
      BY <1>1, <1>2, <1>5, <2>1, <3>1, <3>2, Switch
  <2>2. ASSUME e.alertOn PROVE e.threshold
    <3>1. CASE p.alertOn = {TRUE}
      BY <1>2, <1>5, <3>1, Switch DEF DetailsRefused
    <3>2. CASE p.alertOn = {}
      <4>1. row.threshold
        BY <1>2, <1>5, <1>11, <2>2, <3>2, Switch DEF GoalOn
      <4>2. p.threshold # {FALSE}
        BY <1>11, <3>2 DEF NullsPart
      <4>3. Pick(p.threshold, row.threshold)
        BY <1>1, <1>5, <4>1, <4>2, Switch
      <4> QED
        BY <1>2, <3>2, <4>3
    <3> QED
      BY <1>1, <1>2, <1>5, <2>2, <3>1, <3>2, Switch
  <2> QED
    BY <2>1, <2>2 DEF GoalOn
<1> QED
  BY <1>2, <1>9, <1>10, <1>11 DEF e

-----------------------------------------------------------------------------
(* Where the requests are.  A step is one request's: it answers, goes on to  *)
(* its next statement, or has just come.                                    *)

Others(r) == ReqOK' /\ \A q \in Request \ {r} : req'[q] = req[q]

LEMMA Placed ==
    ASSUME ReqOK, NEW r \in Request, NEW new,
           new = [op |-> new.op, todo |-> new.todo, row |-> new.row, arg |-> new.arg,
                  seen |-> new.seen],
           req' = [req EXCEPT ![r] = new]
    PROVE  Others(r) /\ req'[r] = new
<1>1. DOMAIN req = Request /\ DOMAIN req' = Request
  BY DEF ReqOK
<1>2. req'[r] = new /\ \A q \in Request \ {r} : req'[q] = req[q]
  BY <1>1
<1>3. ReqOK'
  <2>1. \A q \in Request :
           req'[q] = [op |-> req'[q].op, todo |-> req'[q].todo, row |-> req'[q].row,
                      arg |-> req'[q].arg, seen |-> req'[q].seen]
    BY <1>2 DEF ReqOK
  <2> QED
    BY <1>1, <2>1 DEF ReqOK
<1> QED
  BY <1>2, <1>3 DEF Others

\* What each way of going on makes of the request.
LEMMA Goes ==
    ASSUME ReqOK, NEW r \in Request
    PROVE  /\ \A status : Answer(r, status) => Others(r) /\ req'[r].op = "none"
           /\ Continue(r) => /\ Others(r) /\ req'[r].op = req[r].op
                             /\ req'[r].row = req[r].row /\ req'[r].arg = req[r].arg
           /\ \A entity, rest : Hold(r, entity, rest) =>
                /\ Others(r) /\ req'[r].op = req[r].op
                /\ req'[r].row = req[r].row /\ req'[r].arg = req[r].arg
                /\ req'[r].todo = rest /\ req'[r].seen = entity
           /\ \A u : req' = [req EXCEPT ![r].arg = u] =>
                Others(r) /\ req'[r].op = req[r].op
           /\ \A op, todo, row, arg : Begin(r, op, todo, row, arg) =>
                /\ Others(r)
                /\ req'[r].op = op /\ req'[r].todo = todo
                /\ req'[r].row = row /\ req'[r].arg = arg
<1>1. /\ DOMAIN req = Request
      /\ req[r] = [op |-> req[r].op, todo |-> req[r].todo, row |-> req[r].row,
                   arg |-> req[r].arg, seen |-> req[r].seen]
  BY DEF ReqOK
<1>2. ASSUME NEW status, Answer(r, status)
      PROVE  Others(r) /\ req'[r].op = "none"
  <2>1. Idle = [op |-> Idle.op, todo |-> Idle.todo, row |-> Idle.row, arg |-> Idle.arg,
                seen |-> Idle.seen] /\ Idle.op = "none"
    BY DEF Idle
  <2>2. req' = [req EXCEPT ![r] = Idle]
    BY <1>2 DEF Answer
  <2> QED
    BY <2>1, <2>2, Placed
<1>3. ASSUME Continue(r)
      PROVE  /\ Others(r) /\ req'[r].op = req[r].op
             /\ req'[r].row = req[r].row /\ req'[r].arg = req[r].arg
  <2> DEFINE todo == Tail(req[r].todo)
             new == [req[r] EXCEPT !.todo = todo]
  <2>1. req' = [req EXCEPT ![r] = new]
    BY <1>1, <1>3 DEF Continue
  <2> HIDE DEF todo
  <2>2. new \in [op : {req[r].op}, todo : {todo}, row : {req[r].row}, arg : {req[r].arg},
                 seen : {req[r].seen}]
    BY <1>1
  <2> HIDE DEF new
  <2>3. /\ new = [op |-> new.op, todo |-> new.todo, row |-> new.row, arg |-> new.arg,
                  seen |-> new.seen]
        /\ new.op = req[r].op /\ new.row = req[r].row /\ new.arg = req[r].arg
    BY <2>2
  <2> QED
    BY <2>1, <2>3, Placed
<1>4. ASSUME NEW entity, NEW rest, Hold(r, entity, rest)
      PROVE  /\ Others(r) /\ req'[r].op = req[r].op
             /\ req'[r].row = req[r].row /\ req'[r].arg = req[r].arg
             /\ req'[r].todo = rest /\ req'[r].seen = entity
  <2> DEFINE new == [req[r] EXCEPT !.todo = rest, !.seen = entity]
  <2>1. new \in [op : {req[r].op}, todo : {rest}, row : {req[r].row}, arg : {req[r].arg},
                 seen : {entity}]
    BY <1>1
  <2>2. req' = [req EXCEPT ![r] = new]
    BY <1>1, <1>4 DEF Hold
  <2> HIDE DEF new
  <2>3. /\ new = [op |-> new.op, todo |-> new.todo, row |-> new.row, arg |-> new.arg,
                  seen |-> new.seen]
        /\ new.op = req[r].op /\ new.row = req[r].row /\ new.arg = req[r].arg
        /\ new.todo = rest /\ new.seen = entity
    BY <2>1
  <2> QED
    BY <2>2, <2>3, Placed
<1>5. ASSUME NEW u, req' = [req EXCEPT ![r].arg = u]
      PROVE  Others(r) /\ req'[r].op = req[r].op
  <2> DEFINE new == [req[r] EXCEPT !.arg = u]
  <2>1. /\ new = [op |-> new.op, todo |-> new.todo, row |-> new.row, arg |-> new.arg,
                  seen |-> new.seen]
        /\ new.op = req[r].op
    BY <1>1
  <2>2. req' = [req EXCEPT ![r] = new]
    BY <1>1, <1>5
  <2> HIDE DEF new
  <2> QED
    BY <2>1, <2>2, Placed
<1>6. ASSUME NEW op, NEW todo, NEW row, NEW arg, Begin(r, op, todo, row, arg)
      PROVE  /\ Others(r)
             /\ req'[r].op = op /\ req'[r].todo = todo
             /\ req'[r].row = row /\ req'[r].arg = arg
  <2> DEFINE new == [op |-> op, todo |-> todo, row |-> row, arg |-> arg, seen |-> None]
  <2>1. new = [op |-> new.op, todo |-> new.todo, row |-> new.row, arg |-> new.arg,
               seen |-> new.seen]
    OBVIOUS
  <2>2. req' = [req EXCEPT ![r] = new]
    BY <1>6 DEF Begin
  <2> HIDE DEF new
  <2> QED
    BY <2>1, <2>2, Placed DEF new
<1> QED
  BY <1>2, <1>3, <1>4, <1>5, <1>6

\* Requests that are not about settings, and the ways on of those that are.
OfSettings == Saves \cup {"createSettings"}

\* A request for new settings, and one that will save, as they come.
Comes(r) ==
    \/ /\ req[r].op = "createSettings" /\ req[r].row \in Known
       /\ req[r].arg \in Body /\ BodyAccepted(req[r].arg)
    \/ /\ req[r].op \in Saves /\ req[r].row \in Setting /\ Head(req[r].todo) = "find"
       /\ req[r].op = "updateSettings" => req[r].arg \in Patch /\ PatchAccepted(req[r].arg)
       /\ req[r].op = "display" => req[r].arg \in BOOLEAN

LEMMA Arrivals ==
    ASSUME ReqOK, SettingsPlaced, UNCHANGED metrics, NEW r \in Request, Arrive(r)
    PROVE  Others(r) /\ (req'[r].op \in OfSettings => Comes(r)')
<1>1. \A op, todo, row, arg : Begin(r, op, todo, row, arg) =>
         /\ Others(r)
         /\ req'[r].op = op /\ req'[r].todo = todo
         /\ req'[r].row = row /\ req'[r].arg = arg
  BY Goes
<1>2. Made(settings) \subseteq Setting /\ Known' = Known
  BY DEF Made, SettingsPlaced, Known
<1>3. CASE CreateSettings(r)
  <2>1. PICK m \in Known, b \in Body :
           /\ BodyAccepted(b)
           /\ Begin(r, "createSettings", <<"access", "find", "insert">>, m, b)
    BY <1>3 DEF CreateSettings
  <2>2. Others(r) /\ req'[r].op = "createSettings" /\ req'[r].row = m /\ req'[r].arg = b
    BY <1>1, <2>1
  <2> QED
    BY <1>2, <2>1, <2>2 DEF Comes
<1>4. CASE UpdateSettings(r)
  <2>1. PICK s \in Made(settings), p \in Patch :
           PatchAccepted(p) /\ Begin(r, "updateSettings", <<"find", "update">>, s, p)
    BY <1>4 DEF UpdateSettings
  <2>2. /\ Others(r) /\ req'[r].op = "updateSettings" /\ req'[r].row = s
        /\ req'[r].arg = p /\ req'[r].todo = <<"find", "update">>
    BY <1>1, <2>1
  <2>3. Head(req'[r].todo) = "find"
    BY <2>2
  <2> QED
    BY <1>2, <2>1, <2>2, <2>3 DEF Comes, Saves
<1>5. CASE AchieveGoal(r)
  <2>1. PICK s \in Made(settings) : Begin(r, "achieve", <<"find", "update">>, s, None)
    BY <1>5 DEF AchieveGoal
  <2>2. /\ Others(r) /\ req'[r].op = "achieve" /\ req'[r].row = s
        /\ req'[r].todo = <<"find", "update">>
    BY <1>1, <2>1
  <2>3. Head(req'[r].todo) = "find"
    BY <2>2
  <2> QED
    BY <1>2, <2>1, <2>2, <2>3 DEF Comes, Saves
<1>6. CASE UpdateDisplay(r)
  <2>1. PICK s \in Made(settings), shown \in BOOLEAN :
           Begin(r, "display", <<"find", "update">>, s, shown)
    BY <1>6 DEF UpdateDisplay
  <2>2. /\ Others(r) /\ req'[r].op = "display" /\ req'[r].row = s
        /\ req'[r].arg = shown /\ req'[r].todo = <<"find", "update">>
    BY <1>1, <2>1
  <2>3. Head(req'[r].todo) = "find"
    BY <2>2
  <2> QED
    BY <1>2, <2>1, <2>2, <2>3 DEF Comes, Saves
<1>7. CASE \/ CreateCategory(r) \/ UpdateCategory(r) \/ DeleteCategory(r)
           \/ DummyCategories(r) \/ CreateMetric(r) \/ UpdateMetric(r) \/ DeleteMetric(r)
           \/ DummyMetrics(r) \/ CreateLog(r) \/ UpdateLog(r) \/ DeleteLog(r)
           \/ DummyLogs(r) \/ DeleteSettings(r)
  <2>1. \E op \in {"createCategory", "updateCategory", "deleteCategory", "dummyCategories",
                   "createMetric", "updateMetric", "deleteMetric", "dummyMetrics",
                   "createLog", "updateLog", "deleteLog", "dummyLogs", "deleteSettings"} :
           \E todo, row, arg : Begin(r, op, todo, row, arg)
    BY <1>7 DEF CreateCategory, UpdateCategory, DeleteCategory, DummyCategories,
       CreateMetric, UpdateMetric, DeleteMetric, DummyMetrics, CreateLog, UpdateLog,
       DeleteLog, DummyLogs, DeleteSettings
  <2>2. Others(r) /\ req'[r].op \notin OfSettings
    BY <1>1, <2>1 DEF OfSettings, Saves
  <2> QED
    BY <2>2
<1> QED
  BY <1>3, <1>4, <1>5, <1>6, <1>7 DEF Arrive

\* A statement answers, or goes on with the same row and body; only FindSettings
\* changes what a request that will save holds.
LEMMA Statements ==
    ASSUME ReqOK, NEW r \in Request, Statement(r)
    PROVE  /\ Others(r)
           /\ req'[r].op \in OfSettings =>
                /\ req'[r].op = req[r].op /\ req'[r].row = req[r].row
                /\ req'[r].arg = req[r].arg
                /\ req[r].op \in Saves => FindSettings(r)
<1>1. \A status : Answer(r, status) => Others(r) /\ req'[r].op \notin OfSettings
  BY Goes DEF OfSettings, Saves
<1>2. \A status : Done(r, status) => Others(r) /\ req'[r].op \notin OfSettings
  BY <1>1 DEF Done
<1>3. Continue(r) => /\ Others(r) /\ req'[r].op = req[r].op
                     /\ req'[r].row = req[r].row /\ req'[r].arg = req[r].arg
  BY Goes
<1>4. \A entity, rest : Hold(r, entity, rest) =>
         /\ Others(r) /\ req'[r].op = req[r].op
         /\ req'[r].row = req[r].row /\ req'[r].arg = req[r].arg
  BY Goes
<1>5. \A u : req' = [req EXCEPT ![r].arg = u] => Others(r) /\ req'[r].op = req[r].op
  BY Goes
<1>6. CASE FindCategory(r) \/ CategoryName(r) \/ RefindCategory(r)
  BY <1>1, <1>3, <1>4, <1>6 DEF FindCategory, CategoryName, RefindCategory, At, Require,
     OfSettings, Saves
<1>7. CASE InsertCategory(r) \/ SaveCategory(r) \/ DestroyCategory(r)
  BY <1>1, <1>2, <1>5, <1>7 DEF InsertCategory, SaveCategory, DestroyCategory, At,
     OfSettings, Saves
<1>8. CASE FindMetric(r) \/ MetricName(r) \/ CategoryExists(r) \/ OriginalExists(r)
           \/ RefindMetric(r)
  BY <1>1, <1>3, <1>4, <1>8 DEF FindMetric, MetricName, CategoryExists, OriginalExists,
     RefindMetric, At, Require, OfSettings, Saves
<1>9. CASE CommitMetric(r) \/ CommitBatch(r) \/ SaveMetric(r) \/ DestroyMetric(r)
  BY <1>1, <1>9 DEF CommitMetric, CommitBatch, SaveMetric, DestroyMetric
<1>10. CASE FindLog(r) \/ LogTimestamp(r) \/ Access(r) \/ FindForMetric(r)
  BY <1>1, <1>3, <1>4, <1>10 DEF FindLog, LogTimestamp, Access, FindForMetric, At, Require,
     OfSettings, Saves
<1>11. CASE InsertLog(r) \/ SaveLog(r) \/ DestroyLog(r)
  BY <1>1, <1>2, <1>5, <1>11 DEF InsertLog, SaveLog, DestroyLog, At, OfSettings, Saves
<1>12. CASE FindSettings(r)
  BY <1>1, <1>3, <1>4, <1>12 DEF FindSettings
<1>13. CASE InsertSettings(r) \/ SaveSettings(r) \/ DestroySettings(r) \/ Fails(r)
  BY <1>1, <1>2, <1>13 DEF InsertSettings, SaveSettings, DestroySettings, Fails
<1> QED
  BY <1>6, <1>7, <1>8, <1>9, <1>10, <1>11, <1>12, <1>13 DEF Statement

-----------------------------------------------------------------------------
(* What a request holds.                                                    *)

LEMMA KnownGrows == MetricsOK /\ [Next]_vars => Known \subseteq Known'
<1> SUFFICES ASSUME MetricsOK, [Next]_vars PROVE Known \subseteq Known'
  OBVIOUS
<1> USE DEF Known, Made
<1>1. CASE UNCHANGED metrics
  BY <1>1
<1>2. CASE \E r \in Request : CommitMetric(r) \/ CommitBatch(r) \/ SaveMetric(r)
  <2>1. ASSUME NEW m, NEW row, row.st = "live" \/ row.st = metrics[m].st,
               metrics' = [metrics EXCEPT ![m] = row]
        PROVE  Known \subseteq Known'
    BY <2>1
  <2>2. ASSUME NEW r \in Request, CommitMetric(r) \/ CommitBatch(r), ~UNCHANGED metrics
        PROVE  \E m, n : metrics' = [metrics EXCEPT ![m] = [st |-> "live", name |-> n]]
    BY <2>2 DEF CommitMetric, CommitBatch
  <2>3. ASSUME NEW r \in Request, SaveMetric(r), ~UNCHANGED metrics
        PROVE  Known \subseteq Known'
    <3> DEFINE m == req[r].row
               name == Pick(req[r].seen.write, metrics[m].name)
               row == [metrics[m] EXCEPT !.name = name]
    <3>1. m \in DOMAIN metrics /\ metrics' = [metrics EXCEPT ![m] = row]
      BY <2>3 DEF SaveMetric, Live
    <3>2. row.st = metrics[m].st
      BY <3>1 DEF MetricsOK
    <3> HIDE DEF row, m, name
    <3> QED
      BY <2>1, <3>1, <3>2
  <2> QED
    BY <1>1, <1>2, <2>1, <2>2, <2>3
<1>3. CASE \E r \in Request : DestroyMetric(r)
  BY <1>3 DEF DestroyMetric, NoMetric
<1> QED
  BY <1>1, <1>2, <1>3, Writers

\* A request stays overtaken until it ends.
LEMMA OvertakenStays ==
    ASSUME NEW r \in Request, Arrive(r) \/ Statement(r), NEW q \in Request \ {r}, q \in overtaken
    PROVE  q \in overtaken'
<1>1. CASE Arrive(r)
  BY <1>1 DEF Arrive, CreateCategory, UpdateCategory, DeleteCategory, DummyCategories,
       CreateMetric, UpdateMetric, DeleteMetric, DummyMetrics, CreateLog, UpdateLog,
       DeleteLog, DummyLogs, CreateSettings, UpdateSettings, AchieveGoal, UpdateDisplay,
       DeleteSettings, Begin, history
<1>2. CASE SaveSettings(r) \/ Fails(r)
  BY <1>2 DEF SaveSettings, Fails
<1>3. CASE Statement(r) /\ ~(SaveSettings(r) \/ Fails(r))
  BY <1>3 DEF Statement, FindCategory, CategoryName, InsertCategory, RefindCategory,
       SaveCategory, DestroyCategory, FindMetric, MetricName, CategoryExists,
       OriginalExists, CommitMetric, CommitBatch, RefindMetric, SaveMetric,
       DestroyMetric, Access, FindLog, LogTimestamp, InsertLog, SaveLog, DestroyLog,
       FindForMetric, FindSettings, InsertSettings, DestroySettings, history
<1> QED
  BY <1>1, <1>2, <1>3

\* Another's save of the settings overtakes the request; a row deleted since is
\* saved by nobody.
LEMMA HeldKept ==
    ASSUME NEW q \in Request, req'[q] = req[q], Held(q),
           q \in overtaken => q \in overtaken', nulled \subseteq nulled',
           LET s == req[q].row IN
             \/ settings'[s] = settings[s]
             \/ settings'[s].st = "deleted"
             \/ /\ q \in overtaken' /\ settings'[s].metric = settings[s].metric
                /\ settings[s].st = "live" /\ settings'[s].st = "live"
    PROVE  Held(q)'
<1>1. Nulls(q)' <=> Nulls(q)
  BY DEF Nulls
<1> QED
  BY <1>1 DEF Held

\* What a request holds is kept by the steps of others.
Kept(q) ==
    req[q].op \in Saves /\ Held(q) /\ req'[q] = req[q] /\ (q \in overtaken => q \in overtaken')
        => Held(q)'

LEMMA AskedKept ==
    ASSUME NEW q \in Request, req'[q] = req[q], Asked(q), Known \subseteq Known',
           Held(q) => Held(q)'
    PROVE  Asked(q)'
BY DEF Asked

LEMMA Columns ==
    DOMAIN NoSetting = {"st", "metric", "goalOn", "type", "value", "frameOn", "start",
                        "deadline", "alertOn", "threshold", "achieved", "shown"}
BY DEF NoSetting

\* The entity a request reads, edited, is what it holds.
LEMMA FindHolds ==
    ASSUME SettingsOK, NEW r \in Request, FindSettings(r), UNCHANGED <<settings, nulled>>,
           req[r].op \in Saves, req'[r].op \in Saves
    PROVE  Held(r)'
<1> DEFINE s == req[r].row
           row == settings[s]
           e == Edited(r, row)
<1>1. /\ row.st = "live"
      /\ Hold(r, e, <<"update">>)
      /\ req[r].op = "updateSettings" => ~DetailsRefused(req[r].arg)
  <2>1. \A status : Answer(r, status) => req'[r].op \notin Saves
    BY Goes DEF Saves, SettingsOK
  <2> QED
    BY <2>1 DEF FindSettings, Saves
<1>2. /\ req'[r].op = req[r].op /\ req'[r].row = s /\ req'[r].arg = req[r].arg
      /\ Head(req'[r].todo) = "update" /\ req'[r].seen = e
  BY <1>1, Goes DEF SettingsOK
<1>3. s \in Setting /\ row \in SettingRow /\ s \in Live(settings)
  BY <1>1 DEF SettingsOK, Asked, SettingsPlaced, Live
<1>4. FrameOn(row) /\ (GoalOn(row) \/ s \in nulled)
  BY <1>3 DEF SettingsOK, FrameWhole, GoalWhole, FrameOn, GoalOn
<1>5. /\ e \in SettingRow /\ e.st = "live" /\ e.metric = row.metric /\ FrameOn(e)
      /\ Edits(req[r].op, row, e)
      /\ GoalOn(row) => GoalOn(e) \/ Nulls(r)
  <2>1. CASE req[r].op = "updateSettings"
    <3>1. req[r].arg \in Patch /\ PatchAccepted(req[r].arg) /\ ~DetailsRefused(req[r].arg)
      BY <1>1, <2>1 DEF SettingsOK, Asked
    <3>2. e = Details(row, req[r].arg)
      BY <2>1 DEF Edited
    <3>3. Nulls(r) <=> NullsPart(req[r].arg)
      BY <2>1 DEF Nulls, NullsPart
    <3> HIDE DEF row, e
    <3>4. e.st = row.st /\ e.metric = row.metric /\ e.achieved = row.achieved
          /\ e.shown = row.shown
      BY <1>3, <3>2, DetailsFields
    <3>5. Edits(req[r].op, row, e)
      BY <2>1, <3>4, Columns DEF Edits, Part
    <3> QED
      BY <1>1, <1>3, <1>4, <3>1, <3>2, <3>3, <3>5, DetailsWhole
  <2>2. CASE req[r].op = "achieve"
    <3>1. e = [row EXCEPT !.achieved = TRUE]
      BY <2>2 DEF Edited
    <3> HIDE DEF row, e
    <3>2. e \in SettingRow /\ e.achieved
      BY <1>3, <3>1 DEF SettingRow
    <3>3. /\ e.st = row.st /\ e.metric = row.metric /\ e.frameOn = row.frameOn
          /\ e.start = row.start /\ e.deadline = row.deadline
          /\ e.goalOn = row.goalOn /\ e.type = row.type /\ e.value = row.value
          /\ e.alertOn = row.alertOn /\ e.threshold = row.threshold
      BY <1>3, <3>1 DEF SettingRow
    <3>4. e.shown = row.shown
      BY <1>3, <3>1 DEF SettingRow
    <3>5. Edits(req[r].op, row, e)
      BY <2>2, <3>2, <3>3, <3>4, Columns DEF Edits, Part
    <3> QED
      BY <1>1, <1>4, <3>2, <3>3, <3>5 DEF FrameOn, GoalOn
  <2>3. CASE req[r].op = "display"
    <3>1. e = [row EXCEPT !.shown = req[r].arg] /\ req[r].arg \in BOOLEAN
      BY <2>3 DEF Edited, SettingsOK, Asked
    <3> HIDE DEF row, e
    <3>2. e \in SettingRow /\ e.achieved = row.achieved
      BY <1>3, <3>1 DEF SettingRow
    <3>3. /\ e.st = row.st /\ e.metric = row.metric /\ e.frameOn = row.frameOn
          /\ e.start = row.start /\ e.deadline = row.deadline
          /\ e.goalOn = row.goalOn /\ e.type = row.type /\ e.value = row.value
          /\ e.alertOn = row.alertOn /\ e.threshold = row.threshold
      BY <1>3, <3>1 DEF SettingRow
    <3>4. Edits(req[r].op, row, e)
      BY <2>3, <3>2, <3>3, Columns DEF Edits, Part
    <3> QED
      BY <1>1, <1>4, <3>2, <3>3, <3>4 DEF FrameOn, GoalOn
  <2> QED
    BY <2>1, <2>2, <2>3 DEF Saves
<1>6. Nulls(r)' <=> Nulls(r)
  BY <1>2 DEF Nulls
<1> HIDE DEF e
<1> QED
  BY <1>1, <1>2, <1>4, <1>5, <1>6 DEF Held

\* One request steps; what the others hold is still theirs.
LEMMA AskedNext ==
    ASSUME SettingsOK, NEW r \in Request, Arrive(r) \/ Statement(r),
           Known \subseteq Known',
           Arrive(r) \/ FindSettings(r) => UNCHANGED <<tables, history>>,
           \A q \in Request \ {r} :
              Kept(q)
    PROVE  ReqOK' /\ \A q \in Request : Asked(q)'
<1>1. Others(r)
  BY Arrivals, Statements DEF SettingsOK, tables
<1>2. ASSUME NEW q \in Request \ {r} PROVE Asked(q)'
  BY <1>1, <1>2, AskedKept, OvertakenStays DEF Others, SettingsOK, Asked, Kept
<1>3. Asked(r)'
  <2>1. CASE req'[r].op \notin OfSettings
    BY <2>1 DEF Asked, OfSettings, Saves
  <2>2. CASE Arrive(r) /\ req'[r].op \in OfSettings
    <3>1. Comes(r)'
      BY <2>2, Arrivals DEF SettingsOK, tables
    <3> QED
      BY <3>1 DEF Comes, Asked, Saves
  <2>3. CASE Statement(r) /\ req'[r].op \in OfSettings
    <3>1. /\ req'[r].op = req[r].op /\ req'[r].row = req[r].row /\ req'[r].arg = req[r].arg
          /\ req[r].op \in Saves => FindSettings(r)
      BY <2>3, Statements DEF SettingsOK
    <3>2. req'[r].op \in Saves => Held(r)'
      BY <3>1, FindHolds DEF tables, history
    <3> QED
      BY <3>1, <3>2 DEF SettingsOK, Asked
  <2> QED
    BY <2>1, <2>2, <2>3
<1> QED
  BY <1>1, <1>2, <1>3 DEF Others

-----------------------------------------------------------------------------
(* The settings, by what writes them.                                      *)

LEMMA SettingWritten ==
    ASSUME SettingsPlaced, Known \subseteq Known', NEW s \in Setting, NEW row \in SettingRow,
           settings' = [settings EXCEPT ![s] = row],
           row.st # "live" => ~row.achieved,
           row.st = "live" =>
              /\ row.metric \in Known'
              /\ \A u \in Live(settings) \ {s} : settings[u].metric # row.metric
    PROVE  SettingsPlaced'
<1>1. /\ settings' \in [Setting -> SettingRow] /\ settings'[s] = row
      /\ \A u \in Setting \ {s} : settings'[u] = settings[u]
  BY DEF SettingsPlaced
<1>2. Live(settings)' = {u \in Setting : settings'[u].st = "live"}
      /\ Live(settings) = {u \in Setting : settings[u].st = "live"}
  BY <1>1 DEF SettingsPlaced, Live
<1>3. \A u \in Setting : settings'[u].st # "live" => ~settings'[u].achieved
  BY <1>1 DEF SettingsPlaced
<1>4. \A u \in Live(settings)' : settings'[u].metric \in Known'
  BY <1>1, <1>2 DEF SettingsPlaced
<1>5. \A u, v \in Live(settings)' : settings'[u].metric = settings'[v].metric => u = v
  BY <1>1, <1>2 DEF SettingsPlaced
<1> QED
  BY <1>1, <1>3, <1>4, <1>5 DEF SettingsPlaced

LEMMA PartsWritten ==
    ASSUME SettingsPlaced, FrameWhole, GoalWhole, NEW s \in Setting, NEW row,
           settings' = [settings EXCEPT ![s] = row], nulled \subseteq nulled',
           row.st = "live" =>
              FrameOn(row) /\ DaysInOrder(row) /\ (GoalOn(row) \/ s \in nulled')
    PROVE  FrameWhole' /\ GoalWhole'
<1>1. /\ settings'[s] = row /\ \A u \in Setting \ {s} : settings'[u] = settings[u]
      /\ Live(settings)' = {u \in Setting : settings'[u].st = "live"}
      /\ Live(settings) = {u \in Setting : settings[u].st = "live"}
  BY DEF SettingsPlaced, Live
<1>2. FrameWhole'
  BY <1>1 DEF FrameWhole, FrameOn, DaysInOrder
<1>3. GoalWhole'
  BY <1>1 DEF GoalWhole, GoalOn
<1> QED
  BY <1>2, <1>3

\* What LosesNoUpdate says of a step.
NothingLost ==
    \A s \in Live(settings), c \in DOMAIN NoSetting :
        settings'[s].st = "live" /\ settings'[s][c] # settings[s][c] =>
            \E r \in Saving(s) :
               /\ req'[r] # req[r]
               /\ r \notin overtaken =>
                     c \in Part(req[r].op) /\ (c = "achieved" => settings'[s][c])

\* New settings of a metric that has none.
LEMMA SettingsMade ==
    ASSUME SettingsOK, Known \subseteq Known', NEW s \in Unused(settings), NEW row \in SettingRow,
           row.st = "live", row.metric \in Known', ~SettingTaken(row.metric),
           FrameOn(row), DaysInOrder(row), GoalOn(row),
           settings' = [settings EXCEPT ![s] = row], UNCHANGED nulled
    PROVE  /\ SettingsPlaced' /\ FrameWhole' /\ GoalWhole' /\ NothingLost
           /\ \A m : SettingTaken(m) \/ m = row.metric => SettingTaken(m)'
           /\ \A q \in Request : Kept(q)
<1>1. s \in Setting /\ settings[s].st = "none"
  BY DEF SettingsOK, SettingsPlaced, Unused, Made
<1>2. SettingsPlaced' /\ FrameWhole' /\ GoalWhole'
  BY <1>1, SettingWritten, PartsWritten DEF SettingsOK, SettingTaken
<1>3. settings'[s] = row /\ \A u \in Setting \ {s} : settings'[u] = settings[u]
  BY <1>1 DEF SettingsOK, SettingsPlaced
<1>4. NothingLost
  BY <1>1, <1>3 DEF NothingLost, SettingsOK, SettingsPlaced, Live
<1>5. ASSUME NEW m, SettingTaken(m) \/ m = row.metric
      PROVE  \E u \in Live(settings)' : settings'[u].metric = m
  <2>1. Live(settings)' = Live(settings) \cup {s}
    BY <1>1, <1>2, <1>3 DEF SettingsOK, SettingsPlaced, Live
  <2> QED
    BY <1>1, <1>3, <1>5, <2>1 DEF SettingTaken, Live, SettingsOK, SettingsPlaced
<1>6. ASSUME NEW q \in Request, req[q].op \in Saves, Held(q), req'[q] = req[q],
             q \in overtaken => q \in overtaken'
      PROVE  Held(q)'
  <2>1. req[q].row \in Setting \ {s}
    BY <1>1, <1>6 DEF SettingsOK, Asked, Held
  <2> QED
    BY <1>3, <1>6, <2>1, HeldKept
<1> QED
  BY <1>2, <1>4, <1>5, <1>6 DEF SettingTaken, Kept

\* A step that leaves the settings alone, and makes no metric but bare ones.
LEMMA SettingsLeft ==
    ASSUME SettingsOK, MetricsOK, [Next]_vars, UNCHANGED <<settings, nulled>>,
           Live(metrics)' \ bare' \subseteq Live(metrics) \ bare
    PROVE  /\ SettingsPlaced' /\ FrameWhole' /\ GoalWhole' /\ MetricHasSettings'
           /\ NothingLost
           /\ \A q \in Request : Kept(q)
<1>1. Known \subseteq Known'
  BY KnownGrows
<1>2. SettingsPlaced'
  BY <1>1 DEF SettingsOK, SettingsPlaced, Live
<1>3. FrameWhole' /\ GoalWhole'
  BY DEF SettingsOK, FrameWhole, GoalWhole, Live
<1>4. MetricHasSettings'
  BY DEF SettingsOK, MetricHasSettings, SettingTaken, Live
<1>5. NothingLost
  BY DEF NothingLost
<1>6. ASSUME NEW q \in Request, Held(q), req'[q] = req[q],
             q \in overtaken => q \in overtaken'
      PROVE  Held(q)'
  BY <1>6, HeldKept
<1> QED
  BY <1>2, <1>3, <1>4, <1>5, <1>6 DEF Kept

LEMMA DefaultFields ==
    ASSUME NEW m \in Metric \cup {Foreign}
    PROVE  LET row == DefaultSettings(m) IN
           /\ row \in [st : {"live"}, metric : {m}, goalOn : {FALSE}, type : {FALSE},
                       value : {FALSE}, frameOn : {FALSE}, start : {None},
                       deadline : {None}, alertOn : {FALSE}, threshold : {TRUE},
                       achieved : {FALSE}, shown : {TRUE}]
           /\ row \in SettingRow /\ row.st = "live" /\ row.metric = m
           /\ FrameOn(row) /\ DaysInOrder(row) /\ GoalOn(row)
<1> DEFINE row == DefaultSettings(m)
<1>1. row = [NoSetting EXCEPT !.st = "live", !.metric = m, !.threshold = TRUE]
  BY DEF DefaultSettings
<1>2. row \in [st : {"live"}, metric : {m}, goalOn : {FALSE}, type : {FALSE},
               value : {FALSE}, frameOn : {FALSE}, start : {None}, deadline : {None},
               alertOn : {FALSE}, threshold : {TRUE}, achieved : {FALSE}, shown : {TRUE}]
  BY <1>1 DEF NoSetting
<1> HIDE DEF row
<1>3. row \in SettingRow
  BY <1>2 DEF SettingRow
<1> QED
  BY <1>2, <1>3 DEF row, FrameOn, DaysInOrder, GoalOn

LEMMA CommitKeeps ==
    ASSUME SettingsOK, MetricsOK, [Next]_vars, NEW r \in Request, CommitMetric(r)
    PROVE  /\ SettingsPlaced' /\ FrameWhole' /\ GoalWhole' /\ MetricHasSettings'
           /\ NothingLost
           /\ \A q \in Request : Kept(q)
<1>1. UNCHANGED history
  BY DEF CommitMetric
<1>2. CASE UNCHANGED <<metrics, settings>>
  <2>1. Live(metrics)' \ bare' \subseteq Live(metrics) \ bare
    BY <1>1, <1>2 DEF Live, history
  <2> QED
    BY <1>1, <1>2, <2>1, SettingsLeft DEF history
<1>3. CASE ~UNCHANGED <<metrics, settings>>
  <2> DEFINE n == Pick(req[r].arg.name, None)
  <2>0. \E m \in Unused(metrics), s \in Unused(settings) :
           /\ metrics' = [metrics EXCEPT ![m] = [st |-> "live", name |-> n]]
           /\ settings' = [settings EXCEPT ![s] = DefaultSettings(m)]
    BY <1>3 DEF CommitMetric
  <2> HIDE DEF n
  <2>1. PICK m \in Unused(metrics), s \in Unused(settings) :
           /\ metrics' = [metrics EXCEPT ![m] = [st |-> "live", name |-> n]]
           /\ settings' = [settings EXCEPT ![s] = DefaultSettings(m)]
    BY <2>0
  <2> DEFINE row == DefaultSettings(m)
  <2>2. m \in Metric /\ metrics[m].st = "none" /\ m \notin Known
    BY TrackerAssumption DEF MetricsOK, Unused, Made, Known
  <2>3. /\ row \in SettingRow /\ row.st = "live" /\ row.metric = m
        /\ FrameOn(row) /\ DaysInOrder(row) /\ GoalOn(row)
    BY <2>2, DefaultFields
  <2>4. ~SettingTaken(m)
    BY <2>2 DEF SettingTaken, SettingsOK, SettingsPlaced
  <2>5. Known \subseteq Known'
    BY KnownGrows
  <2>6. /\ metrics'[m].st = "live"
        /\ Live(metrics)' = Live(metrics) \cup {m}
        /\ m \in Known'
    BY <2>1, <2>2 DEF MetricsOK, Live, Known, Made
  <2> HIDE DEF row
  <2>7. settings' = [settings EXCEPT ![s] = row] /\ UNCHANGED nulled
    BY <1>1, <2>1 DEF row, history
  <2>8. /\ SettingsPlaced' /\ FrameWhole' /\ GoalWhole' /\ NothingLost
        /\ \A o : SettingTaken(o) \/ o = row.metric => SettingTaken(o)'
        /\ \A q \in Request : Kept(q)
    BY <2>3, <2>4, <2>5, <2>6, <2>7, SettingsMade
  <2>9. MetricHasSettings'
    <3>1. ASSUME NEW o \in Live(metrics)' \ bare'
          PROVE  SettingTaken(o)'
      BY <1>1, <2>3, <2>6, <2>8, <3>1 DEF MetricHasSettings, SettingsOK, history
    <3> QED
      BY <3>1 DEF MetricHasSettings
  <2> QED
    BY <2>8, <2>9
<1> QED
  BY <1>2, <1>3

LEMMA InsertKeeps ==
    ASSUME SettingsOK, MetricsOK, [Next]_vars, NEW r \in Request, InsertSettings(r)
    PROVE  /\ SettingsPlaced' /\ FrameWhole' /\ GoalWhole' /\ MetricHasSettings'
           /\ NothingLost
           /\ \A q \in Request : Kept(q)
<1>1. UNCHANGED <<metrics, nulled>>
  BY DEF InsertSettings
<1>2. CASE UNCHANGED <<settings, bare>>
  <2>1. Live(metrics)' \ bare' \subseteq Live(metrics) \ bare
    BY <1>1, <1>2 DEF Live
  <2> QED
    BY <1>1, <1>2, <2>1, SettingsLeft
<1>3. CASE ~UNCHANGED <<settings, bare>>
  <2> DEFINE m == req[r].row
             b == req[r].arg
             threshold == b.threshold \/ b.alertOn
             row == [DefaultSettings(m) EXCEPT
                       !.goalOn = b.goalOn, !.type = b.type, !.value = b.value,
                       !.frameOn = b.frameOn, !.start = Day(b.start),
                       !.deadline = Day(b.deadline), !.alertOn = b.alertOn,
                       !.threshold = threshold]
  <2>1. /\ DaysInOrder(row) /\ ~SettingTaken(m) /\ bare' = bare \ {m}
        /\ \E s \in Unused(settings) : settings' = [settings EXCEPT ![s] = row]
    BY <1>3 DEF InsertSettings
  <2>2. m \in Known /\ b \in Body /\ BodyAccepted(b)
    BY DEF InsertSettings, At, SettingsOK, Asked
  <2>3. m \in Metric \cup {Foreign}
    BY <2>2 DEF Known, Made, MetricsOK
  <2>4. /\ {b.goalOn, b.type, b.value, b.frameOn, b.alertOn, b.threshold} \subseteq BOOLEAN
        /\ b.start \in Nat \cup {None} /\ b.deadline \in Nat \cup {None}
    BY <2>2, BodyAssumption
  <2> DEFINE default == DefaultSettings(m)
             start == Day(b.start)
             deadline == Day(b.deadline)
  <2>5. default \in [st : {"live"}, metric : {m}, goalOn : {FALSE}, type : {FALSE},
                     value : {FALSE}, frameOn : {FALSE}, start : {None},
                     deadline : {None}, alertOn : {FALSE}, threshold : {TRUE},
                     achieved : {FALSE}, shown : {TRUE}]
    BY <2>3, DefaultFields
  <2>6. row = [default EXCEPT
                 !.goalOn = b.goalOn, !.type = b.type, !.value = b.value,
                 !.frameOn = b.frameOn, !.start = start, !.deadline = deadline,
                 !.alertOn = b.alertOn, !.threshold = threshold]
    OBVIOUS
  <2>7. /\ start \in Nat \cup {None} /\ deadline \in Nat \cup {None}
        /\ b.start # None => start # None
        /\ b.deadline # None => deadline # None
    BY <2>4, DayFacts
  <2> HIDE DEF row, default, start, deadline
  <2>8. row \in [st : {"live"}, metric : {m}, goalOn : {b.goalOn}, type : {b.type},
                 value : {b.value}, frameOn : {b.frameOn}, start : {start},
                 deadline : {deadline}, alertOn : {b.alertOn}, threshold : {threshold},
                 achieved : {FALSE}, shown : {TRUE}]
    BY <2>5, <2>6
  <2>9. row \in SettingRow
    BY <2>3, <2>4, <2>7, <2>8 DEF SettingRow
  <2>10. FrameOn(row) /\ GoalOn(row)
    BY <2>2, <2>4, <2>7, <2>8 DEF FrameOn, GoalOn, BodyAccepted
  <2>11. Known \subseteq Known'
    BY KnownGrows
  <2>12. row.st = "live" /\ row.metric = m
    BY <2>8
  <2> HIDE DEF m
  <2>13. /\ SettingsPlaced' /\ FrameWhole' /\ GoalWhole' /\ NothingLost
         /\ \A o : SettingTaken(o) \/ o = row.metric => SettingTaken(o)'
         /\ \A q \in Request : Kept(q)
    <3>1. PICK s \in Unused(settings) : settings' = [settings EXCEPT ![s] = row]
      BY <2>1
    <3> QED
      BY <1>1, <2>1, <2>2, <2>9, <2>10, <2>11, <2>12, <3>1, SettingsMade
  <2>14. MetricHasSettings'
    <3>1. ASSUME NEW o \in Live(metrics)' \ bare'
          PROVE  SettingTaken(o)'
      BY <1>1, <2>1, <2>12, <2>13, <3>1 DEF MetricHasSettings, SettingsOK, Live
    <3> QED
      BY <3>1 DEF MetricHasSettings
  <2> QED
    BY <2>13, <2>14
<1> QED
  BY <1>2, <1>3

LEMMA SaveKeeps ==
    ASSUME SettingsOK, MetricsOK, [Next]_vars, NEW r \in Request, SaveSettings(r)
    PROVE  /\ SettingsPlaced' /\ FrameWhole' /\ GoalWhole' /\ MetricHasSettings'
           /\ NothingLost
           /\ \A q \in Request \ {r} :
                 Kept(q)
<1>1. UNCHANGED metrics
  BY DEF SaveSettings
<1>2. CASE UNCHANGED <<settings, nulled>>
  <2>1. Live(metrics)' \ bare' \subseteq Live(metrics) \ bare
    BY <1>1 DEF Live, SaveSettings
  <2> QED
    BY <1>2, <2>1, SettingsLeft
<1>3. CASE ~UNCHANGED <<settings, nulled>>
  <2> DEFINE s == req[r].row
             row == req[r].seen
  <2>1. /\ DaysInOrder(row) /\ settings[s].st = "live"
        /\ settings' = [settings EXCEPT ![s] = row]
        /\ overtaken' = (overtaken \cup Saving(s)) \ {r}
        /\ nulled' = IF Nulls(r) THEN nulled \cup {s} ELSE nulled
        /\ UNCHANGED bare
    BY <1>3 DEF SaveSettings
  <2>2. s \in Setting /\ Held(r)
    BY DEF SaveSettings, At, Saves, SettingsOK, Asked
  <2>3. /\ row \in SettingRow /\ row.st = "live" /\ FrameOn(row)
        /\ row.metric = settings[s].metric
        /\ r \notin overtaken => Edits(req[r].op, settings[s], row)
        /\ GoalOn(row) \/ s \in nulled'
        /\ nulled \subseteq nulled'
    BY <2>1, <2>2 DEF Held
  <2>4. s \in Live(settings) /\ Known \subseteq Known'
    BY <2>1, <2>2, KnownGrows DEF Live, SettingsOK, SettingsPlaced
  <2>5. /\ row.metric \in Known'
        /\ \A u \in Live(settings) \ {s} : settings[u].metric # row.metric
    BY <2>3, <2>4 DEF SettingsOK, SettingsPlaced
  <2>6. \A q \in Request \ {r} :
           req[q].op \in Saves /\ Held(q) /\ req[q].row = s => q \in overtaken'
    BY <2>1 DEF Held, Saving, At
  <2> HIDE DEF s, row
  <2>7. SettingsPlaced' /\ FrameWhole' /\ GoalWhole'
    BY <2>1, <2>2, <2>3, <2>4, <2>5, SettingWritten, PartsWritten DEF SettingsOK
  <2>8. settings'[s] = row /\ \A u \in Setting \ {s} : settings'[u] = settings[u]
    BY <2>1, <2>2 DEF SettingsOK, SettingsPlaced
  <2>9. NothingLost
    <3>1. r \in Saving(s) /\ req[r].op \in Saves
      BY DEF SaveSettings, Saving, At, s
    <3>5. req'[r].op \notin Saves
      BY <1>3, Goes DEF SaveSettings, Done, SettingsOK, Saves
    <3>2. req[r].op = "achieve" => row.achieved \/ r \in overtaken
      BY <2>3 DEF Edits
    <3>3. \A c \in DOMAIN NoSetting : row[c] # settings[s][c] /\ r \notin overtaken =>
             c \in Part(req[r].op) /\ (c = "achieved" => row[c])
      BY <2>3, <3>1, <3>2 DEF Edits, Part, Saves
    <3>4. Live(settings) \subseteq Setting
      BY DEF Live, SettingsOK, SettingsPlaced
    <3> QED
      BY <2>8, <3>1, <3>3, <3>4, <3>5 DEF NothingLost
  <2>10. MetricHasSettings'
    <3>1. Live(settings)' = Live(settings) /\ Live(metrics)' = Live(metrics)
      BY <1>1, <2>3, <2>4, <2>7, <2>8 DEF Live, SettingsOK, SettingsPlaced
    <3>2. \A u \in Live(settings) : settings'[u].metric = settings[u].metric
      BY <2>3, <2>8 DEF Live, SettingsOK, SettingsPlaced
    <3> QED
      BY <2>1, <3>1, <3>2 DEF MetricHasSettings, SettingTaken, SettingsOK
  <2>11. ASSUME NEW q \in Request \ {r}, req[q].op \in Saves, Held(q), req'[q] = req[q],
                q \in overtaken => q \in overtaken'
         PROVE  Held(q)'
    <3>1. req[q].row \in Setting
      BY <2>11 DEF SettingsOK, Asked
    <3> QED
      BY <2>1, <2>3, <2>6, <2>8, <2>11, <3>1, HeldKept
  <2> QED
    BY <2>7, <2>9, <2>10, <2>11 DEF Kept
<1> QED
  BY <1>2, <1>3

LEMMA DestroyKeeps ==
    ASSUME SettingsOK, MetricsOK, [Next]_vars, NEW r \in Request, DestroySettings(r)
    PROVE  /\ SettingsPlaced' /\ FrameWhole' /\ GoalWhole' /\ MetricHasSettings'
           /\ NothingLost
           /\ \A q \in Request : Kept(q)
<1> DEFINE s == req[r].row
           row == [NoSetting EXCEPT !.st = "deleted"]
<1>1. /\ UNCHANGED <<metrics, nulled>>
      /\ settings' = [settings EXCEPT ![s] = row]
      /\ bare' = bare \cup ({settings[s].metric} \ {None})
  BY DEF DestroySettings
<1>2. row \in SettingRow /\ row.st = "deleted" /\ ~row.achieved
  BY DEF NoSetting, SettingRow
<1> HIDE DEF s, row
<1>3. CASE s \notin Setting
  <2>1. UNCHANGED settings
    BY <1>1, <1>3 DEF SettingsOK, SettingsPlaced
  <2>2. Live(metrics)' \ bare' \subseteq Live(metrics) \ bare
    BY <1>1 DEF Live
  <2> QED
    BY <1>1, <2>1, <2>2, SettingsLeft
<1>4. CASE s \in Setting
  <2>1. Known \subseteq Known'
    BY KnownGrows
  <2>2. SettingsPlaced' /\ FrameWhole' /\ GoalWhole'
    BY <1>1, <1>2, <1>4, <2>1, SettingWritten, PartsWritten DEF SettingsOK
  <2>3. settings'[s] = row /\ \A u \in Setting \ {s} : settings'[u] = settings[u]
    BY <1>1, <1>4 DEF SettingsOK, SettingsPlaced
  <2>4. NothingLost
    BY <1>2, <2>3 DEF NothingLost, Live, SettingsOK, SettingsPlaced
  <2>5. MetricHasSettings'
    <3>1. Live(settings)' = Live(settings) \ {s} /\ Live(metrics)' = Live(metrics)
      BY <1>1, <1>2, <2>2, <2>3 DEF Live, SettingsOK, SettingsPlaced
    <3>2. None \notin Live(metrics)
      BY TrackerAssumption DEF MetricsOK, Live
    <3>3. Live(settings) \subseteq Setting
      BY DEF Live, SettingsOK, SettingsPlaced
    <3> QED
      BY <1>1, <2>3, <3>1, <3>2, <3>3 DEF MetricHasSettings, SettingTaken, SettingsOK
  <2>6. ASSUME NEW q \in Request, req[q].op \in Saves, Held(q), req'[q] = req[q],
               q \in overtaken => q \in overtaken'
        PROVE  Held(q)'
    <3>1. req[q].row \in Setting
      BY <2>6 DEF SettingsOK, Asked
    <3> QED
      BY <1>1, <1>2, <2>3, <2>6, <3>1, HeldKept
  <2> QED
    BY <2>2, <2>4, <2>5, <2>6 DEF Kept
<1> QED
  BY <1>3, <1>4

\* A request that comes, or reads settings, writes nothing.
LEMMA WritesNothing ==
    ASSUME NEW r \in Request, Arrive(r) \/ FindSettings(r)
    PROVE  UNCHANGED <<tables, history>>
BY DEF Arrive, CreateCategory, UpdateCategory, DeleteCategory, DummyCategories,
     CreateMetric, UpdateMetric, DeleteMetric, DummyMetrics, CreateLog, UpdateLog,
     DeleteLog, DummyLogs, CreateSettings, UpdateSettings, AchieveGoal, UpdateDisplay,
     DeleteSettings, Begin, FindSettings

LEMMA SettingsNext ==
    SettingsOK /\ MetricsOK /\ [Next]_vars => SettingsOK' /\ NothingLost
<1> SUFFICES ASSUME SettingsOK, MetricsOK, [Next]_vars
             PROVE  SettingsOK' /\ NothingLost
  OBVIOUS
<1> DEFINE Whole == SettingsPlaced' /\ FrameWhole' /\ GoalWhole' /\ MetricHasSettings'
<1>1. ASSUME NEW r \in Request, Arrive(r) \/ Statement(r), Whole, NothingLost,
             \A q \in Request \ {r} : Kept(q)
      PROVE  SettingsOK' /\ NothingLost
  <2>1. ReqOK' /\ \A q \in Request : Asked(q)'
    BY <1>1, KnownGrows, WritesNothing, AskedNext
  <2> QED
    BY <1>1, <2>1 DEF SettingsOK
<1>2. CASE UNCHANGED vars
  <2>1. Live(metrics)' \ bare' \subseteq Live(metrics) \ bare
    BY <1>2 DEF Live, vars
  <2>2. Whole /\ NothingLost /\ \A q \in Request : Kept(q)
    BY <1>2, <2>1, SettingsLeft DEF vars
  <2>3. Known \subseteq Known'
    BY KnownGrows
  <2>4. ASSUME NEW q \in Request PROVE Asked(q)'
    BY <1>2, <2>2, <2>3, <2>4, AskedKept DEF vars, SettingsOK, Asked, Kept
  <2>5. ReqOK'
    BY <1>2 DEF vars, ReqOK, SettingsOK
  <2> QED
    BY <2>2, <2>4, <2>5 DEF SettingsOK
<1>3. CASE \E r \in Request : \/ CommitMetric(r) \/ InsertSettings(r)
                              \/ SaveSettings(r) \/ DestroySettings(r)
  <2>1. PICK r \in Request : \/ CommitMetric(r) \/ InsertSettings(r)
                             \/ SaveSettings(r) \/ DestroySettings(r)
    BY <1>3
  <2>2. Whole /\ NothingLost /\ \A q \in Request \ {r} : Kept(q)
    BY <2>1, CommitKeeps, InsertKeeps, SaveKeeps, DestroyKeeps
  <2>3. Statement(r)
    BY <2>1 DEF Statement
  <2> QED
    BY <1>1, <2>2, <2>3
<1>4. CASE /\ Next
           /\ ~\E r \in Request : \/ CommitMetric(r) \/ InsertSettings(r)
                                  \/ SaveSettings(r) \/ DestroySettings(r)
  <2>1. UNCHANGED <<settings, nulled>>
        /\ (UNCHANGED bare \/ \E r \in Request : CommitBatch(r))
    BY <1>4, Writers DEF history, CommitBatch
  <2>2. Live(metrics)' \ bare' \subseteq Live(metrics) \ bare
    <3>1. CASE UNCHANGED metrics
      <4>1. bare \subseteq bare'
        BY <2>1, <3>1 DEF CommitBatch
      <4> QED
        BY <3>1, <4>1 DEF Live
    <3>2. CASE \E r \in Request : CommitBatch(r) /\ ~UNCHANGED metrics
      <4>1. PICK n \in Word, m \in Unused(metrics) :
               /\ metrics' = [metrics EXCEPT ![m] = [st |-> "live", name |-> n]]
               /\ bare' = bare \cup {m}
        BY <3>2 DEF CommitBatch
      <4> QED
        BY <4>1 DEF Live, MetricsOK
    <3>3. CASE \E r \in Request : SaveMetric(r) /\ ~UNCHANGED metrics
      <4>1. PICK r \in Request : SaveMetric(r) /\ ~UNCHANGED metrics
        BY <3>3
      <4> DEFINE m == req[r].row
                 name == Pick(req[r].seen.write, metrics[m].name)
                 row == [metrics[m] EXCEPT !.name = name]
      <4>2. /\ m \in Live(metrics) /\ metrics' = [metrics EXCEPT ![m] = row]
            /\ UNCHANGED bare
        BY <4>1 DEF SaveMetric, history
      <4> HIDE DEF m, row
      <4> QED
        BY <4>2 DEF Live, MetricsOK
    <3>4. CASE \E r \in Request : DestroyMetric(r)
      <4>1. PICK r \in Request : DestroyMetric(r)
        BY <3>4
      <4> DEFINE row == [NoMetric EXCEPT !.st = "deleted"]
      <4>2. metrics' = [metrics EXCEPT ![req[r].row] = row] /\ UNCHANGED bare
        BY <4>1 DEF DestroyMetric, history
      <4>3. row.st = "deleted"
        BY DEF NoMetric
      <4> HIDE DEF row
      <4> QED
        BY <4>2, <4>3 DEF Live, MetricsOK
    <3> QED
      BY <1>4, <3>1, <3>2, <3>3, <3>4, Writers
  <2>3. Whole /\ NothingLost /\ \A q \in Request : Kept(q)
    BY <2>1, <2>2, SettingsLeft
  <2>4. PICK r \in Request : Arrive(r) \/ Statement(r)
    BY <1>4 DEF Next
  <2> QED
    BY <1>1, <2>3, <2>4
<1> QED
  BY <1>2, <1>3, <1>4

-----------------------------------------------------------------------------
(* Answers.  Every status a statement can end a request with is one the     *)
(* OpenAPI document lists for the operation, or one of those it leaves out. *)

Lists(op, status) == <<op, status>> \in Documented \cup Unlisted

LEMMA ListsPaths ==
    ASSUME NEW group \in {Categories, CategoryById, Metrics, MetricById, Logs, LogById,
                          Dummies, Settings, SettingById, SettingParts},
           NEW op, NEW status, <<op, status>> \in group
    PROVE  Lists(op, status)
BY DEF Lists, Documented, Paths

LEMMA ListsCategories ==
    /\ \A status \in {201, 409, 500} : Lists("createCategory", status)
    /\ \A status \in {200, 404, 409, 500} : Lists("updateCategory", status)
    /\ \A status \in {200, 404, 500} : Lists("deleteCategory", status)
    /\ \A status \in {201, 409, 500} : Lists("dummyCategories", status)
<1>1. \A status \in {201, 409, 500} : <<"createCategory", status>> \in Categories
  BY DEF Categories, Path
<1>2. /\ \A status \in {200, 404, 409, 500} : <<"updateCategory", status>> \in CategoryById
      /\ \A status \in {200, 404, 500} : <<"deleteCategory", status>> \in CategoryById
  BY DEF CategoryById, Path, Missing
<1>3. \A status \in {201, 500} : <<"dummyCategories", status>> \in Dummies
  BY DEF Dummies, Path
<1>4. Lists("dummyCategories", 409)
  BY DEF Lists, Unlisted
<1> QED
  BY <1>1, <1>2, <1>3, <1>4, ListsPaths

LEMMA ListsMetrics ==
    /\ \A status \in {201, 404, 409, 500} : Lists("createMetric", status)
    /\ \A status \in {200, 404, 409, 500} : Lists("updateMetric", status)
    /\ \A status \in {200, 404, 500} : Lists("deleteMetric", status)
    /\ \A status \in {201, 409, 500} : Lists("dummyMetrics", status)
<1>1. \A status \in {201, 404, 409, 500} : <<"createMetric", status>> \in Metrics
  BY DEF Metrics, Path, Missing
<1>2. /\ \A status \in {200, 404, 409, 500} : <<"updateMetric", status>> \in MetricById
      /\ \A status \in {200, 404, 500} : <<"deleteMetric", status>> \in MetricById
  BY DEF MetricById, Path, Missing
<1>3. \A status \in {201, 500} : <<"dummyMetrics", status>> \in Dummies
  BY DEF Dummies, Path
<1>4. Lists("dummyMetrics", 409)
  BY DEF Lists, Unlisted
<1> QED
  BY <1>1, <1>2, <1>3, <1>4, ListsPaths

LEMMA ListsLogs ==
    /\ \A status \in {201, 403, 404, 409, 500} : Lists("createLog", status)
    /\ \A status \in {200, 404, 409, 500} : Lists("updateLog", status)
    /\ \A status \in {200, 404, 500} : Lists("deleteLog", status)
    /\ \A status \in {202, 403, 404, 409, 500} : Lists("dummyLogs", status)
<1>1. \A status \in {201, 404, 409, 500} : <<"createLog", status>> \in Logs
  BY DEF Logs, Path, Missing
<1>2. /\ \A status \in {200, 404, 409, 500} : <<"updateLog", status>> \in LogById
      /\ \A status \in {200, 404, 500} : <<"deleteLog", status>> \in LogById
  BY DEF LogById, Path, Missing
<1>3. \A status \in {202, 403, 500} : <<"dummyLogs", status>> \in Dummies
  BY DEF Dummies, Path
<1>4. Lists("createLog", 403) /\ Lists("dummyLogs", 404) /\ Lists("dummyLogs", 409)
  BY DEF Lists, Unlisted
<1> QED
  BY <1>1, <1>2, <1>3, <1>4, ListsPaths

LEMMA ListsSettings ==
    /\ \A status \in {201, 403, 404, 409, 500} : Lists("createSettings", status)
    /\ \A status \in {200, 400, 404, 500} : Lists("updateSettings", status)
    /\ \A op \in {"deleteSettings", "achieve", "display"}, status \in {200, 404, 500} :
         Lists(op, status)
<1>1. \A status \in {201, 404, 409, 500} : <<"createSettings", status>> \in Settings
  BY DEF Settings, Path, Missing
<1>2. /\ \A status \in {200, 400, 404, 500} : <<"updateSettings", status>> \in SettingById
      /\ \A status \in {200, 404, 500} : <<"deleteSettings", status>> \in SettingById
  BY DEF SettingById, Path, Client
<1>3. \A op \in {"achieve", "display"}, status \in {200, 404, 500} :
         <<op, status>> \in SettingParts
  BY DEF SettingParts, Path
<1>4. Lists("createSettings", 403)
  BY DEF Lists, Unlisted
<1> QED
  BY <1>1, <1>2, <1>3, <1>4, ListsPaths

\* The operations of the model.
Writes ==
    {"createCategory", "updateCategory", "deleteCategory", "dummyCategories",
     "createMetric", "updateMetric", "deleteMetric", "dummyMetrics",
     "createLog", "updateLog", "deleteLog", "dummyLogs",
     "createSettings", "updateSettings", "deleteSettings", "achieve", "display"}

OpsKnown == \A r \in Request : req[r] = Idle \/ req[r].op \in Writes

\* What a request is answered.
Answered(r) ==
    answer' = None \/ \E status : answer' = <<req[r].op, status>> /\ Lists(req[r].op, status)

\* A statement that goes on, or answers with one of the statuses.
Ends(r, statuses) == answer' = None \/ \E status \in statuses : Answer(r, status)

LEMMA AnswerListed ==
    ASSUME NEW r, NEW statuses, Ends(r, statuses),
           \A status \in statuses : Lists(req[r].op, status)
    PROVE  Answered(r)
BY DEF Ends, Answer, Answered

LEMMA AnswersOfCategories ==
    ASSUME NEW r \in Request,
           \/ FindCategory(r) \/ CategoryName(r) \/ InsertCategory(r) \/ RefindCategory(r)
           \/ SaveCategory(r) \/ DestroyCategory(r)
    PROVE  Answered(r)
<1>1. CASE FindCategory(r)
  <2>1. req[r].op \in {"updateCategory", "deleteCategory"} /\ Ends(r, {404})
    BY <1>1 DEF FindCategory, At, Require, Continue, Hold, Done, Ends
  <2> QED
    BY <2>1, ListsCategories, AnswerListed
<1>2. CASE CategoryName(r)
  <2>1. req[r].op \in {"createCategory", "updateCategory"} /\ Ends(r, {409})
    BY <1>2 DEF CategoryName, At, Require, Continue, Hold, Done, Ends
  <2> QED
    BY <2>1, ListsCategories, AnswerListed
<1>3. CASE InsertCategory(r)
  <2>1. req[r].op \in {"createCategory", "dummyCategories"} /\ Ends(r, {201, 409, 500})
    BY <1>3 DEF InsertCategory, At, Require, Continue, Hold, Done, Ends
  <2> QED
    BY <2>1, ListsCategories, AnswerListed
<1>4. CASE RefindCategory(r) \/ SaveCategory(r)
  <2>1. req[r].op = "updateCategory" /\ Ends(r, {200, 409, 500})
    BY <1>4 DEF RefindCategory, SaveCategory, At, Require, Continue, Hold, Done, Ends
  <2> QED
    BY <2>1, ListsCategories, AnswerListed
<1>5. CASE DestroyCategory(r)
  <2>1. req[r].op = "deleteCategory" /\ Ends(r, {200, 500})
    BY <1>5 DEF DestroyCategory, At, Require, Continue, Hold, Done, Ends
  <2> QED
    BY <2>1, ListsCategories, AnswerListed
<1> QED
  BY <1>1, <1>2, <1>3, <1>4, <1>5

LEMMA AnswersOfMetrics ==
    ASSUME NEW r \in Request,
           \/ FindMetric(r) \/ MetricName(r) \/ CategoryExists(r) \/ OriginalExists(r)
           \/ CommitMetric(r) \/ CommitBatch(r) \/ RefindMetric(r) \/ SaveMetric(r)
           \/ DestroyMetric(r)
    PROVE  Answered(r)
<1>1. CASE FindMetric(r)
  <2>1. req[r].op \in {"updateMetric", "deleteMetric"} /\ Ends(r, {404})
    BY <1>1 DEF FindMetric, At, Require, Continue, Hold, Done, Ends
  <2> QED
    BY <2>1, ListsMetrics, AnswerListed
<1>2. CASE MetricName(r)
  <2>1. req[r].op \in {"createMetric", "updateMetric"} /\ Ends(r, {409})
    BY <1>2 DEF MetricName, At, Require, Continue, Hold, Done, Ends
  <2> QED
    BY <2>1, ListsMetrics, AnswerListed
<1>3. CASE CategoryExists(r) \/ OriginalExists(r)
  <2>1. req[r].op \in {"createMetric", "updateMetric"} /\ Ends(r, {404})
    BY <1>3 DEF CategoryExists, OriginalExists, At, Require, Continue, Hold, Done, Ends
  <2> QED
    BY <2>1, ListsMetrics, AnswerListed
<1>4. CASE CommitMetric(r)
  <2>1. req[r].op = "createMetric" /\ Ends(r, {201, 409})
    BY <1>4 DEF CommitMetric, At, Require, Continue, Hold, Done, Ends
  <2> QED
    BY <2>1, ListsMetrics, AnswerListed
<1>5. CASE CommitBatch(r)
  <2>1. req[r].op = "dummyMetrics" /\ Ends(r, {201, 409})
    BY <1>5 DEF CommitBatch, At, Require, Continue, Hold, Done, Ends
  <2> QED
    BY <2>1, ListsMetrics, AnswerListed
<1>6. CASE RefindMetric(r)
  <2>1. req[r].op \in {"updateMetric", "deleteMetric"} /\ Ends(r, {404})
    BY <1>6 DEF RefindMetric, At, Require, Continue, Hold, Done, Ends
  <2> QED
    BY <2>1, ListsMetrics, AnswerListed
<1>7. CASE SaveMetric(r)
  <2>1. req[r].op = "updateMetric" /\ Ends(r, {200, 404, 409})
    BY <1>7 DEF SaveMetric, At, Require, Continue, Hold, Done, Ends
  <2> QED
    BY <2>1, ListsMetrics, AnswerListed
<1>8. CASE DestroyMetric(r)
  <2>1. req[r].op = "deleteMetric" /\ Ends(r, {200})
    BY <1>8 DEF DestroyMetric, At, Require, Continue, Hold, Done, Ends
  <2> QED
    BY <2>1, ListsMetrics, AnswerListed
<1> QED
  BY <1>1, <1>2, <1>3, <1>4, <1>5, <1>6, <1>7, <1>8

LEMMA AnswersOfLogs ==
    ASSUME NEW r \in Request,
           \/ Access(r) \/ FindLog(r) \/ LogTimestamp(r) \/ SaveLog(r)
           \/ DestroyLog(r)
    PROVE  Answered(r)
<1>1. CASE Access(r)
  <2>1. req[r].op \in {"createLog", "dummyLogs", "createSettings"} /\ Ends(r, {403, 404})
    BY <1>1 DEF Access, At, Require, Continue, Hold, Done, Ends
  <2> QED
    BY <2>1, ListsLogs, ListsSettings, AnswerListed
<1>2. CASE FindLog(r)
  <2>1. req[r].op \in {"updateLog", "deleteLog"} /\ Ends(r, {404})
    BY <1>2 DEF FindLog, At, Require, Continue, Hold, Done, Ends
  <2> QED
    BY <2>1, ListsLogs, ListsSettings, AnswerListed
<1>3. CASE LogTimestamp(r)
  <2>1. req[r].op \in {"createLog", "updateLog"} /\ Ends(r, {409})
    BY <1>3 DEF LogTimestamp, At, Require, Continue, Hold, Done, Ends
  <2> QED
    BY <2>1, ListsLogs, ListsSettings, AnswerListed
<1>4. CASE SaveLog(r)
  <2>1. req[r].op = "updateLog" /\ Ends(r, {200, 404, 409, 500})
    BY <1>4 DEF SaveLog, At, Require, Continue, Hold, Done, Ends
  <2> QED
    BY <2>1, ListsLogs, ListsSettings, AnswerListed
<1>5. CASE DestroyLog(r)
  <2>1. req[r].op = "deleteLog" /\ Ends(r, {200, 500})
    BY <1>5 DEF DestroyLog, At, Require, Continue, Hold, Done, Ends
  <2> QED
    BY <2>1, ListsLogs, ListsSettings, AnswerListed
<1> QED
  BY <1>1, <1>2, <1>3, <1>4, <1>5

LEMMA AnswersOfSettings ==
    ASSUME NEW r \in Request,
           \/ FindForMetric(r) \/ InsertSettings(r) \/ SaveSettings(r) \/ DestroySettings(r)
    PROVE  Answered(r)
<1>1. CASE FindForMetric(r)
  <2>1. req[r].op = "createSettings" /\ Ends(r, {409})
    BY <1>1 DEF FindForMetric, At, Require, Continue, Hold, Done, Ends
  <2> QED
    BY <2>1, ListsSettings, AnswerListed
<1>2. CASE InsertSettings(r)
  <2>1. req[r].op = "createSettings" /\ Ends(r, {201, 409, 500})
    BY <1>2 DEF InsertSettings, At, Require, Continue, Hold, Done, Ends
  <2> QED
    BY <2>1, ListsSettings, AnswerListed
<1>3. CASE SaveSettings(r)
  <2>1. req[r].op \in {"updateSettings", "achieve", "display"} /\ Ends(r, {200, 404, 500})
    BY <1>3 DEF SaveSettings, At, Saves, Require, Continue, Hold, Done, Ends
  <2> QED
    BY <2>1, ListsSettings, AnswerListed
<1>4. CASE DestroySettings(r)
  <2>1. req[r].op = "deleteSettings" /\ Ends(r, {200, 500})
    BY <1>4 DEF DestroySettings, At, Require, Continue, Hold, Done, Ends
  <2> QED
    BY <2>1, ListsSettings, AnswerListed
<1> QED
  BY <1>1, <1>2, <1>3, <1>4


LEMMA AnswersOfInserts == ASSUME NEW r \in Request, InsertLog(r) PROVE Answered(r)
<1>1. CASE req[r].op = "createLog"
  <2>1. Ends(r, {201, 409, 500})
    BY <1>1 DEF InsertLog, Done, Ends
  <2> QED
    BY <1>1, <2>1, ListsLogs, AnswerListed
<1>2. CASE req[r].op = "dummyLogs"
  <2>1. Ends(r, {202, 409, 500})
    BY <1>2 DEF InsertLog, Done, Ends
  <2> QED
    BY <1>2, <2>1, ListsLogs, AnswerListed
<1> QED
  BY <1>1, <1>2 DEF InsertLog, At

LEMMA AnswersOfFinds == ASSUME NEW r \in Request, FindSettings(r) PROVE Answered(r)
<1>1. CASE req[r].op = "updateSettings"
  <2>1. Ends(r, {400, 404})
    BY <1>1 DEF FindSettings, Continue, Hold, Ends
  <2> QED
    BY <1>1, <2>1, ListsSettings, AnswerListed
<1>2. CASE req[r].op \in {"achieve", "display", "deleteSettings"}
  <2>1. Ends(r, {404})
    BY <1>2 DEF FindSettings, Continue, Hold, Ends
  <2> QED
    BY <1>2, <2>1, ListsSettings, AnswerListed
<1> QED
  BY <1>1, <1>2 DEF FindSettings, At

\* Any statement can fail, and every operation lists the 500.
LEMMA StatementAnswers ==
    ASSUME OpsKnown, NEW r \in Request, Statement(r)
    PROVE  Answered(r)
<1>1. CASE Fails(r)
  <2>1. req[r].op \in Writes /\ Ends(r, {500})
    BY <1>1 DEF Fails, OpsKnown, Ends
  <2>2. Lists(req[r].op, 500)
    BY <2>1, ListsCategories, ListsMetrics, ListsLogs, ListsSettings DEF Writes
  <2> QED
    BY <2>1, <2>2, AnswerListed
<1> QED
  BY <1>1, AnswersOfCategories, AnswersOfMetrics, AnswersOfLogs, AnswersOfInserts,
     AnswersOfSettings, AnswersOfFinds DEF Statement

LEMMA ArrivalBegins ==
    ASSUME NEW r \in Request, Arrive(r)
    PROVE  \E op \in Writes : \E todo, row, arg : Begin(r, op, todo, row, arg)
BY DEF Arrive, CreateCategory, UpdateCategory, DeleteCategory, DummyCategories,
       CreateMetric, UpdateMetric, DeleteMetric, DummyMetrics, CreateLog, UpdateLog,
       DeleteLog, DummyLogs, CreateSettings, UpdateSettings, AchieveGoal, UpdateDisplay,
       DeleteSettings, Writes

\* A statement ends its request or leaves it the operation it has.
Stays(r) == req'[r] = Idle \/ req'[r].op \in Writes

LEMMA StatementStays ==
    ASSUME ReqOK, NEW r \in Request, Statement(r)
    PROVE  Stays(r)
<1>1. \A status : Answer(r, status) => Stays(r)
  BY DEF Answer, ReqOK, Stays
<1>2. \A status : Done(r, status) => Stays(r)
  BY <1>1 DEF Done
<1>3. Continue(r) => req'[r].op = req[r].op
  BY Goes
<1>4. \A entity, rest : Hold(r, entity, rest) => req'[r].op = req[r].op
  BY Goes
<1>5. \A u : req' = [req EXCEPT ![r].arg = u] => req'[r].op = req[r].op
  BY Goes
<1>6. CASE FindCategory(r) \/ CategoryName(r) \/ RefindCategory(r)
  BY <1>1, <1>3, <1>4, <1>6 DEF FindCategory, CategoryName, RefindCategory, At, Require,
     Writes, Stays
<1>7. CASE InsertCategory(r) \/ SaveCategory(r) \/ DestroyCategory(r)
  BY <1>1, <1>2, <1>5, <1>7 DEF InsertCategory, SaveCategory, DestroyCategory, At,
     Writes, Stays
<1>8. CASE FindMetric(r) \/ MetricName(r) \/ CategoryExists(r) \/ OriginalExists(r)
           \/ RefindMetric(r)
  BY <1>1, <1>3, <1>4, <1>8 DEF FindMetric, MetricName, CategoryExists, OriginalExists,
     RefindMetric, At, Require, Writes, Stays
<1>9. CASE CommitMetric(r) \/ CommitBatch(r) \/ SaveMetric(r) \/ DestroyMetric(r)
  BY <1>1, <1>9 DEF CommitMetric, CommitBatch, SaveMetric, DestroyMetric
<1>10. CASE FindLog(r) \/ LogTimestamp(r) \/ Access(r) \/ FindForMetric(r)
  BY <1>1, <1>3, <1>4, <1>10 DEF FindLog, LogTimestamp, Access, FindForMetric, At, Require,
     Writes, Stays
<1>11. CASE InsertLog(r) \/ SaveLog(r) \/ DestroyLog(r)
  BY <1>1, <1>2, <1>5, <1>11 DEF InsertLog, SaveLog, DestroyLog, At, Writes, Stays
<1>12. CASE FindSettings(r)
  BY <1>1, <1>3, <1>4, <1>12 DEF FindSettings, At, Writes, Stays
<1>13. CASE InsertSettings(r) \/ SaveSettings(r) \/ DestroySettings(r) \/ Fails(r)
  BY <1>1, <1>2, <1>13 DEF InsertSettings, SaveSettings, DestroySettings, Fails
<1> QED
  BY <1>6, <1>7, <1>8, <1>9, <1>10, <1>11, <1>12, <1>13 DEF Statement

LEMMA OpsNext == Inv /\ OpsKnown /\ [Next]_vars => OpsKnown'
<1> SUFFICES ASSUME Inv, OpsKnown, [Next]_vars PROVE OpsKnown'
  OBVIOUS
<1>1. ReqOK /\ SettingsPlaced
  BY DEF Inv, SettingsOK
<1>2. ASSUME NEW r \in Request, Arrive(r) PROVE OpsKnown'
  <2>1. PICK op \in Writes : \E todo, row, arg : Begin(r, op, todo, row, arg)
    BY <1>2, ArrivalBegins
  <2>2. Others(r) /\ req'[r].op = op
    BY <1>1, <2>1, Goes
  <2> QED
    BY <2>2 DEF OpsKnown, Others
<1>3. ASSUME NEW r \in Request, Statement(r) PROVE OpsKnown'
  <2>1. Others(r) /\ Stays(r)
    BY <1>1, <1>3, Statements, StatementStays
  <2> QED
    BY <2>1 DEF OpsKnown, Others, Stays
<1>4. CASE UNCHANGED vars
  BY <1>4 DEF OpsKnown, vars
<1> QED
  BY <1>2, <1>3, <1>4 DEF Next

\* A step answers what is listed for its operation, or nothing.
LEMMA NextAnswers ==
    OpsKnown /\ [Next]_vars =>
        [answer' # None => answer' \in Documented \cup Unlisted]_vars
<1> SUFFICES ASSUME OpsKnown, Next PROVE answer' # None => answer' \in Documented \cup Unlisted
  OBVIOUS
<1>1. ASSUME NEW r \in Request, Arrive(r) PROVE answer' = None
  BY <1>1, ArrivalBegins DEF Begin
<1>2. ASSUME NEW r \in Request, Statement(r) PROVE Answered(r)
  BY <1>2, StatementAnswers
<1> QED
  BY <1>1, <1>2 DEF Next, Answered, Lists

-----------------------------------------------------------------------------
LEMMA InitInv == Init => Inv
<1> SUFFICES ASSUME Init PROVE Inv
  OBVIOUS
<1>1. /\ DOMAIN cats = Category /\ DOMAIN metrics = Metric
      /\ DOMAIN logs = Log /\ DOMAIN settings = Setting
  BY DEF Init
<1>2. /\ Live(cats) = {} /\ Live(metrics) = {} /\ Live(logs) = {} /\ Live(settings) = {}
  BY <1>1 DEF Init, Live, NoCategory, NoMetric, NoLog, NoSetting
<1>3. CatsOK /\ MetricsOK /\ LogsOK
  BY <1>2 DEF Init, CatsOK, MetricsOK, LogsOK, NoCategory, NoMetric, NoLog
<1>4. NoSetting \in SettingRow /\ ~NoSetting.achieved
  BY DEF NoSetting, SettingRow
<1>5. SettingsPlaced
  BY <1>2, <1>4 DEF Init, SettingsPlaced
<1>6. FrameWhole /\ GoalWhole /\ MetricHasSettings
  BY <1>2 DEF FrameWhole, GoalWhole, MetricHasSettings
<1>7. ReqOK /\ \A r \in Request : Asked(r)
  BY DEF Init, ReqOK, Asked, Idle, Saves
<1> QED
  BY <1>3, <1>5, <1>6, <1>7 DEF Inv, SettingsOK

LEMMA Inductive == Spec => []Inv
<1>1. Inv /\ [Next]_vars => Inv'
  BY CatsNext, MetricsNext, LogsNext, SettingsNext DEF Inv
<1> QED
  BY <1>1, InitInv, PTL DEF Spec

\* Whatever requests run between a use case's check and its statement: no two
\* live categories or metrics of one name, no two logs of a metric and a
\* timestamp, no two settings of a metric (uq_metric_categories_user_name,
\* uq_metrics_user_name, uq_metric_logs_metric_id_logged_at and
\* uq_metric_settings_metric).
THEOREM IndexesHold == Spec => []NoDuplicates
<1>1. Inv => NoDuplicates
  BY DEF Inv, CatsOK, MetricsOK, LogsOK, SettingsOK, SettingsPlaced, NoDuplicates
<1> QED
  BY <1>1, Inductive, PTL

\* A live metric has settings: CreateMetric makes both in one transaction, and
\* only a dummy, or a DELETE of the settings, leaves a metric without.
THEOREM SettingsComeAlong == Spec => []MetricHasSettings
<1>1. Inv => MetricHasSettings
  BY DEF Inv, SettingsOK
<1> QED
  BY <1>1, Inductive, PTL

\* The parts of settings agree after any partial updates, whatever saves overlap:
\* each saves an entity whole, and updateDetails keeps a whole entity whole.
THEOREM SettingsAgree == Spec => []SettingsWhole
<1>1. Inv => SettingsWhole
  BY DEF Inv, SettingsOK, SettingsWhole
<1> QED
  BY <1>1, Inductive, PTL

\* A save changes what its request was asked to change and nothing else, although it
\* writes the whole copy the request has read, unless another save of the row came
\* in between: what that one changed is lost then.
THEOREM UpdatesKept == Spec => LosesNoUpdate
<1>1. Inv /\ [Next]_vars =>
        [\A s \in Live(settings), c \in DOMAIN NoSetting :
           settings'[s].st = "live" /\ settings'[s][c] # settings[s][c] =>
               \E r \in Saving(s) :
                  /\ req'[r] # req[r]
                  /\ r \notin overtaken =>
                        c \in Part(req[r].op) /\ (c = "achieved" => settings'[s][c])]_vars
  BY SettingsNext DEF Inv, NothingLost
<1> QED
  BY <1>1, Inductive, PTL DEF Spec, LosesNoUpdate

\* Whatever ran between a request's statements, it is answered a status that
\* openapi-docs.ts lists for its operation, or one of the six it leaves out.
THEOREM AnswersAreListed == Spec => AnswersDocumented
<1>1. Init => OpsKnown
  BY DEF Init, OpsKnown
<1>2. Spec => []OpsKnown
  BY <1>1, OpsNext, Inductive, PTL DEF Spec
<1> QED
  BY <1>2, NextAnswers, PTL DEF Spec, AnswersDocumented
=============================================================================
