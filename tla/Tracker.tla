------------------------------ MODULE Tracker ------------------------------
(***************************************************************************)
(* What a user keeps: categories, metrics, their logs and their settings,  *)
(* and the requests that write them (features/public: the use cases of     *)
(* metric, metric-category, metric-log and metric-settings over their      *)
(* Sequelize repositories). A step is one database statement. No request   *)
(* but CreateMetric and GenerateDummyMetrics runs in a transaction, so     *)
(* what a use case has checked may be gone at its next statement.          *)
(*                                                                         *)
(* One user, in one organization. Foreign is a metric of another member.   *)
(* Of a row's columns those are kept that a check, an index or another     *)
(* row depends on.                                                         *)
(***************************************************************************)
EXTENDS Naturals, Sequences, FiniteSets, Contract

CONSTANTS
    Category, Metric, Log, Setting,   \* row ids, used as they are created
    Word,         \* names of metrics, as lower(name) has them
    Name,         \* names of categories: a word, and the way it is written
    Moment,       \* the timestamps a log can have
    Body, Patch,  \* bodies of POST and PUT /metric-settings
    Request,      \* requests at once
    MaxCalls,     \* requests in a behaviour
    Foreign,      \* another member's metric
    None

ASSUME TrackerAssumption ==
    /\ Foreign \notin Metric
    /\ None \notin Category \cup Metric \cup Log \cup {Foreign}
    /\ Name \subseteq Word \X {"lower", "upper"}
    /\ MaxCalls \in Nat

VARIABLES
    cats,         \* metric_categories
    metrics,      \* metrics
    logs,         \* metric_logs
    settings,     \* metric_settings
    req,          \* where each request is
    calls,        \* how many requests have come
    answer,       \* the answer the last step sent: operation and status
    overtaken,    \* history: requests whose settings another has saved since they
                  \* read them
    nulled,       \* history: settings a PUT cleared part of a goal or an alert of
    bare          \* history: metrics whose settings were deleted, or never made

tables == <<cats, metrics, logs, settings>>
history == <<overtaken, nulled, bare>>
vars == <<cats, metrics, logs, settings, req, calls, answer, overtaken, nulled, bare>>

(***************************************************************************)
(* Rows. The unique indexes, and MetricRepoSequelize, compare lower(name), *)
(* so that is what a metric's name is here; the categories' existsByName   *)
(* compares the name as it is written. Categories and metrics are          *)
(* paranoid: a delete sets deleted_at and every find skips such a row.     *)
(* Nothing reads what a deleted row holds, and it is left out.             *)
(***************************************************************************)
SameName(a, b) == a[1] = b[1]

Live(table) == {x \in DOMAIN table : table[x].st = "live"}
Made(table) == {x \in DOMAIN table : table[x].st # "none"}

NoCategory == [st |-> "none", name |-> None]
NoMetric == [st |-> "none", name |-> None]
NoLog == [st |-> "none", metric |-> None, at |-> None, value |-> 0]
\* type, value and threshold: whether the column is set.
NoSetting ==
    [st |-> "none", metric |-> None, goalOn |-> FALSE, type |-> FALSE,
     value |-> FALSE, frameOn |-> FALSE, start |-> None, deadline |-> None,
     alertOn |-> FALSE, threshold |-> FALSE, achieved |-> FALSE, shown |-> TRUE]

SettingRow ==
    [st : {"none", "live", "deleted"}, metric : Metric \cup {Foreign, None},
     goalOn : BOOLEAN, type : BOOLEAN, value : BOOLEAN,
     frameOn : BOOLEAN, start : Nat \cup {None}, deadline : Nat \cup {None},
     alertOn : BOOLEAN, threshold : BOOLEAN, achieved : BOOLEAN, shown : BOOLEAN]

\* What the bodies' schemas parse. A field a PUT may leave out is a set of at
\* most one value; None is no date, and no row.
ASSUME BodyAssumption ==
    /\ None \notin Nat \cup SettingRow
    /\ \A b \in Body :
         /\ {b.goalOn, b.type, b.value, b.frameOn, b.alertOn, b.threshold} \subseteq BOOLEAN
         /\ {b.start, b.deadline} \subseteq Nat \cup {None}
    /\ \A p \in Patch :
         /\ {p.goalOn, p.type, p.value, p.frameOn, p.alertOn, p.threshold}
                \subseteq {{}, {FALSE}, {TRUE}}
         /\ \A date \in {p.start, p.deadline} :
              /\ date \subseteq Nat \cup {None}
              /\ \A v, w \in date : v = w

\* Ids for a new row.
Unused(table) == DOMAIN table \ Made(table)

(***************************************************************************)
(* The unique indexes. A concurrent insert of the same key waits for the   *)
(* other's commit and then fails, so an insert is one step here.           *)
(***************************************************************************)
CategoryNameTaken(n, but) ==    \* uq_metric_categories_user_name
    \E c \in Live(cats) \ {but} : SameName(cats[c].name, n)

MetricNameTaken(n, but) ==      \* uq_metrics_user_name
    \E m \in Live(metrics) \ {but} : metrics[m].name = n

LogTaken(m, t, but) ==          \* uq_metric_logs_metric_id_logged_at
    \E l \in Live(logs) \ {but} : logs[l].metric = m /\ logs[l].at = t

SettingTaken(m) ==              \* uq_metric_settings_metric
    \E s \in Live(settings) : settings[s].metric = m

(***************************************************************************)
(* Requests. todo is the statements a request has still to run, in the     *)
(* order its use case has them; seen is the entity it has read.            *)
(***************************************************************************)
Idle == [op |-> "none", todo |-> <<>>, row |-> None, arg |-> None, seen |-> None]

At(r, statement, ops) ==
    req[r].op \in ops /\ Head(req[r].todo) = statement

Continue(r) == req' = [req EXCEPT ![r].todo = Tail(@)] /\ answer' = None

\* An entity is read: the use case works on this copy from here on.
Hold(r, entity, rest) ==
    req' = [req EXCEPT ![r].todo = rest, ![r].seen = entity] /\ answer' = None

Answer(r, status) ==
    req' = [req EXCEPT ![r] = Idle] /\ answer' = <<req[r].op, status>>

\* A check that answers for the use case when it fails.
Require(r, condition, status) ==
    IF condition THEN Continue(r) ELSE Answer(r, status)

\* What a write answers: the invalidation that follows it rethrows its error in
\* every feature but metrics (MetricCacheRedis logs it), which makes a 500.
Done(r, status) == \E s \in {status, 500} : Answer(r, s)

Init ==
    /\ cats = [c \in Category |-> NoCategory]
    /\ metrics = [m \in Metric |-> NoMetric]
    /\ logs = [l \in Log |-> NoLog]
    /\ settings = [s \in Setting |-> NoSetting]
    /\ req = [r \in Request |-> Idle]
    /\ calls = 0
    /\ answer = None
    /\ overtaken = {} /\ nulled = {} /\ bare = {}

Begin(r, op, todo, row, arg) ==
    /\ req[r] = Idle
    /\ calls < MaxCalls
    /\ calls' = calls + 1
    /\ req' = [req EXCEPT ![r] = [op |-> op, todo |-> todo, row |-> row,
                                  arg |-> arg, seen |-> None]]
    /\ answer' = None
    /\ UNCHANGED <<tables, history>>

\* A statement fails, with the transaction it may be in.
Fails(r) ==
    /\ req[r] # Idle
    /\ Answer(r, 500)
    /\ overtaken' = overtaken \ {r}
    /\ UNCHANGED <<tables, nulled, bare>>

(***************************************************************************)
(* Categories                                                              *)
(***************************************************************************)
CreateCategory(r) ==
    \E n \in Name :
        Begin(r, "createCategory", <<"name", "insert">>, None, n)

\* A PUT without a name: colour or icon, which nothing depends on.
UpdateCategory(r) ==
    \E c \in Made(cats), n \in Name \cup {None} :
        Begin(r, "updateCategory", <<"find">>, c, n)

DeleteCategory(r) ==
    \E c \in Made(cats) :
        Begin(r, "deleteCategory", <<"find", "delete">>, c, None)

\* GenerateDummyCategories: one insert after another, none of them checked.
DummyCategories(r) ==
    \E n \in Name : Begin(r, "dummyCategories", <<"insert">>, None, n)

\* findById. An update asks for the name only if it changes.
FindCategory(r) ==
    /\ At(r, "find", {"updateCategory", "deleteCategory"})
    /\ LET c == req[r].row IN
       IF c \notin Live(cats) THEN Answer(r, 404)
       ELSE IF req[r].op = "deleteCategory" THEN Continue(r)
       ELSE Hold(r, None, (IF req[r].arg \in {None, cats[c].name}
                           THEN <<>> ELSE <<"name">>) \o <<"refind", "update">>)
    /\ UNCHANGED <<tables, history>>

\* existsByName compares the name as it is written.
CategoryName(r) ==
    /\ At(r, "name", {"createCategory", "updateCategory"})
    /\ Require(r, \A c \in Live(cats) : cats[c].name # req[r].arg, 409)
    /\ UNCHANGED <<tables, history>>

InsertCategory(r) ==
    /\ At(r, "insert", {"createCategory", "dummyCategories"})
    /\ IF CategoryNameTaken(req[r].arg, None)
       THEN Answer(r, 409) /\ UNCHANGED cats
       ELSE \E c \in Unused(cats) :
              /\ cats' = [cats EXCEPT ![c] = [st |-> "live", name |-> req[r].arg]]
              /\ \/ Done(r, 201)
                 \/ /\ req[r].op = "dummyCategories"
                    /\ \E n \in Name :
                         req' = [req EXCEPT ![r].arg = n] /\ answer' = None
    /\ UNCHANGED <<metrics, logs, settings, history>>

\* The repository's update finds the row again, and throws a plain Error.
RefindCategory(r) ==
    /\ At(r, "refind", {"updateCategory"})
    /\ Require(r, req[r].row \in Live(cats), 500)
    /\ UNCHANGED <<tables, history>>

\* row.update is by primary key: it also renames a row deleted since, whose
\* fresh copy is then missing.
SaveCategory(r) ==
    /\ At(r, "update", {"updateCategory"})
    /\ LET c == req[r].row n == req[r].arg IN
       IF n # None /\ c \in Live(cats) /\ CategoryNameTaken(n, c)
       THEN Answer(r, 409) /\ UNCHANGED cats
       ELSE IF c \notin Live(cats) THEN Answer(r, 500) /\ UNCHANGED cats
       ELSE /\ cats' = [cats EXCEPT ![c].name = IF n = None THEN @ ELSE n]
            /\ Done(r, 200)
    /\ UNCHANGED <<metrics, logs, settings, history>>

\* A soft delete: the metrics of the category keep their category_id.
DestroyCategory(r) ==
    /\ At(r, "delete", {"deleteCategory"})
    /\ cats' = [cats EXCEPT ![req[r].row] = [NoCategory EXCEPT !.st = "deleted"]]
    /\ Done(r, 200)
    /\ UNCHANGED <<metrics, logs, settings, history>>

(***************************************************************************)
(* Metrics. A body refers to at most one row, a category or the metric it  *)
(* is copied from: the reference is checked, stored and read by no other   *)
(* write. A column that a body may leave out is a set of at most one value.*)
(***************************************************************************)
Known == Made(metrics) \cup {Foreign}

Mention(values) == {{}} \cup {{v} : v \in values}
Pick(mention, old) == IF mention = {} THEN old ELSE CHOOSE v \in mention : TRUE

Refer == Made(cats) \cup Known \cup {None}

\* The check of the row a body refers to.
References(arg) == IF arg.ref = None THEN <<>>
                   ELSE IF arg.ref \in Category THEN <<"category">> ELSE <<"original">>

CreateMetric(r) ==
    \E n \in Word, ref \in Refer :
        LET arg == [name |-> {n}, ref |-> ref] IN
        Begin(r, "createMetric", <<"name">> \o References(arg) \o <<"commit">>,
              None, arg)

UpdateMetric(r) ==
    \E m \in Made(metrics), n \in Mention(Word), ref \in Refer :
        Begin(r, "updateMetric", <<"find">>, m, [name |-> n, ref |-> ref])

DeleteMetric(r) ==
    \E m \in Made(metrics) :
        Begin(r, "deleteMetric", <<"find", "refind", "delete">>, m, None)

\* GenerateDummyMetrics: a batch in one transaction, of fresh names.
DummyMetrics(r) == Begin(r, "dummyMetrics", <<"batch">>, None, None)

\* findOwnedById. An update then checks what it refers to, and its name if it
\* changes more than the way it is written.
FindMetric(r) ==
    /\ At(r, "find", {"updateMetric", "deleteMetric"})
    /\ LET m == req[r].row
           renames == req[r].arg.name \notin {{}, {metrics[m].name}}
       IN IF m \notin Live(metrics) THEN Answer(r, 404)
          ELSE IF req[r].op = "deleteMetric" THEN Continue(r)
          ELSE Hold(r, metrics[m],
                    References(req[r].arg)
                        \o (IF renames THEN <<"name">> ELSE <<>>)
                        \o <<"refind", "update">>)
    /\ UNCHANGED <<tables, history>>

MetricName(r) ==
    /\ At(r, "name", {"createMetric", "updateMetric"})
    /\ Require(r, \A n \in req[r].arg.name : ~MetricNameTaken(n, None), 409)
    /\ UNCHANGED <<tables, history>>

CategoryExists(r) ==
    /\ At(r, "category", {"createMetric", "updateMetric"})
    /\ Require(r, req[r].arg.ref \in Live(cats), 404)
    /\ UNCHANGED <<tables, history>>

OriginalExists(r) ==
    /\ At(r, "original", {"createMetric", "updateMetric"})
    /\ Require(r, req[r].arg.ref \in Live(metrics) \cup {Foreign}, 404)
    /\ UNCHANGED <<tables, history>>

DefaultSettings(m) ==
    [NoSetting EXCEPT !.st = "live", !.metric = m, !.threshold = TRUE]

\* Mutant: createDefault runs outside of the transaction, and can fail alone.
CommitMetricAlone(r) ==
    /\ At(r, "commit", {"createMetric"})
    /\ LET n == Pick(req[r].arg.name, None) IN
       IF MetricNameTaken(n, None)
       THEN Answer(r, 409) /\ UNCHANGED <<metrics, settings>>
       ELSE \E m \in Unused(metrics), s \in Unused(settings) :
              /\ metrics' = [metrics EXCEPT ![m] = [st |-> "live", name |-> n]]
              /\ \/ /\ settings' = [settings EXCEPT ![s] = DefaultSettings(m)]
                    /\ Answer(r, 201)
                 \/ Answer(r, 500) /\ UNCHANGED settings
    /\ UNCHANGED <<cats, logs, history>>

\* The transaction of CreateMetric: the metric and its default settings.
CommitMetric(r) ==
    /\ At(r, "commit", {"createMetric"})
    /\ LET n == Pick(req[r].arg.name, None) IN
       IF MetricNameTaken(n, None)
       THEN Answer(r, 409) /\ UNCHANGED <<metrics, settings>>
       ELSE \E m \in Unused(metrics), s \in Unused(settings) :
              /\ metrics' = [metrics EXCEPT ![m] = [st |-> "live", name |-> n]]
              /\ settings' = [settings EXCEPT ![s] = DefaultSettings(m)]
              /\ Answer(r, 201)
    /\ UNCHANGED <<cats, logs, history>>

\* The batch of GenerateDummyMetrics: metrics only. One name that is taken (two
\* batches in one millisecond) takes the whole batch back.
CommitBatch(r) ==
    /\ At(r, "batch", {"dummyMetrics"})
    /\ \E n \in Word :
         IF MetricNameTaken(n, None)
         THEN Answer(r, 409) /\ UNCHANGED <<metrics, bare>>
         ELSE \E m \in Unused(metrics) :
                /\ metrics' = [metrics EXCEPT ![m] = [st |-> "live", name |-> n]]
                /\ bare' = bare \cup {m}
                /\ Answer(r, 201)
    /\ UNCHANGED <<cats, logs, settings, overtaken, nulled>>

\* MetricRepoSequelize.save and delete find the row again. instance.update then
\* writes the columns in which the entity differs from the row just found.
RefindMetric(r) ==
    /\ At(r, "refind", {"updateMetric", "deleteMetric"})
    /\ LET row == metrics[req[r].row] IN
       IF row.st # "live" THEN Answer(r, 404)
       ELSE IF req[r].op = "deleteMetric" THEN Continue(r)
       ELSE Hold(r, [write |-> {Pick(req[r].arg.name, req[r].seen.name)} \ {row.name}],
                 <<"update">>)
    /\ UNCHANGED <<tables, history>>

\* The reload after the UPDATE misses a row deleted since.
SaveMetric(r) ==
    /\ At(r, "update", {"updateMetric"})
    /\ LET m == req[r].row write == req[r].seen.write IN
       IF m \in Live(metrics) /\ \E n \in write : MetricNameTaken(n, m)
       THEN Answer(r, 409) /\ UNCHANGED metrics
       ELSE IF m \notin Live(metrics) THEN Answer(r, 404) /\ UNCHANGED metrics
       ELSE /\ metrics' = [metrics EXCEPT ![m].name = Pick(write, @)]
            /\ Answer(r, 200)
    /\ UNCHANGED <<cats, logs, settings, history>>

DestroyMetric(r) ==
    /\ At(r, "delete", {"deleteMetric"})
    /\ metrics' = [metrics EXCEPT ![req[r].row] = [NoMetric EXCEPT !.st = "deleted"]]
    /\ Answer(r, 200)
    /\ UNCHANGED <<cats, logs, settings, history>>

(***************************************************************************)
(* Access to a metric: validateMetricAccess, for logs and settings         *)
(***************************************************************************)
Access(r) ==
    /\ At(r, "access", {"createLog", "dummyLogs", "createSettings"})
    /\ IF req[r].row = Foreign THEN Answer(r, 403)
       ELSE Require(r, req[r].row \in Live(metrics), 404)
    /\ UNCHANGED <<tables, history>>

(***************************************************************************)
(* Logs                                                                    *)
(***************************************************************************)
CreateLog(r) ==
    \E m \in Known, t \in Moment :
        Begin(r, "createLog", <<"access", "timestamp", "insert">>, m, t)

\* A PUT of the value, of the timestamp, or of both.
UpdateLog(r) ==
    \E l \in Made(logs), t \in Moment \cup {None}, v \in Mention({0, 1}) :
        /\ t # None \/ v # {}
        /\ Begin(r, "updateLog", <<"find">>, l, [at |-> t, value |-> v])

DeleteLog(r) ==
    \E l \in Made(logs) :
        Begin(r, "deleteLog", <<"find", "delete">>, l, None)

\* GenerateDummyMetricLogs without a queue: one insert after another, none of
\* them checked, at timestamps it draws. (With a queue: JobQueue.)
DummyLogs(r) ==
    \E m \in Known, t \in Moment :
        Begin(r, "dummyLogs", <<"access", "insert">>, m, t)

\* findById joins the metric, which must be live.
FindLog(r) ==
    /\ At(r, "find", {"updateLog", "deleteLog"})
    /\ LET row == logs[req[r].row] IN
       IF row.st # "live" \/ row.metric \notin Live(metrics) THEN Answer(r, 404)
       ELSE IF req[r].op = "deleteLog" THEN Continue(r)
       ELSE Hold(r, row, IF req[r].arg.at = None
                         THEN <<"update">> ELSE <<"timestamp", "update">>)
    /\ UNCHANGED <<tables, history>>

\* existsAtTimestamp, the log itself left out.
LogTimestamp(r) ==
    /\ At(r, "timestamp", {"createLog", "updateLog"})
    /\ Require(r, IF req[r].op = "createLog"
                  THEN ~LogTaken(req[r].row, req[r].arg, None)
                  ELSE ~LogTaken(req[r].seen.metric, req[r].arg.at, req[r].row), 409)
    /\ UNCHANGED <<tables, history>>

\* Mutant: the index of 20250109160356 is missing.
InsertLogUnindexed(r) ==
    /\ At(r, "insert", {"createLog", "dummyLogs"})
    /\ \E l \in Unused(logs) :
         logs' = [logs EXCEPT ![l] = [st |-> "live", metric |-> req[r].row,
                                      at |-> req[r].arg, value |-> 0]]
    /\ Done(r, IF req[r].op = "createLog" THEN 201 ELSE 202)
    /\ UNCHANGED <<cats, metrics, settings, history>>

InsertLog(r) ==
    /\ At(r, "insert", {"createLog", "dummyLogs"})
    /\ LET m == req[r].row t == req[r].arg IN
       IF LogTaken(m, t, None)
       THEN Answer(r, 409) /\ UNCHANGED logs
       ELSE \E l \in Unused(logs) :
              /\ logs' = [logs EXCEPT ![l] =
                            [st |-> "live", metric |-> m, at |-> t, value |-> 0]]
              /\ \/ Done(r, IF req[r].op = "createLog" THEN 201 ELSE 202)
                 \/ /\ req[r].op = "dummyLogs"
                    /\ \E u \in Moment :
                         req' = [req EXCEPT ![r].arg = u] /\ answer' = None
    /\ UNCHANGED <<cats, metrics, settings, history>>

\* One UPDATE of the entity's columns, by id.
SaveLog(r) ==
    /\ At(r, "update", {"updateLog"})
    /\ LET l == req[r].row
           t == IF req[r].arg.at = None THEN req[r].seen.at ELSE req[r].arg.at
           v == Pick(req[r].arg.value, req[r].seen.value)
       IN IF logs[l].st # "live" THEN Answer(r, 404) /\ UNCHANGED logs
          ELSE IF LogTaken(logs[l].metric, t, l) THEN Answer(r, 409) /\ UNCHANGED logs
          ELSE /\ logs' = [logs EXCEPT ![l].at = t, ![l].value = v]
               /\ Done(r, 200)
    /\ UNCHANGED <<cats, metrics, settings, history>>

\* metric_logs is not paranoid: the row goes.
DestroyLog(r) ==
    /\ At(r, "delete", {"deleteLog"})
    /\ logs' = [logs EXCEPT ![req[r].row] = [NoLog EXCEPT !.st = "deleted"]]
    /\ Done(r, 200)
    /\ UNCHANGED <<cats, metrics, settings, history>>

(***************************************************************************)
(* Settings. A date of a body is an instant, two of them to a day; the     *)
(* columns are DATEONLY.                                                   *)
(***************************************************************************)
Day(instant) == IF instant = None THEN None ELSE instant \div 2

\* settingsBody: what POST lets through.
BodyAccepted(b) ==
    /\ b.goalOn => b.type /\ b.value
    /\ b.frameOn => /\ None \notin {b.start, b.deadline}
                    /\ b.start < b.deadline

\* settingsBodyPartial: what PUT lets through. Dates alone mean a time frame.
DatesWanted(p) ==
    p.frameOn = {TRUE} \/ (p.frameOn = {} /\ (p.start # {} \/ p.deadline # {}))

PatchAccepted(p) ==
    /\ p.goalOn = {TRUE} => p.type = {TRUE} /\ p.value = {TRUE}
    /\ DatesWanted(p) =>
         /\ p.start \notin {{}, {None}} /\ p.deadline \notin {{}, {None}}
         /\ Pick(p.start, None) < Pick(p.deadline, None)

CreateSettings(r) ==
    \E m \in Known, b \in Body :
        /\ BodyAccepted(b)
        /\ Begin(r, "createSettings", <<"access", "find", "insert">>, m, b)

UpdateSettings(r) ==
    \E s \in Made(settings), p \in Patch :
        /\ PatchAccepted(p)
        /\ Begin(r, "updateSettings", <<"find", "update">>, s, p)

AchieveGoal(r) ==
    \E s \in Made(settings) :
        Begin(r, "achieve", <<"find", "update">>, s, None)

UpdateDisplay(r) ==
    \E s \in Made(settings), shown \in BOOLEAN :
        Begin(r, "display", <<"find", "update">>, s, shown)

DeleteSettings(r) ==
    \E s \in Made(settings) :
        Begin(r, "deleteSettings", <<"find", "delete">>, s, None)

\* MetricSettings.updateDetails: what it refuses, most of it refused before.
DetailsRefused(p) ==
    \/ p.goalOn = {TRUE} /\ ~(p.type = {TRUE} /\ p.value = {TRUE})
    \/ DatesWanted(p) /\ \/ {} \in {p.start, p.deadline}
                         \/ {None} \in {p.start, p.deadline}
                         \/ Pick(p.deadline, None) <= Pick(p.start, None)
    \/ p.alertOn = {TRUE} /\ p.threshold # {TRUE}

\* Mutant: a part the body does not switch on is taken for switched off.
DetailsEager(row, p) ==
    [row EXCEPT
        !.goalOn = Pick(p.goalOn, @),
        !.type = p.goalOn = {TRUE} /\ Pick(p.type, @),
        !.value = p.goalOn = {TRUE} /\ Pick(p.value, @)]

\* MetricSettings.updateDetails on what UpdateMetricSettings hands it: switching
\* a part off clears it.
Details(row, p) ==
    LET off(switch) == switch = {FALSE} IN
    [row EXCEPT
        !.goalOn = Pick(p.goalOn, @),
        !.type = ~off(p.goalOn) /\ Pick(p.type, @),
        !.value = ~off(p.goalOn) /\ Pick(p.value, @),
        !.frameOn = DatesWanted(p) \/ Pick(p.frameOn, @),
        !.start = IF off(p.frameOn) THEN None
                  ELSE IF p.start = {} THEN @ ELSE Day(Pick(p.start, None)),
        !.deadline = IF off(p.frameOn) THEN None
                     ELSE IF p.deadline = {} THEN @ ELSE Day(Pick(p.deadline, None)),
        !.alertOn = Pick(p.alertOn, @),
        !.threshold = ~off(p.alertOn) /\ Pick(p.threshold, @)]

\* Mutant: the display options are saved with what a new row would have.
EditedFresh(r, row) ==
    CASE req[r].op = "updateSettings" -> Details(row, req[r].arg)
      [] req[r].op = "achieve" -> [row EXCEPT !.achieved = TRUE]
      [] req[r].op = "display" -> [row EXCEPT !.shown = req[r].arg, !.achieved = FALSE]

\* The entity a request saves: updateDetails, markAchieved, updateDisplayOptions.
Edited(r, row) ==
    CASE req[r].op = "updateSettings" -> Details(row, req[r].arg)
      [] req[r].op = "achieve" -> [row EXCEPT !.achieved = TRUE]
      [] req[r].op = "display" -> [row EXCEPT !.shown = req[r].arg]

\* CreateMetricSettings: findByMetricId.
FindForMetric(r) ==
    /\ At(r, "find", {"createSettings"})
    /\ Require(r, ~SettingTaken(req[r].row), 409)
    /\ UNCHANGED <<tables, history>>

\* Mutant: what the entity refuses is a 422.
FindSettings422(r) ==
    /\ At(r, "find", {"updateSettings", "achieve", "display", "deleteSettings"})
    /\ LET row == settings[req[r].row] IN
       IF row.st # "live" \/ row.metric \notin Live(metrics) THEN Answer(r, 404)
       ELSE IF req[r].op = "deleteSettings" THEN Continue(r)
       ELSE IF req[r].op = "updateSettings" /\ DetailsRefused(req[r].arg)
            THEN Answer(r, 422)
            ELSE Hold(r, Edited(r, row), <<"update">>)
    /\ UNCHANGED <<tables, history>>

\* findById joins the metric, which must be live; then the entity is edited.
FindSettings(r) ==
    /\ At(r, "find", {"updateSettings", "achieve", "display", "deleteSettings"})
    /\ LET row == settings[req[r].row] IN
       IF row.st # "live" \/ row.metric \notin Live(metrics) THEN Answer(r, 404)
       ELSE IF req[r].op = "deleteSettings" THEN Continue(r)
       ELSE IF req[r].op = "updateSettings" /\ DetailsRefused(req[r].arg)
            THEN Answer(r, 400)
            ELSE Hold(r, Edited(r, row), <<"update">>)
    /\ UNCHANGED <<tables, history>>

\* Mutant: a time frame within a day is taken.
DaysInOrderLoosely(row) ==
    None \notin {row.start, row.deadline} => row.start <= row.deadline

\* The model's isAfterStart, on the days. Its error is no client error: a 500.
DaysInOrder(row) ==
    None \notin {row.start, row.deadline} => row.start < row.deadline

InsertSettings(r) ==
    /\ At(r, "insert", {"createSettings"})
    /\ LET m == req[r].row b == req[r].arg
           row == [DefaultSettings(m) EXCEPT
                     !.goalOn = b.goalOn, !.type = b.type, !.value = b.value,
                     !.frameOn = b.frameOn, !.start = Day(b.start),
                     !.deadline = Day(b.deadline), !.alertOn = b.alertOn,
                     !.threshold = b.threshold \/ b.alertOn]
       IN IF ~DaysInOrder(row) THEN Answer(r, 500) /\ UNCHANGED <<settings, bare>>
          ELSE IF SettingTaken(m) THEN Answer(r, 409) /\ UNCHANGED <<settings, bare>>
          ELSE \E s \in Unused(settings) :
                 /\ settings' = [settings EXCEPT ![s] = row]
                 /\ bare' = bare \ {m}
                 /\ Done(r, 201)
    /\ UNCHANGED <<cats, metrics, logs, overtaken, nulled>>

Saves == {"updateSettings", "achieve", "display"}

\* Requests that have read these settings, and will save them.
Saving(s) == {q \in Request : At(q, "update", Saves) /\ req[q].row = s}

Nulls(r) ==
    LET p == req[r].arg IN
    /\ req[r].op = "updateSettings"
    /\ \/ p.goalOn = {} /\ {FALSE} \in {p.type, p.value}
       \/ p.alertOn = {} /\ p.threshold = {FALSE}

\* MetricSettingsRepositorySequelize.save: one UPDATE of every column, by id, that
\* overtakes the other requests about to save the row.
SaveSettings(r) ==
    /\ At(r, "update", Saves)
    /\ LET s == req[r].row row == req[r].seen IN
       IF ~DaysInOrder(row) \/ settings[s].st # "live"
       THEN /\ Answer(r, IF DaysInOrder(row) THEN 404 ELSE 500)
            /\ overtaken' = overtaken \ {r}
            /\ UNCHANGED <<settings, nulled>>
       ELSE /\ settings' = [settings EXCEPT ![s] = row]
            /\ overtaken' = (overtaken \cup Saving(s)) \ {r}
            /\ nulled' = IF Nulls(r) THEN nulled \cup {s} ELSE nulled
            /\ Done(r, 200)
    /\ UNCHANGED <<cats, metrics, logs, bare>>

DestroySettings(r) ==
    /\ At(r, "delete", {"deleteSettings"})
    /\ settings' = [settings EXCEPT ![req[r].row] = [NoSetting EXCEPT !.st = "deleted"]]
    /\ bare' = bare \cup ({settings[req[r].row].metric} \ {None})
    /\ Done(r, 200)
    /\ UNCHANGED <<cats, metrics, logs, overtaken, nulled>>

Arrive(r) ==
    \/ CreateCategory(r) \/ UpdateCategory(r) \/ DeleteCategory(r)
    \/ DummyCategories(r)
    \/ CreateMetric(r) \/ UpdateMetric(r) \/ DeleteMetric(r) \/ DummyMetrics(r)
    \/ CreateLog(r) \/ UpdateLog(r) \/ DeleteLog(r) \/ DummyLogs(r)
    \/ CreateSettings(r) \/ UpdateSettings(r) \/ AchieveGoal(r)
    \/ UpdateDisplay(r) \/ DeleteSettings(r)

Statement(r) ==
    \/ FindCategory(r) \/ CategoryName(r) \/ InsertCategory(r)
    \/ RefindCategory(r) \/ SaveCategory(r) \/ DestroyCategory(r)
    \/ FindMetric(r) \/ MetricName(r) \/ CategoryExists(r) \/ OriginalExists(r)
    \/ CommitMetric(r) \/ CommitBatch(r) \/ RefindMetric(r) \/ SaveMetric(r)
    \/ DestroyMetric(r) \/ Access(r)
    \/ FindLog(r) \/ LogTimestamp(r) \/ InsertLog(r) \/ SaveLog(r)
    \/ DestroyLog(r)
    \/ FindForMetric(r) \/ FindSettings(r) \/ InsertSettings(r)
    \/ SaveSettings(r) \/ DestroySettings(r)
    \/ Fails(r)

Next ==
    \E r \in Request : Arrive(r) \/ (Statement(r) /\ UNCHANGED calls)

Spec == Init /\ [][Next]_vars

(***************************************************************************)
(* Properties                                                              *)
(***************************************************************************)
\* Whatever requests overlap between their check and their insert or update: no
\* two live categories or metrics of a user differ at most in the way their
\* name is written, a metric has no two logs of one timestamp and no two
\* settings (existsByName and existsAtTimestamp, then create and save).
NoDuplicates ==
    /\ \A c, d \in Live(cats) : SameName(cats[c].name, cats[d].name) => c = d
    /\ \A m, n \in Live(metrics) : metrics[m].name = metrics[n].name => m = n
    /\ \A k, l \in Live(logs) :
         logs[k].metric = logs[l].metric /\ logs[k].at = logs[l].at => k = l
    /\ \A s, u \in Live(settings) : settings[s].metric = settings[u].metric => s = u

\* A live metric has its settings, whichever statement of CreateMetric failed,
\* unless it is a dummy or they were deleted (MetricSettingsPortSequelize).
MetricHasSettings == \A m \in Live(metrics) \ bare : SettingTaken(m)

\* Settings with a time frame have both dates, and the deadline is a later day
\* than the start: also when a body's instants are in order within one day, and
\* after any sequence of partial updates (settingsBodyPartial, updateDetails).
FrameWhole ==
    \A s \in Live(settings) :
        /\ settings[s].frameOn => None \notin {settings[s].start, settings[s].deadline}
        /\ None \notin {settings[s].start, settings[s].deadline} =>
               settings[s].start < settings[s].deadline

\* A goal that is on has its type and value, an alert that is on its threshold,
\* over any partial updates and overlapping saves: unless a PUT set one of them
\* to null without mentioning the switch, which updateDetails does not refuse.
GoalWhole ==
    \A s \in Live(settings) \ nulled :
        /\ settings[s].goalOn => settings[s].type /\ settings[s].value
        /\ settings[s].alertOn => settings[s].threshold

\* Settings whose parts agree: over the dates and over the switches.
SettingsWhole == FrameWhole /\ GoalWhole

\* The columns a request is asked to change.
Part(op) ==
    CASE op = "updateSettings" -> {"goalOn", "type", "value", "frameOn", "start",
                                   "deadline", "alertOn", "threshold"}
      [] op = "achieve" -> {"achieved"}
      [] op = "display" -> {"shown"}

\* The row changes only where the request that saves it was asked to change it, and
\* an achieved goal never back, although save writes every column of the copy the
\* request has read: unless another request saved the row between the two.
LosesNoUpdate ==
    [][\A s \in Live(settings), c \in DOMAIN NoSetting :
         settings'[s].st = "live" /\ settings'[s][c] # settings[s][c] =>
             \E r \in Saving(s) :
                /\ req'[r] # req[r]
                /\ r \notin overtaken =>
                      c \in Part(req[r].op) /\ (c = "achieved" => settings'[s][c])]_vars

\* The answers openapi-docs.ts does not list: validateMetricAccess forbids
\* another member's metric, and a unique index can refuse any insert.
Unlisted ==
    {<<"createLog", 403>>, <<"createSettings", 403>>, <<"dummyLogs", 404>>,
     <<"dummyLogs", 409>>, <<"dummyCategories", 409>>, <<"dummyMetrics", 409>>}

\* Every answer of a write, whatever ran between its statements, is one the
\* OpenAPI document lists for the operation, those of Unlisted excepted.
AnswersDocumented ==
    [][answer' # None => answer' \in Documented \cup Unlisted]_vars
=============================================================================
