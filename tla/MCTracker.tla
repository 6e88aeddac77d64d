----------------------------- MODULE MCTracker -----------------------------
EXTENDS Tracker, TLC

Keep == [goalOn |-> {}, type |-> {}, value |-> {}, frameOn |-> {}, start |-> {},
         deadline |-> {}, alertOn |-> {}, threshold |-> {}]
Plain == [goalOn |-> FALSE, type |-> FALSE, value |-> FALSE, frameOn |-> FALSE,
          start |-> None, deadline |-> None, alertOn |-> FALSE, threshold |-> TRUE]

MCBody ==
    {Plain,
     [Plain EXCEPT !.goalOn = TRUE, !.type = TRUE, !.value = TRUE],
     [Plain EXCEPT !.frameOn = TRUE, !.start = 0, !.deadline = 1],
     [Plain EXCEPT !.alertOn = TRUE, !.threshold = FALSE]}
MCPatch ==
    {[Keep EXCEPT !.goalOn = {TRUE}, !.type = {TRUE}, !.value = {TRUE}],
     [Keep EXCEPT !.goalOn = {FALSE}],
     [Keep EXCEPT !.type = {FALSE}],
     [Keep EXCEPT !.start = {0}, !.deadline = {1}],
     [Keep EXCEPT !.start = {0}, !.deadline = {2}],
     [Keep EXCEPT !.frameOn = {FALSE}],
     [Keep EXCEPT !.alertOn = {TRUE}],
     [Keep EXCEPT !.alertOn = {TRUE}, !.threshold = {TRUE}],
     [Keep EXCEPT !.threshold = {FALSE}]}

CONSTANTS Alpha, Beta
MCName == {<<Alpha, "lower">>, <<Alpha, "upper">>, <<Beta, "lower">>}

CategoryOps == {"createCategory", "updateCategory", "deleteCategory", "dummyCategories"}
MetricOps == {"createMetric", "updateMetric", "deleteMetric", "dummyMetrics"}
LogOps == {"createLog", "updateLog", "deleteLog", "dummyLogs"}
SettingOps == {"createSettings", "updateSettings", "achieve", "display", "deleteSettings"}

\* Requests that share no table commute: only those that do are taken together.
\* Metrics meet categories in a reference, logs and settings by being deleted.
Together ==
    {CategoryOps \cup {"createMetric", "updateMetric"}, MetricOps,
     LogOps \cup {"deleteMetric"}, SettingOps \cup {"deleteMetric"}}

Related == \E S \in Together : \A r \in Request : req[r].op \in S \cup {"none"}

\* Nor do rows of different features meet but in a metric: one feature beside the
\* metrics is in use in a behaviour. Settings are in use once one is not as made.
Featured ==
    Cardinality({f \in {"categories", "logs", "settings"} :
        CASE f = "categories" -> Made(cats) # {}
          [] f = "logs" -> Made(logs) # {}
          [] f = "settings" -> \E s \in Made(settings) :
                 settings[s] # DefaultSettings(settings[s].metric)}) <= 1

\* The answer is of the step alone.
View == <<tables, history, req, calls>>

Symmetry == Permutations(Category) \cup Permutations(Metric) \cup Permutations(Log)
    \cup Permutations(Setting) \cup Permutations(Request)
=============================================================================
