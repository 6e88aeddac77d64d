------------------------------ MODULE Contract ------------------------------
(***************************************************************************)
(* What the OpenAPI document (lib/openapi/openapi-docs.ts) promises of     *)
(* every operation: pairs of an operation and a status it can answer.      *)
(* Bodies, headers and examples are left out.                              *)
(***************************************************************************)
EXTENDS Naturals

Client == {400, 401}                     \* a bad request, no valid credentials
Missing == {404, 409}                    \* NotFoundError, ConflictError

\* The responses of a registerPath call.
Path(op, statuses) == {op} \X statuses

Entry ==
    Path("register", {201, 400, 409, 429, 500})
    \cup Path("login", {200, 409, 500} \cup Client)
    \cup Path("getProfile", {200, 401, 409, 500})
    \cup Path("updateProfile", {200, 409, 500} \cup Client)

Session ==
    Path("logout", {200, 400, 500})
    \cup Path("refresh", {200, 500} \cup Client)
    \cup Path("forgotPassword", {200, 400, 429, 500})
    \cup Path("resetPassword", {200, 400, 429, 500})

Identity ==
    Path("verifyEmail", {200, 400, 429, 500})
    \cup Path("resendVerification", {200, 429, 500} \cup Client)
    \cup Path("switchOrg", {200, 403, 500} \cup Client)

Organizations ==
    Path("createInvite", {201, 403, 409, 500} \cup Client)
    \cup Path("listOrganizations", {200, 500} \cup Client)
    \cup Path("listMembers", {200, 403, 500} \cup Client)

Memberships ==
    Path("acceptInvite", {200, 500} \cup Client)
    \cup Path("changeRole", {200, 403, 404, 500} \cup Client)
    \cup Path("removeMember", {200, 403, 404, 500} \cup Client)

Categories ==
    Path("createCategory", {201, 409, 500} \cup Client)
    \cup Path("listCategories", {200, 500} \cup Client)

CategoryById ==
    Path("getCategory", {200, 500} \cup Client \cup Missing)
    \cup Path("updateCategory", {200, 500} \cup Client \cup Missing)
    \cup Path("deleteCategory", {200, 500} \cup Client \cup Missing)

Metrics ==
    Path("createMetric", {201, 500} \cup Client \cup Missing)
    \cup Path("listMetrics", {200, 500} \cup Client)

MetricById ==
    Path("getMetric", {200, 500} \cup Client \cup Missing)
    \cup Path("updateMetric", {200, 500} \cup Client \cup Missing)
    \cup Path("deleteMetric", {200, 500} \cup Client \cup Missing)

Logs ==
    Path("createLog", {201, 500} \cup Client \cup Missing)
    \cup Path("listLogs", {200, 500} \cup Client)
    \cup Path("logStats", {200, 500} \cup Client \cup Missing)

LogById ==
    Path("getLog", {200, 500} \cup Client \cup Missing)
    \cup Path("updateLog", {200, 500} \cup Client \cup Missing)
    \cup Path("deleteLog", {200, 500} \cup Client \cup Missing)

Dummies ==
    Path("dummyMetrics", {201, 429, 500} \cup Client)
    \cup Path("dummyCategories", {201, 429, 500} \cup Client)
    \cup Path("dummyLogs", {202, 403, 500} \cup Client)

Settings ==
    Path("createSettings", {201, 500} \cup Client \cup Missing)
    \cup Path("listSettings", {200, 500} \cup Client)

SettingById ==
    Path("getSettings", {200, 500} \cup Client \cup Missing)
    \cup Path("updateSettings", {200, 404, 500} \cup Client)
    \cup Path("deleteSettings", {200, 404, 500} \cup Client)

SettingParts ==
    Path("achieve", {200, 404, 500} \cup Client)
    \cup Path("display", {200, 404, 500} \cup Client)

Reports ==
    Path("trends", {200, 404, 500} \cup Client)
    \cup Path("dashboard", {200, 304, 500} \cup Client)
    \cup Path("metricAnalytics", {200, 304, 404, 500} \cup Client)

Probes ==
    Path("adminPing", {200, 401, 403})
    \cup Path("health", {200})
    \cup Path("ready", {200, 503, 500})

Paths ==
    UNION {Entry, Session, Identity, Organizations, Memberships,
           Categories, CategoryById, Metrics, MetricById, Logs, LogById,
           Dummies, Settings, SettingById, SettingParts, Reports, Probes}

Operations == {path[1] : path \in Paths}

\* The operations that are documented with a requestBody.
WithBody ==
    {"register", "login", "updateProfile", "forgotPassword", "resetPassword",
     "verifyEmail", "switchOrg", "createInvite", "acceptInvite", "changeRole",
     "createCategory", "updateCategory", "createMetric", "updateMetric",
     "createLog", "updateLog", "dummyMetrics", "dummyCategories", "dummyLogs",
     "createSettings", "updateSettings", "display"}

\* getOpenApiDocumentation adds what express.json and globalRateLimiter answer.
Documented ==
    Paths \cup ((Operations \ {"health", "ready"}) \X {429})
          \cup (WithBody \X {413, 415})
=============================================================================
