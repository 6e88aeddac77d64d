------------------------------- MODULE HttpApi -------------------------------
(***************************************************************************)
(* A request's way through the server: the global pipeline in its one      *)
(* order, the guards of its route, its handler, and the error handler that *)
(* turns what was raised into a status.  Register and login run SignIn's   *)
(* steps; of the other handlers only the outcomes are kept, their state    *)
(* is in Tracker, Members, Accounts, RefreshSessions and ResponseCache.    *)
(***************************************************************************)
EXTENDS SignIn, Sequences, Contract

CONSTANTS
    Budget,    \* the max of every limiter
    MaxCalls   \* bound: requests while the limiters count

ASSUME HttpAssumption == Budget \in Nat \ {0} /\ MaxCalls \in Nat

VARIABLES
    limiting,   \* DISABLE_RATE_LIMITING is not set
    production, \* NODE_ENV: HTTPS is required
    req,        \* the operation of each request, and the stages ahead of it
    hits,       \* the limiters' store: requests counted under a key
    calls,      \* requests so far, while the limiters count
    reached,    \* requests each limiter has seen in its window (history)
    unlisted    \* answers the OpenAPI document does not have, and the stage (history)

http == <<limiting, production, req, hits, calls, reached, unlisted>>

-----------------------------------------------------------------------------
(* The limiters: the store's prefix and what the key is made of.           *)

globalRateLimiter == <<"global", "ip">>
userRateLimiter == <<"user", "id">>
analyticsRateLimiter == <<"analytics", "id">>
switchOrgRateLimiter == <<"switch-org", "id">>
passwordResetEmailRateLimiter == <<"password-reset-email", "email">>
passwordResetIpRateLimiter == <<"password-reset-ip", "ip">>
emailVerificationEmailRateLimiter == <<"email-verification-email", "email">>
emailVerificationIpRateLimiter == <<"email-verification-ip", "ip">>
registerIpRateLimiter == <<"register-ip", "ip">>

\* Mutant: login counts where the session routes count, as it once did (D-08).
loginRateLimiterShared == <<"auth-session", "ip">>

loginRateLimiter == <<"login", "ip">>
authSessionRateLimiter == <<"auth-session", "ip">>

\* The key each limiter stage counts under. There is one client: one address, one user.
Key ==
    [globalLimiter |-> globalRateLimiter, userLimiter |-> userRateLimiter,
     analyticsLimiter |-> analyticsRateLimiter, switchOrgLimiter |-> switchOrgRateLimiter,
     resetEmailLimiter |-> passwordResetEmailRateLimiter,
     resetIpLimiter |-> passwordResetIpRateLimiter,
     verifyEmailLimiter |-> emailVerificationEmailRateLimiter,
     verifyIpLimiter |-> emailVerificationIpRateLimiter,
     registerLimiter |-> registerIpRateLimiter, loginLimiter |-> loginRateLimiter,
     sessionLimiter |-> authSessionRateLimiter]

Limiter == DOMAIN Key

-----------------------------------------------------------------------------
(* The routes: an operation, and the guards between the pipeline and its   *)
(* handler.                                                                *)

AuthRoutes ==
    {<<"register", <<"registerLimiter", "json", "validate">>>>,
     <<"login", <<"loginLimiter", "json", "validate">>>>,
     <<"getProfile", <<"auth">>>>,
     <<"updateProfile", <<"auth", "userLimiter", "json", "validate">>>>,
     <<"logout", <<"sessionLimiter">>>>,
     <<"refresh", <<"sessionLimiter">>>>,
     <<"forgotPassword", <<"resetIpLimiter", "json", "validate", "resetEmailLimiter">>>>,
     <<"resetPassword", <<"resetIpLimiter", "json", "validate">>>>,
     <<"verifyEmail", <<"verifyIpLimiter", "json", "validate">>>>,
     <<"resendVerification", <<"auth", "verifyIpLimiter", "verifyEmailLimiter">>>>,
     <<"switchOrg", <<"auth", "switchOrgLimiter", "json", "validate">>>>,
     <<"auth405", <<"notAllowed">>>>}

Write == <<"auth", "userLimiter", "json", "validate">>
Erase == <<"auth", "userLimiter", "validate">>
Read == <<"auth", "validate">>
CachedRead == <<"auth", "validate", "cache">>

OrganizationRoutes ==
    {<<"listOrganizations", Erase>>,
     <<"createInvite", Write>>,
     <<"listMembers", Erase>>,
     <<"acceptInvite", Write>>,
     <<"removeMember", Erase>>,
     <<"changeRole", Write>>}

MetricRoutes ==
    {<<"createMetric", Write>>,
     <<"listMetrics", CachedRead>>,
     <<"getMetric", CachedRead>>,
     <<"updateMetric", Write>>,
     <<"deleteMetric", Erase>>,
     <<"trends", Read>>,
     <<"dummyMetrics", Write>>,
     <<"feature405", <<"auth", "notAllowed">>>>}

CategoryRoutes ==
    {<<"createCategory", Write>>,
     <<"listCategories", Read>>,
     <<"getCategory", CachedRead>>,
     <<"updateCategory", Write>>,
     <<"deleteCategory", Erase>>,
     <<"dummyCategories", Write>>}

LogRoutes ==
    {<<"listLogs", CachedRead>>,
     <<"logStats", CachedRead>>,
     <<"getLog", CachedRead>>,
     <<"createLog", Write>>,
     <<"updateLog", Write>>,
     <<"deleteLog", Erase>>,
     <<"dummyLogs", Write>>}

SettingsRoutes ==
    {<<"listSettings", CachedRead>>,
     <<"getSettings", CachedRead>>,
     <<"createSettings", Write>>,
     <<"updateSettings", Write>>,
     <<"deleteSettings", Erase>>,
     <<"achieve", Erase>>,
     <<"display", Write>>}

AnalyticsRoutes ==
    {<<"dashboard", <<"auth", "analyticsLimiter", "validate">>>>,
     <<"metricAnalytics", <<"auth", "analyticsLimiter", "validate">>>>}

\* notFound stands for every path no route has.
AppRoutes ==
    {<<"adminPing", <<"auth", "role">>>>,
     <<"notFound", <<"missing">>>>}

Routes ==
    UNION {AuthRoutes, OrganizationRoutes, MetricRoutes, CategoryRoutes, LogRoutes,
           SettingsRoutes, AnalyticsRoutes, AppRoutes}

ProbeOps == {"health", "ready"}

Through(guards) == <<"https", "globalLimiter", "body">> \o guards \o <<"handler">>

\* Mutant: the parsers run ahead of the probes.
PipelinesProbesLast ==
    {<<"trace", <<"notAllowed">>>>}
    \cup (ProbeOps \X {<<"globalLimiter", "body", "handler">>})
    \cup {<<route[1], Through(route[2])>> : route \in Routes}

\* disallowTraceMethod, the probes, HTTPS, the limiter, express.json, the route.
Pipelines ==
    {<<"trace", <<"notAllowed">>>>}
    \cup (ProbeOps \X {<<"handler">>})
    \cup {<<route[1], Through(route[2])>> : route \in Routes}

-----------------------------------------------------------------------------
(* The handlers: what they and their use cases raise, in pairs.            *)

Raise(op, kinds) == {op} \X kinds

AuthHandlers ==
    Raise("getProfile", {"not_found"})
    \cup Raise("updateProfile", {"not_found", "conflict"})
    \cup Raise("refresh", {"unauthorized"})
    \cup Raise("resetPassword", {"validation"})
    \cup Raise("verifyEmail", {"validation"})
    \cup Raise("switchOrg", {"forbidden", "unauthorized"})

OrganizationHandlers ==
    Raise("createInvite", {"forbidden", "not_found", "conflict"})
    \cup Raise("acceptInvite", {"validation", "not_found", "unique"})
    \cup Raise("removeMember", {"forbidden", "not_found", "validation"})
    \cup Raise("changeRole", {"forbidden", "not_found", "validation"})
    \cup Raise("listMembers", {"forbidden"})

MetricHandlers ==
    Raise("createMetric", {"validation", "not_found", "conflict", "unique"})
    \cup Raise("getMetric", {"not_found"})
    \cup Raise("updateMetric", {"validation", "not_found", "conflict", "unique"})
    \cup Raise("deleteMetric", {"not_found"})
    \cup Raise("dummyMetrics", {"unique"})
    \cup Raise("trends", {"forbidden", "not_found"})

CategoryHandlers ==
    Raise("createCategory", {"conflict", "unique"})
    \cup Raise("getCategory", {"not_found"})
    \cup Raise("updateCategory", {"not_found", "conflict", "unique"})
    \cup Raise("deleteCategory", {"not_found"})
    \cup Raise("dummyCategories", {"unique"})

LogHandlers ==
    Raise("createLog", {"validation", "forbidden", "not_found", "conflict", "unique"})
    \cup Raise("getLog", {"not_found"})
    \cup Raise("updateLog", {"validation", "not_found", "conflict", "unique"})
    \cup Raise("deleteLog", {"not_found"})
    \cup Raise("logStats", {"forbidden", "not_found"})
    \cup Raise("dummyLogs", {"forbidden", "not_found", "unique"})

SettingsHandlers ==
    Raise("createSettings", {"forbidden", "not_found", "conflict", "unique"})
    \cup Raise("getSettings", {"not_found"})
    \cup Raise("updateSettings", {"validation", "not_found"})
    \cup Raise("deleteSettings", {"not_found"})
    \cup Raise("achieve", {"not_found"})
    \cup Raise("display", {"not_found"})

AnalyticsHandlers ==
    Raise("dashboard", {"validation"})
    \cup Raise("metricAnalytics", {"validation", "not_found"})

Raises ==
    UNION {AuthHandlers, OrganizationHandlers, MetricHandlers, CategoryHandlers,
           LogHandlers, SettingsHandlers, AnalyticsHandlers}

\* The status successResponse is called with.
Success(op) ==
    IF op \in {"createInvite", "createMetric", "createCategory", "createLog",
               "createSettings", "dummyMetrics", "dummyCategories"} THEN 201
    ELSE IF op = "dummyLogs" THEN 202 ELSE 200

Gets ==
    {"getProfile", "listOrganizations", "listMembers", "listMetrics", "getMetric", "trends",
     "listCategories", "getCategory", "listLogs", "logStats", "getLog", "listSettings",
     "getSettings", "dashboard", "metricAnalytics", "adminPing"} \cup ProbeOps

\* express answers a GET whose If-None-Match still matches with 304 in place of 200.
Sent(op, status) == {status} \cup (IF status = 200 /\ op \in Gets THEN {304} ELSE {})

\* createErrorHandler: DOMAIN_ERROR_STATUS, UniqueConstraintError, anything else.
Status(kind) ==
    CASE kind = "validation" -> 400 [] kind = "unauthorized" -> 401
      [] kind = "forbidden" -> 403 [] kind = "not_found" -> 404
      [] kind \in {"conflict", "unique"} -> 409 [] OTHER -> 500

\* logout and resendVerification catch what fails, adminPing does nothing that can.
Failures(op) ==
    IF op \in {"logout", "resendVerification", "adminPing"} THEN {}
    ELSE {Status("failure")} \cup {Status(raise[2]) : raise \in {x \in Raises : x[1] = op}}

Handled(op) ==
    CASE op = "health" -> Sent(op, 200)
      [] op = "ready" -> Sent(op, 200) \cup {500, 503}
      [] OTHER -> Sent(op, Success(op)) \cup Failures(op)

\* toClientError and isBodyParseError: malformed, too large, an encoding or charset.
express_json == {400, 413, 415}

\* No or an invalid token, user or membership; the database failed.
authMiddleware == {401, 500}

validate == {400}
requireJsonObjectBody == {400}
requireOrgRole == {403}
methodNotAllowed == {405}
notFoundHandler == {404}

\* What a guard answers itself, when it does not hand the request on.
Refusals(stage) ==
    CASE stage = "https" -> IF production THEN {403} ELSE {}
      [] stage = "body" -> express_json
      [] stage = "auth" -> authMiddleware
      [] stage = "validate" -> validate
      [] stage = "json" -> requireJsonObjectBody
      [] stage = "role" -> requireOrgRole
      [] stage = "notAllowed" -> methodNotAllowed
      [] stage = "missing" -> notFoundHandler
      [] OTHER -> {}

-----------------------------------------------------------------------------
(* A request walks its stages; every answer ends it.                       *)

Silent == [op |-> None, ahead |-> <<>>]

HttpInit ==
    /\ SignInInit
    /\ limiting \in BOOLEAN /\ production \in BOOLEAN
    /\ req = [r \in Request |-> Silent]
    /\ hits = [k \in {Key[l] : l \in Limiter} |-> 0]
    /\ calls = 0 /\ reached = [l \in Limiter |-> 0] /\ unlisted = {}

At(r, stages) == req[r].op # None /\ Head(req[r].ahead) \in stages
HandOn(r) == req' = [req EXCEPT ![r].ahead = Tail(@)]

Respond(r, status) ==
    LET op == req[r].op IN
    /\ req' = [req EXCEPT ![r] = Silent]
    /\ unlisted' = IF op \notin Operations \/ <<op, status>> \in Documented
                   THEN unlisted ELSE unlisted \cup {<<op, status, Head(req[r].ahead)>>}

Arrive(r, op, stages) ==
    /\ req[r] = Silent
    /\ limiting => calls < MaxCalls
    /\ req' = [req EXCEPT ![r] = [op |-> op, ahead |-> stages]]
    /\ calls' = IF limiting THEN calls + 1 ELSE calls
    /\ UNCHANGED <<limiting, production, hits, reached, unlisted, signIn>>

Stop == {"notAllowed", "missing"}
Guards == {"https", "body", "auth", "role", "json", "validate", "cache"} \cup Stop

Pass(r) ==
    /\ At(r, Guards \ Stop)
    /\ HandOn(r)
    /\ UNCHANGED <<limiting, production, hits, calls, reached, unlisted, signIn>>

Refuse(r) ==
    /\ At(r, Guards)
    /\ \E status \in Refusals(Head(req[r].ahead)) : Respond(r, status)
    /\ UNCHANGED <<limiting, production, hits, calls, reached, signIn>>

\* cacheMiddleware answers from the cache; it hands on a miss and its own failures.
CacheHit(r) ==
    /\ At(r, {"cache"})
    /\ \E status \in Sent(req[r].op, 200) : Respond(r, status)
    /\ UNCHANGED <<limiting, production, hits, calls, reached, signIn>>

\* noopRateLimiter.
NotLimited(r) ==
    /\ At(r, Limiter) /\ ~limiting
    /\ HandOn(r)
    /\ UNCHANGED <<limiting, production, hits, calls, reached, unlisted, signIn>>

\* The store counts the request, and limitExceeded answers what is over the budget.
Count(r) ==
    /\ At(r, Limiter) /\ limiting
    /\ LET l == Head(req[r].ahead) IN
       /\ hits' = [hits EXCEPT ![Key[l]] = @ + 1]
       /\ reached' = [reached EXCEPT ![l] = @ + 1]
       /\ IF hits'[Key[l]] > Budget
          THEN Respond(r, 429) ELSE HandOn(r) /\ UNCHANGED unlisted
    /\ UNCHANGED <<limiting, production, calls, signIn>>

\* The Redis store rejects: the limiter hands the error to the error handler.
StoreFails(r) ==
    /\ At(r, Limiter) /\ limiting
    /\ Respond(r, Status("failure"))
    /\ UNCHANGED <<limiting, production, hits, calls, reached, signIn>>

WindowEnds(l) ==
    /\ hits[Key[l]] > 0
    /\ hits' = [hits EXCEPT ![Key[l]] = 0]
    /\ reached' = [reached EXCEPT ![l] = 0]
    /\ UNCHANGED <<limiting, production, req, calls, unlisted, signIn>>

Handle(r) ==
    /\ At(r, {"handler"}) /\ req[r].op \notin {"login", "register"}
    /\ \E status \in Handled(req[r].op) : Respond(r, status)
    /\ UNCHANGED <<limiting, production, hits, calls, reached, signIn>>

\* controller.register, controller.login.
BeginSignIn(r) ==
    /\ At(r, {"handler"})
    /\ \/ req[r].op = "register" /\ \E e \in Email, n \in Username : Register(r, e, n)
       \/ req[r].op = "login" /\ \E e \in Email : Login(r, e)
    /\ UNCHANGED http

EndSignIn(r) ==
    /\ at[r].pc = "answer"
    /\ Respond(r, at[r].status)
    /\ at' = [at EXCEPT ![r] = Idle]
    /\ UNCHANGED <<limiting, production, hits, calls, reached, accounts, counter, faults>>

HttpNext ==
    \/ \E r \in Request :
         \/ \E pipeline \in Pipelines : Arrive(r, pipeline[1], pipeline[2])
         \/ Pass(r) \/ Refuse(r) \/ CacheHit(r)
         \/ NotLimited(r) \/ Count(r) \/ StoreFails(r)
         \/ Handle(r) \/ BeginSignIn(r) \/ EndSignIn(r)
         \/ SignInStep(r) /\ UNCHANGED http
    \/ \E l \in Limiter : WindowEnds(l)
    \/ SignInElsewhere /\ UNCHANGED http

\* Redis expires a key that has a time to live, and a request under way gets the reply
\* to its EXPIRE or its failure.
HttpSpec ==
    /\ HttpInit
    /\ [][HttpNext]_<<http, signIn>>
    /\ \A e \in Email : WF_<<http, signIn>>(KeyExpires(e) /\ UNCHANGED http)
    /\ \A r \in Request :
         WF_<<http, signIn>>((SetExpiry(r) \/ ExpiryLost(r)) /\ UNCHANGED http)

-----------------------------------------------------------------------------
(* What the HTTP layer promises.                                           *)

\* Answers the document leaves out for most operations: the HTTPS guard's, and the
\* parser's to a GET or DELETE that carries a body.
Everywhere == {<<"https", 403>>} \cup {"body"} \X express_json

\* Answers of single operations it leaves out.
Gaps ==
    {<<"login", 403>>, <<"getProfile", 404>>, <<"updateProfile", 404>>,
     <<"switchOrg", 401>>, <<"createInvite", 404>>, <<"acceptInvite", 404>>,
     <<"acceptInvite", 409>>, <<"createLog", 403>>, <<"createSettings", 403>>,
     <<"logStats", 403>>, <<"trends", 403>>, <<"dummyLogs", 404>>, <<"dummyLogs", 409>>,
     <<"dummyMetrics", 409>>, <<"dummyCategories", 409>>, <<"adminPing", 500>>}

\* Whatever guard, store, database or handler a request ends at, its answer is one that
\* openapi-docs.ts lists for the operation, one of the gaps above, or express's own 304;
\* and the probes, which must answer while the service is flooded, are never throttled,
\* parsed or refused.
AnsweredAsDocumented ==
    \A a \in unlisted :
        \/ a[2] = 304
        \/ a[1] \notin ProbeOps /\ (<<a[3], a[2]>> \in Everywhere \/ <<a[1], a[2]>> \in Gaps)

\* A limiter counts no request that did not reach it in its window: no other route, and
\* no other limiter's fallback, spends its budget (D-07, D-08).
OwnBudget == \A l \in Limiter : hits[Key[l]] <= reached[l]
=============================================================================
