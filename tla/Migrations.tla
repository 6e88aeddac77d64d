----------------------------- MODULE Migrations -----------------------------
\* The database schema and the migrations that change it: src/src/migrations, run by
\* sequelize-cli (external) in CI before a deploy, and undone by hand with the
\* migrate:undo scripts. A schema is a set of objects: tables, columns, constraints and
\* indexes as <<table, name>>, types and extensions as <<"type", name>>. Most
\* migrations are one transaction; the four that build indexes CONCURRENTLY run one
\* statement after another and may stop between two of them. The row that records a
\* migration is written after it, in a transaction of its own.
EXTENDS Naturals, Sequences, FiniteSets, SequencesExt

CONSTANTS
    MaxFaults,      \* crashes of the process that migrates
    MaxProblems     \* kinds of troublesome rows present at once

ASSUME BoundsAssumption == MaxFaults \in Nat /\ MaxProblems \in Nat

VARIABLES
    schema,     \* the objects there are
    invalid,    \* the indexes among them a failed concurrent build left unusable
    rows,       \* the kinds of troublesome rows in the tables
    recorded,   \* how many migrations SequelizeMeta lists: always a prefix
    job,        \* the migration under way: its direction and the statements left
    torn,       \* direction of the migration that changed something but not the record
    gaps,       \* the migrations on record that an undo cut off took, and that later
                \* ones were run over
    refused,    \* the migration whose statement failed in the last step, if one did
    faults

vars == <<schema, invalid, rows, recorded, job, torn, gaps, refused, faults>>

-----------------------------------------------------------------------------
\* Statements.

In(t, names) == {<<t, c>> : c \in names}
Whole(t) == <<t, "table">>

Statement(op, key, objs, bad) == [op |-> op, key |-> key, objs |-> objs, bad |-> bad]

\* createTable is CREATE TABLE IF NOT EXISTS.
Table(t, names) == Statement("ensure", Whole(t), In(t, names \cup {"table"}), {})
Ensure(o) == Statement("ensure", o, {o}, {})
Add(objs) == Statement("add", <<>>, objs, {})
AddUnique(o, bad) == Statement("add", <<>>, {o}, bad)
Drop(objs) == Statement("drop", <<>>, objs, {})
Clear(objs) == Statement("clear", <<>>, objs, {})
DropTable(t) == Statement("dropTable", Whole(t), {}, {})
Build(t, i) == Statement("build", <<t, i>>, {<<t, i>>}, {})
BuildUnique(t, i, bad) == Statement("build", <<t, i>>, {<<t, i>>}, bad)
Need(objs) == Statement("need", <<>>, objs, {})
Refuse(bad) == Statement("need", <<>>, {}, bad)
Unused(objs) == Statement("unused", <<>>, objs, {})
Reference(t) == Statement("reference", Whole(t), {}, {})
Delete(bad) == Statement("delete", <<>>, {}, bad)
Spread(from, to) == Statement("spread", from, {}, {to})

\* PostgreSQL numbers a constraint nobody named.
Keys == <<"fkey", "fkey1", "fkey2", "fkey3", "fkey4">>
FreeKey(t, objs) ==
    {<<t, Keys[i]>> : i \in {k \in DOMAIN Keys :
        <<t, Keys[k]>> \notin objs /\ \A j \in 1..(k - 1) : <<t, Keys[j]>> \in objs}}

\* The kinds of rows a migration stumbles over, and the table they are in. "guest": a
\* member who does not own the organization. "leftOrg": an organization with the slug
\* of somebody who is in none.
Home == [dupCategory |-> "metric_categories", dupMetric |-> "metrics",
         dupSettings |-> "metric_settings", longText |-> "metrics",
         ownerless |-> "metrics", noOrg |-> "metrics",
         dupExpired |-> "organization_invites", dupLive |-> "organization_invites",
         guest |-> "memberships", leftOrg |-> "organizations",
         sharedId |-> "processed_messages"]
Problem == DOMAIN Home

StatementFails(d, s) ==
    CASE s.op = "add" -> \/ s.objs \cap d.schema # {}
                         \/ \E o \in s.objs : Whole(o[1]) \notin d.schema
                         \/ s.bad \cap d.rows # {}
      [] s.op = "drop" -> ~ s.objs \subseteq d.schema
      [] s.op = "need" -> ~ s.objs \subseteq d.schema \/ s.bad \cap d.rows # {}
      [] s.op = "unused" -> s.objs \cap d.schema # {}
      [] s.op = "build" -> /\ s.key \notin d.schema
                           /\ Whole(s.key[1]) \notin d.schema \/ s.bad \cap d.rows # {}
      [] OTHER -> FALSE

StatementDone(d, s) ==
    CASE s.op = "ensure" -> [d EXCEPT !.schema =
                                IF s.key \in @ THEN @ ELSE @ \cup s.objs]
      [] s.op \in {"add", "build"} -> [d EXCEPT !.schema = @ \cup s.objs]
      [] s.op \in {"drop", "clear"} ->
             [d EXCEPT !.schema = @ \ s.objs, !.invalid = @ \ s.objs]
      [] s.op = "dropTable" ->
             LET t == s.key[1]
             IN  [schema |-> {o \in d.schema : o[1] # t},
                  invalid |-> {o \in d.invalid : o[1] # t},
                  rows |-> {p \in d.rows : Home[p] # t}, ok |-> TRUE]
      [] s.op = "reference" ->
             [d EXCEPT !.schema = @ \cup FreeKey(s.key[1], @)]
      [] s.op = "delete" -> [d EXCEPT !.rows = @ \ s.bad]
      [] s.op = "spread" -> [d EXCEPT !.rows =
                                IF s.key \in @ THEN @ \cup s.bad ELSE @]
      [] OTHER -> d

\* A build that fails on rows leaves its index behind, invalid; IF NOT EXISTS then skips
\* it.
Building(objs, s) == s.op = "build" /\ s.key \notin objs /\ Whole(s.key[1]) \in objs

Do(d, s) ==
    IF ~ d.ok THEN d
    ELSE IF ~ StatementFails(d, s) THEN StatementDone(d, s)
    ELSE IF ~ Building(d.schema, s) THEN [d EXCEPT !.ok = FALSE]
    ELSE [d EXCEPT !.ok = FALSE, !.schema = @ \cup s.objs, !.invalid = @ \cup s.objs]

Run(d, statements) ==
    LET After[i \in 0..Len(statements)] ==
            IF i = 0 THEN d ELSE Do(After[i - 1], statements[i])
    IN  After[Len(statements)]

-----------------------------------------------------------------------------
\* The migrations, oldest first. "tx": it is one transaction.

Type(e) == <<"type", e>>
Stamps == {"created_at", "updated_at"}

CreateEnums == [tx |-> TRUE,
    up |-> <<Ensure(Type("enum_users_role")), Ensure(Type("enum_goal_type")),
             Ensure(Type("enum_metric_log_type"))>>,
    down |-> <<Clear({Type("enum_users_role"), Type("enum_goal_type"),
                      Type("enum_metric_log_type")})>>]

EnableUuid == [tx |-> TRUE, up |-> <<Ensure(Type("uuid-ossp"))>>,
    down |-> <<Clear({Type("uuid-ossp")})>>]

\* An ENUM column brings its type along when there is none.
CreateUsers == [tx |-> TRUE,
    up |-> <<Need({Type("uuid-ossp")}), Ensure(Type("enum_users_role")),
             Table("users", {"id", "username", "username_unique", "email",
                             "email_unique", "password", "role", "is_public_profile",
                             "deleted_at"} \cup Stamps)>>,
    down |-> <<DropTable("users"), Clear({Type("enum_users_role")})>>]

CreateCategories == [tx |-> TRUE,
    up |-> <<Need({Whole("users"), Type("uuid-ossp")}),
             Table("metric_categories",
                   {"id", "user_id", "name", "color", "icon", "deleted_at"} \cup Stamps)>>,
    down |-> <<DropTable("metric_categories")>>]

CreateMetrics == [tx |-> TRUE,
    up |-> <<Need({Whole("users"), Whole("metric_categories"), Type("uuid-ossp")}),
             Table("metrics", {"id", "user_id", "category_id", "original_metric_id",
                               "name", "description", "default_unit", "is_public",
                               "deleted_at"} \cup Stamps)>>,
    down |-> <<DropTable("metrics")>>]

CreateSettings == [tx |-> TRUE,
    up |-> <<Ensure(Type("enum_goal_type")), Need({Whole("metrics"), Type("uuid-ossp")}),
             Table("metric_settings",
                   {"id", "metric_id", "goal_enabled", "goal_type", "goal_value",
                    "time_frame_enabled", "start_date", "deadline_date", "alert_enabled",
                    "alert_thresholds", "is_achieved", "is_active",
                    "display_options"} \cup Stamps)>>,
    down |-> <<DropTable("metric_settings"), Clear({Type("enum_goal_type")})>>]

CreateLogs == [tx |-> TRUE,
    up |-> <<Need({Whole("metrics"), Type("uuid-ossp")}),
             Ensure(Type("enum_metric_logs_type")),
             Table("metric_logs",
                   {"id", "metric_id", "log_value", "type", "logged_at"} \cup Stamps),
             Add({<<"metric_logs", "uq_metric_logs_metric_id_logged_at">>}),
             Add({<<"metric_logs", "ix_metric_logs_metric_id_logged_at">>})>>,
    down |-> <<DropTable("metric_logs")>>]

CategoryIndexes == [tx |-> FALSE,
    up |-> <<Ensure(Type("pg_trgm")),
             Build("metric_categories", "idx_metric_categories_user_active"),
             BuildUnique("metric_categories", "uq_metric_categories_user_name",
                         {"dupCategory"}),
             Build("metric_categories", "gin_metric_categories_name_trgm")>>,
    down |-> <<Clear(In("metric_categories", {"gin_metric_categories_name_trgm"})),
               Clear(In("metric_categories", {"uq_metric_categories_user_name"})),
               Clear(In("metric_categories", {"idx_metric_categories_user_active"}))>>]

\* Mutant: the index on the name is not unique.
MetricIndexesNotUnique == [tx |-> FALSE,
    up |-> <<Build("metrics", "idx_metrics_user_name")>>,
    down |-> <<Clear(In("metrics", {"idx_metrics_user_name"}))>>]

MetricIndexes == [tx |-> FALSE,
    up |-> <<Build("metrics", "idx_metrics_user_created"),
             Build("metrics", "idx_metrics_user_updated"),
             BuildUnique("metrics", "uq_metrics_user_name", {"dupMetric"}),
             Build("metrics", "idx_metrics_category_active"),
             Build("metrics", "idx_metrics_original_metric_active"),
             Build("metrics", "idx_metrics_id_user_active")>>,
    down |-> <<Clear(In("metrics", {"idx_metrics_id_user_active"})),
               Clear(In("metrics", {"idx_metrics_original_metric_active"})),
               Clear(In("metrics", {"idx_metrics_category_active"})),
               Clear(In("metrics", {"uq_metrics_user_name"})),
               Clear(In("metrics", {"idx_metrics_user_updated"})),
               Clear(In("metrics", {"idx_metrics_user_created"}))>>]

SettingIndexes == [tx |-> FALSE,
    up |-> <<BuildUnique("metric_settings", "uq_metric_settings_metric", {"dupSettings"}),
             Build("metric_settings", "idx_metric_settings_active_metric"),
             Build("metric_settings", "idx_metric_settings_dashboard_flag")>>,
    down |-> <<Clear(In("metric_settings", {"idx_metric_settings_dashboard_flag"})),
               Clear(In("metric_settings", {"idx_metric_settings_active_metric"})),
               Clear(In("metric_settings", {"uq_metric_settings_metric"}))>>]

LogIndexes == [tx |-> FALSE,
    up |-> <<Build("metric_logs", "idx_metric_logs_metric_created"),
             Build("metric_logs", "idx_metric_logs_metric_logged"),
             Build("metric_logs", "idx_metric_logs_metric_log_value"),
             Build("metric_logs", "brin_metric_logs_logged"),
             Clear(In("metric_logs", {"ix_metric_logs_metric_id_logged_at"}))>>,
    down |-> <<Clear(In("metric_logs", {"brin_metric_logs_logged"})),
               Clear(In("metric_logs", {"idx_metric_logs_metric_log_value"})),
               Clear(In("metric_logs", {"idx_metric_logs_metric_logged"})),
               Clear(In("metric_logs", {"idx_metric_logs_metric_created"})),
               Build("metric_logs", "ix_metric_logs_metric_id_logged_at")>>]

\* Back to VARCHAR(255): a longer description refuses.
DescriptionToText == [tx |-> TRUE,
    up |-> <<Ensure(<<"metrics", "description_text">>)>>,
    down |-> <<Refuse({"longText"}), Clear({<<"metrics", "description_text">>})>>]

CreateProcessedMessages == [tx |-> TRUE,
    up |-> <<Table("processed_messages",
                   {"message_id", "queue", "processed_at", "key_message_id"})>>,
    down |-> <<DropTable("processed_messages")>>]

Links == {"id", "user_id", "token_hash", "token_hash_unique", "expires_at",
          "used_at"} \cup Stamps

CreatePasswordResetTokens == [tx |-> TRUE,
    up |-> <<Need({Whole("users"), Type("uuid-ossp")}),
             Table("password_reset_tokens", Links),
             Add({<<"password_reset_tokens",
                    "password_reset_tokens_user_id_used_at_idx">>})>>,
    down |-> <<DropTable("password_reset_tokens")>>]

CreateRefreshTokens == [tx |-> TRUE,
    up |-> <<Need({Whole("users")}),
             Table("refresh_tokens",
                   {"id", "user_id", "family_id", "token_hash", "token_hash_unique",
                    "issued_at", "expires_at", "revoked_at", "replaced_by_id",
                    "user_agent", "ip"} \cup Stamps),
             Add({<<"refresh_tokens", "idx_refresh_tokens_user_revoked">>}),
             Add({<<"refresh_tokens", "idx_refresh_tokens_family">>})>>,
    down |-> <<DropTable("refresh_tokens")>>]

AddEmailVerifiedAt == [tx |-> TRUE,
    up |-> <<Add({<<"users", "email_verified_at">>})>>,
    down |-> <<Drop({<<"users", "email_verified_at">>})>>]

CreateEmailVerificationTokens == [tx |-> TRUE,
    up |-> <<Need({Whole("users"), Type("uuid-ossp")}),
             Table("email_verification_tokens", Links),
             Add({<<"email_verification_tokens",
                    "email_verification_tokens_user_id_used_at_idx">>})>>,
    down |-> <<DropTable("email_verification_tokens")>>]

CreateOrganizations == [tx |-> TRUE,
    up |-> <<Table("organizations",
                   {"id", "name", "slug", "slug_unique", "deleted_at"} \cup Stamps),
             Add({<<"organizations", "idx_organizations_slug">>})>>,
    down |-> <<DropTable("organizations")>>]

Status == In("memberships", {"status", "chk_memberships_status"})

CreateMemberships == [tx |-> TRUE,
    up |-> <<Need({Whole("users"), Whole("organizations")}),
             Table("memberships", {"id", "user_id", "organization_id", "role", "status",
                                   "joined_at"} \cup Stamps),
             Add({<<"memberships", "chk_memberships_role">>}),
             Add({<<"memberships", "chk_memberships_status">>}),
             Add({<<"memberships", "uq_memberships_user_organization">>}),
             Add({<<"memberships", "idx_memberships_organization_id">>})>>,
    down |-> <<Spread("guest", "leftOrg"), DropTable("memberships")>>]

CreateInvites == [tx |-> TRUE,
    up |-> <<Need({Whole("organizations")}),
             Table("organization_invites",
                   {"id", "organization_id", "email", "role", "token_hash",
                    "token_hash_unique", "expires_at", "accepted_at", "created_at"}),
             Add({<<"organization_invites", "chk_organization_invites_role">>}),
             Add({<<"organization_invites", "idx_organization_invites_org_id">>})>>,
    down |-> <<DropTable("organization_invites")>>]

\* Every user in no organization gets one, under a slug of their own, and owns it. Undoing
\* it deletes every owner, and the organizations nobody is left in.
BackfillOrganizations == [tx |-> TRUE,
    up |-> <<Refuse({"leftOrg"}), Need({<<"memberships", "status">>}),
             Delete({"ownerless"})>>,
    down |-> <<Need({Whole("memberships"), Whole("organizations")}), Delete({"leftOrg"}),
               Spread("guest", "leftOrg")>>]

DomainTables == {"metrics", "metric_categories", "metric_settings", "metric_logs"}
ForEach(S(_)) ==
    <<S("metrics"), S("metric_categories"), S("metric_settings"), S("metric_logs")>>
OrgColumn(t) == {<<t, "organization_id">>}

\* A column takes its constraints and its indexes with it.
WithKeys(t) == In(t, Range(Keys))

\* A row whose owner has no organization keeps none.
AddOrganizationId == [tx |-> TRUE,
    up |-> LET AddTo(t) == Add(OrgColumn(t))
           IN  ForEach(AddTo) \o ForEach(Reference)
               \o <<Add(OrgColumn("processed_messages")), Spread("ownerless", "noOrg")>>,
    down |-> LET DropFrom(t) == Drop(OrgColumn(t))
                 DropKeys(t) == Clear(WithKeys(t))
             IN  ForEach(DropFrom) \o ForEach(DropKeys)
                 \o <<Drop(OrgColumn("processed_messages")), Delete({"noOrg"})>>]

\* changeColumn adds a foreign key again, up and down.
SetOrganizationIdNotNull == [tx |-> TRUE,
    up |-> LET NotNull(t) == Ensure(<<t, "organization_id_not_null">>)
               Index(t) == Add({<<t, "idx_organization_id">>})
           IN  <<Need((DomainTables \cup {"processed_messages"}) \X {"organization_id"}),
                 Refuse({"noOrg"})>> \o ForEach(NotNull) \o ForEach(Reference)
               \o ForEach(Index) \o <<Index("processed_messages")>>,
    down |-> LET Nullable(t) == Clear({<<t, "organization_id_not_null">>})
                 NoIndex(t) == Clear({<<t, "idx_organization_id">>})
             IN  ForEach(NoIndex) \o <<NoIndex("processed_messages")>>
                 \o ForEach(Nullable) \o ForEach(Reference)]

AddOrganizationToRefreshTokens == [tx |-> TRUE,
    up |-> <<Add(OrgColumn("refresh_tokens"))>>,
    down |-> <<Drop(OrgColumn("refresh_tokens"))>>]

\* Mutant: added without a look.
AddMembershipStatusAgain == [tx |-> TRUE, up |-> <<Add(Status)>>, down |-> <<Drop(Status)>>]

\* Skipped where the column exists; undone all the same.
AddMembershipStatus == [tx |-> TRUE,
    up |-> <<Statement("ensure", <<"memberships", "status">>, Status, {})>>,
    down |-> <<Clear({<<"memberships", "chk_memberships_status">>}),
               Drop({<<"memberships", "status">>})>>]

\* Mutant: nothing to undo.
DropUsersRoleForGood == [tx |-> TRUE, up |-> <<Drop({<<"users", "role">>})>>, down |-> <<>>]

DropUsersRole == [tx |-> TRUE,
    up |-> <<Drop({<<"users", "role">>})>>,
    down |-> <<Ensure(Type("enum_users_role")), Add({<<"users", "role">>})>>]

DropDuplicateKeys == [tx |-> TRUE,
    up |-> LET DropKey(t) == Clear({<<t, "fkey1">>})
           IN  ForEach(DropKey) \o <<Unused({<<"users", "role">>}),
                                     Clear({Type("enum_users_role")}),
                                     Clear({Type("enum_metric_log_type")})>>,
    down |-> LET AddKey(t) == Add({<<t, "fkey1">>})
             IN  ForEach(AddKey) \o <<Ensure(Type("enum_users_role")),
                                      Ensure(Type("enum_metric_log_type"))>>]

PendingInvite == <<"organization_invites", "uq_organization_invites_pending_email">>

UniquePendingInvite == [tx |-> TRUE,
    up |-> <<Delete({"dupExpired"}), Refuse({"dupLive"}),
             AddUnique(PendingInvite, {"dupExpired", "dupLive"})>>,
    down |-> <<Clear({PendingInvite})>>]

KeyOf(columns) == <<"processed_messages", columns>>
ProcessedAtIndex == <<"processed_messages", "processed_messages_processed_at_idx">>

ProcessedKeyPerQueue == [tx |-> TRUE,
    up |-> <<Clear({KeyOf("key_message_id"), KeyOf("key_message_id_queue")}),
             Add({KeyOf("key_message_id_queue")}), Add({ProcessedAtIndex})>>,
    down |-> <<Refuse({"sharedId"}), Clear({ProcessedAtIndex}),
               Clear({KeyOf("key_message_id"), KeyOf("key_message_id_queue")}),
               Add({KeyOf("key_message_id")})>>]

Migration == <<CreateEnums, EnableUuid, CreateUsers, CreateCategories, CreateMetrics,
    CreateSettings, CreateLogs, CategoryIndexes, MetricIndexes, SettingIndexes,
    LogIndexes, DescriptionToText, CreateProcessedMessages, CreatePasswordResetTokens,
    CreateRefreshTokens, AddEmailVerifiedAt, CreateEmailVerificationTokens,
    CreateOrganizations, CreateMemberships, CreateInvites, BackfillOrganizations,
    AddOrganizationId, SetOrganizationIdNotNull, AddOrganizationToRefreshTokens,
    AddMembershipStatus, DropUsersRole, DropDuplicateKeys, UniquePendingInvite,
    ProcessedKeyPerQueue>>
All == Len(Migration)
-----------------------------------------------------------------------------
\* What the models read and write: the columns, and the constraints whose violation the
\* repositories turn into an answer.

Row == {"id"} \cup Stamps

UserModel == In("users", Row \cup {"username", "email", "password", "is_public_profile",
    "email_verified_at", "deleted_at", "username_unique", "email_unique"})
RefreshTokenModel == In("refresh_tokens", Row \cup {"user_id", "organization_id",
    "family_id", "token_hash", "issued_at", "expires_at", "revoked_at", "replaced_by_id",
    "user_agent", "ip", "token_hash_unique"})
PasswordResetTokenModel == In("password_reset_tokens", Row \cup
    {"user_id", "token_hash", "expires_at", "used_at", "token_hash_unique"})
EmailVerificationTokenModel == In("email_verification_tokens", Row \cup
    {"user_id", "token_hash", "expires_at", "used_at", "token_hash_unique"})
OrganizationModel == In("organizations", Row \cup
    {"name", "slug", "deleted_at", "slug_unique"})
MembershipModel == In("memberships", Row \cup {"user_id", "organization_id", "role",
    "status", "joined_at", "uq_memberships_user_organization"})
OrganizationInviteModel == In("organization_invites", {"id", "organization_id", "email",
    "role", "token_hash", "expires_at", "accepted_at", "created_at",
    "uq_organization_invites_pending_email"})
CategoryModel == In("metric_categories", Row \cup {"user_id", "organization_id", "name",
    "color", "icon", "deleted_at", "uq_metric_categories_user_name"})
MetricModel == In("metrics", Row \cup {"user_id", "organization_id", "category_id",
    "original_metric_id", "name", "description", "default_unit", "is_public",
    "deleted_at", "uq_metrics_user_name"})
SettingsModel == In("metric_settings", Row \cup {"metric_id", "organization_id",
    "goal_enabled", "goal_type", "goal_value", "time_frame_enabled", "start_date",
    "deadline_date", "alert_enabled", "alert_thresholds", "is_achieved", "is_active",
    "display_options", "uq_metric_settings_metric"})
LogModel == In("metric_logs", Row \cup {"metric_id", "organization_id", "log_value",
    "type", "logged_at", "uq_metric_logs_metric_id_logged_at"})
ProcessedMessageModel == In("processed_messages",
    {"message_id", "queue", "organization_id", "processed_at", "key_message_id_queue"})

Models == UserModel \cup RefreshTokenModel \cup PasswordResetTokenModel
    \cup EmailVerificationTokenModel \cup OrganizationModel \cup MembershipModel
    \cup OrganizationInviteModel \cup CategoryModel \cup MetricModel
    \cup SettingsModel \cup LogModel \cup ProcessedMessageModel

-----------------------------------------------------------------------------
\* The runner: sequelize-cli, external.

Idle == [dir |-> "idle", left |-> <<>>]
Database == [schema |-> schema, invalid |-> invalid, rows |-> rows, ok |-> TRUE]

Init ==
    /\ schema = {} /\ invalid = {} /\ rows = {}
    /\ recorded = 0
    /\ job = Idle
    /\ torn = "no"
    /\ gaps = {}
    /\ refused = <<>>
    /\ faults = 0

Set(d) == schema' = d.schema /\ invalid' = d.invalid /\ rows' = d.rows

\* The migration db:migrate would run, or db:migrate:undo would undo.
Number(dir) == IF dir = "up" THEN recorded + 1 ELSE recorded
Statements(dir) == Migration[Number(dir)][dir]

\* The migrations on record that may have been undone.
Doubtful == gaps \cup (IF torn = "down" THEN {recorded} ELSE {})

\* A migration begins. db:migrate goes on from the record, whatever an undo that was cut
\* off took; nobody undoes what a broken db:migrate has not finished.
Begin(dir) ==
    /\ job = Idle
    /\ Number(dir) \in 1..All
    /\ torn = "up" => dir = "up"

\* The undo that was cut off is run over.
GoOn(dir) ==
    /\ gaps' = IF dir = "up" THEN Doubtful ELSE gaps
    /\ torn' = IF dir = "up" /\ torn = "down" THEN "no" ELSE torn

\* One transaction: all of its statements or none.
MigrateInTransaction(dir) ==
    /\ Begin(dir)
    /\ Migration[Number(dir)].tx
    /\ LET d == Run(Database, Statements(dir))
       IN  \/ /\ d.ok
              /\ Set(d)
              /\ job' = [dir |-> dir, left |-> <<>>]
              /\ refused' = <<>>
              /\ GoOn(dir)
           \/ /\ ~ d.ok
              /\ refused' = <<dir, Number(dir)>>
              /\ UNCHANGED <<schema, invalid, rows, job, torn, gaps>>
    /\ UNCHANGED <<recorded, faults>>

StartStatements(dir) ==
    /\ Begin(dir)
    /\ ~ Migration[Number(dir)].tx
    /\ job' = [dir |-> dir, left |-> Statements(dir)]
    /\ refused' = <<>>
    /\ GoOn(dir)
    /\ UNCHANGED <<schema, invalid, rows, recorded, faults>>

\* runStatements: the next one, until one fails.
RunStatement ==
    /\ job.left # <<>>
    /\ LET d == Do(Database, Head(job.left))
       IN  /\ Set(d)
           /\ job' = IF d.ok THEN [job EXCEPT !.left = Tail(@)] ELSE Idle
           /\ refused' = IF d.ok THEN <<>> ELSE <<job.dir, Number(job.dir)>>
           /\ torn' = IF d.ok THEN torn ELSE job.dir
    /\ UNCHANGED <<recorded, gaps, faults>>

Enter(dir) ==
    /\ recorded' = IF dir = "up" THEN recorded + 1 ELSE recorded - 1
    /\ gaps' = IF dir = "up" THEN gaps ELSE gaps \ {recorded}
    /\ torn' = "no"

\* The row of SequelizeMeta is written, or removed.
Record ==
    /\ job.dir # "idle"
    /\ job.left = <<>>
    /\ Enter(job.dir)
    /\ job' = Idle
    /\ refused' = <<>>
    /\ UNCHANGED <<schema, invalid, rows, faults>>

\* The process dies: in the middle of a build, between two statements, or after the last
\* and before the record.
Crash ==
    /\ job.dir # "idle"
    /\ faults < MaxFaults
    /\ faults' = faults + 1
    /\ job' = Idle
    /\ torn' = job.dir
    /\ refused' = <<>>
    /\ \/ UNCHANGED <<schema, invalid>>
       \/ /\ job.left # <<>>
          /\ Building(schema, Head(job.left))
          /\ schema' = schema \cup Head(job.left).objs
          /\ invalid' = invalid \cup Head(job.left).objs
    /\ UNCHANGED <<rows, recorded, gaps>>

\* A migration that cannot run again is entered in, or struck from, SequelizeMeta by hand.
RecordByHand ==
    /\ job = Idle
    /\ \E dir \in {"up", "down"} :
         /\ torn = dir \/ (dir = "down" /\ recorded \in gaps)
         /\ refused = <<dir, Number(dir)>>
         /\ Migration[Number(dir)].tx
         /\ Enter(dir)
    /\ refused' = <<>>
    /\ UNCHANGED <<schema, invalid, rows, job, faults>>

-----------------------------------------------------------------------------
\* The service keeps writing while the database migrates, and the code that runs is the
\* one deployed before. What it writes is troublesome where nothing prevents it: two
\* requests that pass a check together, code that knows no organization, a member invited,
\* or a founder removed by another owner.

Works(o) == o \in schema /\ o \notin invalid

UniqueName == [dupCategory |-> <<"metric_categories", "uq_metric_categories_user_name">>,
               dupMetric |-> <<"metrics", "uq_metrics_user_name">>,
               dupSettings |-> <<"metric_settings", "uq_metric_settings_metric">>,
               dupExpired |-> PendingInvite, dupLive |-> PendingInvite]

Possible(p) ==
    CASE p \in DOMAIN UniqueName -> ~ Works(UniqueName[p])
      [] p = "ownerless" -> <<"metrics", "organization_id_not_null">> \notin schema
      [] p = "noOrg" -> /\ <<"metrics", "organization_id">> \in schema
                        /\ <<"metrics", "organization_id_not_null">> \notin schema
      [] p = "longText" -> <<"metrics", "description_text">> \in schema
      [] p = "sharedId" -> KeyOf("key_message_id_queue") \in schema
      [] p = "guest" -> Whole("organization_invites") \in schema
      [] p = "leftOrg" -> Whole("memberships") \in schema

Traffic(p) ==
    /\ p \notin rows
    /\ Cardinality(rows) < MaxProblems
    /\ Whole(Home[p]) \in schema
    /\ Possible(p)
    /\ rows' = rows \cup {p}
    /\ refused' = <<>>
    /\ UNCHANGED <<schema, invalid, recorded, job, torn, gaps, faults>>

\* "Remove all but one of each by hand, then run this migration again."
Repair(p) ==
    /\ p \in rows
    /\ rows' = rows \ {p}
    /\ refused' = <<>>
    /\ UNCHANGED <<schema, invalid, recorded, job, torn, gaps, faults>>

Next ==
    \/ \E dir \in {"up", "down"} : MigrateInTransaction(dir) \/ StartStatements(dir)
    \/ RunStatement \/ Record \/ Crash \/ RecordByHand
    \/ \E p \in Problem : Traffic(p) \/ Repair(p)

Spec == Init /\ [][Next]_vars

-----------------------------------------------------------------------------
\* What undoing a migration takes.
Removes(s, o) == \/ s.op \in {"drop", "clear"} /\ o \in s.objs
                 \/ s.op = "dropTable" /\ o[1] = s.key[1]
TakenBy(k) == {o \in Models : \E s \in Range(Migration[k].down) : Removes(s, o)}

-----------------------------------------------------------------------------
\* The schemas of a database that was only ever migrated up, without a fault: the one
\* before the first migration, and the one after each.
Schemas ==
    FoldLeft(LAMBDA before, m :
                 Append(before, Run([schema |-> Last(before), invalid |-> {}, rows |-> {},
                                     ok |-> TRUE], m.up).schema),
             <<{}>>, Migration)
Fresh(k) == Schemas[k + 1]

Settled == job = Idle /\ torn = "no" /\ gaps = {}

\* Undoing a migration leaves types and an extension behind, and the foreign keys that
\* changeColumn added again; it takes the enum types of the first migration with it,
\* and memberships.status, which another migration made.
Residue(k) ==
    (IF k <= 6 THEN {Type("enum_metric_logs_type")} ELSE {})
    \cup (IF k <= 7 THEN {Type("pg_trgm")} ELSE {})
    \cup (IF k >= 22 THEN DomainTables \X {"fkey2", "fkey3", "fkey4"} ELSE {})
    \cup (IF k = 22 THEN DomainTables \X {"fkey1"} ELSE {})
Loss(k) == (IF k \in 19..24 THEN Status ELSE {})
    \cup (IF k <= 5 THEN {Type("enum_goal_type")} ELSE {})
    \cup (IF k <= 2 THEN {Type("enum_users_role")} ELSE {})

\* Whatever was undone, run again, cut off or repaired, the migrations on record decide
\* the schema: it is the one a new database would have, but for what undoing is known
\* to leave or to take (20260816 down: "lands on exactly what the previous migration
\* produced").
SchemaAsRecorded ==
    Settled => /\ schema \subseteq Fresh(recorded) \cup Residue(recorded)
               /\ Fresh(recorded) \subseteq schema \cup Loss(recorded)

\* Once every migration is recorded, rows that a unique index is to prevent exist only
\* where the build of that index failed once and was skipped when the migration ran again.
DuplicatesHaveAReason ==
    (Settled /\ recorded = All) =>
        \A p \in DOMAIN UniqueName \cap rows : UniqueName[p] \in invalid

\* The rows that stop a migration, and the migrations that cannot be done, or undone,
\* twice.
Blocking ==
    [k \in {<<"up", 8>>, <<"up", 9>>, <<"up", 10>>, <<"up", 21>>, <<"up", 23>>,
            <<"up", 28>>, <<"down", 12>>, <<"down", 29>>} |->
        CASE k = <<"up", 8>> -> "dupCategory" [] k = <<"up", 9>> -> "dupMetric"
          [] k = <<"up", 10>> -> "dupSettings" [] k = <<"up", 21>> -> "leftOrg"
          [] k = <<"up", 23>> -> "noOrg" [] k = <<"up", 28>> -> "dupLive"
          [] k = <<"down", 12>> -> "longText" [] k = <<"down", 29>> -> "sharedId"]
OnceOnly == {<<"up", k>> : k \in {7, 14, 15, 16, 17, 18, 19, 20, 22, 23, 24, 26, 28, 29}}
    \cup {<<"down", k>> : k \in {16, 22, 24, 25, 26, 27}}

\* A migration that fails has one of four causes: rows a person must settle first, a
\* lost record of a change that cannot be made twice, memberships.status taken by
\* undoing past the migration that fills memberships, or, going up, an earlier migration
\* that is on record and may have been undone.
FailsForAReason ==
    refused # <<>> =>
        \/ refused \in DOMAIN Blocking /\ Blocking[refused] \in rows
        \/ refused \in OnceOnly /\ (torn = refused[1] \/ recorded \in gaps)
        \/ refused = <<"up", 21>> /\ <<"memberships", "status">> \notin schema
        \/ refused[1] = "up" /\ Doubtful # {}
=============================================================================
