----------------------------- MODULE Revisions -----------------------------
(***************************************************************************)
(* The eight revisions under backend/alembic/versions, each as the         *)
(* sequence of statements its upgrade() and its downgrade() issue, in      *)
(* their order.  The tables of the prototype are written out once for the  *)
(* upgrade that creates them and once for the downgrade that restores      *)
(* them, as they are in the code: that the two agree is checked.           *)
(***************************************************************************)
EXTENDS Schema

-----------------------------------------------------------------------------
\* 001: the initial schema of the analysis prototype.

Enums001 ==
    <<CreateType("user_role", {"admin", "analyst", "viewer"}),
      CreateType("file_type", {"log", "workflow_yaml", "terraform", "other"}),
      CreateType("pipeline_run_status",
          {"pending", "processing", "completed", "failed"}),
      CreateType("evidence_type",
          {"log_line", "config_snippet", "stack_trace", "metric"}),
      CreateType("risk_level", {"low", "medium", "high", "critical"})>>

Core001 ==
    <<CreateTable("users",
          << >>,
          [hashed_password |-> "varchar_255", full_name |-> "varchar_255",
           role |-> "user_role"],
          {<<"email">>}, {"email"}),
      CreateTable("failure_categories",
          << >>, << >>, {<<"name">>, <<"slug">>}, {"slug"}),
      CreateTable("model_versions",
          << >>, << >>, {<<"name", "version">>}, {"name"}),
      CreateTable("uploaded_files",
          [user_id |-> Cascade("users")], [file_type |-> "file_type"], {},
          {"user_id_created_at"}),
      CreateTable("pipeline_runs",
          [uploaded_file_id |-> Cascade("uploaded_files"),
           user_id |-> Cascade("users"),
           workflow_file_id |-> SetNull("uploaded_files")],
          [status |-> "pipeline_run_status"], {},
          {"user_id_status_created_at", "uploaded_file_id",
           "workflow_file_id"})>>

Findings001 ==
    <<CreateTable("predictions",
          [category_id |-> Restricts("failure_categories"),
           model_version_id |-> SetNull("model_versions"),
           pipeline_run_id |-> Cascade("pipeline_runs")],
          << >>, {}, {"pipeline_run_id", "category_id", "model_version_id"}),
      CreateTable("evidence_items",
          [pipeline_run_id |-> Cascade("pipeline_runs"),
           prediction_id |-> SetNull("predictions")],
          [evidence_type |-> "evidence_type"], {},
          {"pipeline_run_id", "prediction_id"}),
      CreateTable("recommendations",
          [pipeline_run_id |-> Cascade("pipeline_runs"),
           prediction_id |-> SetNull("predictions")],
          [risk_level |-> "risk_level"], {},
          {"pipeline_run_id", "prediction_id"})>>

Reviews001 ==
    <<CreateTable("evaluations",
          [model_version_id |-> Cascade("model_versions"),
           user_id |-> SetNull("users")],
          << >>, {}, {"model_version_id", "user_id"}),
      CreateTable("feedback",
          [pipeline_run_id |-> Cascade("pipeline_runs"),
           recommendation_id |-> SetNull("recommendations"),
           user_id |-> Cascade("users")],
          << >>, {}, {"user_id", "pipeline_run_id", "recommendation_id"}),
      CreateTable("analysis_history",
          [pipeline_run_id |-> Cascade("pipeline_runs"),
           user_id |-> Cascade("users")],
          << >>, {}, {"user_id_created_at", "pipeline_run_id"})>>

Upgrade001 == Enums001 \o Core001 \o Findings001 \o Reviews001

Downgrade001 ==
    <<DropTable("analysis_history", {"pipeline_run_id", "user_id_created_at"}),
      DropTable("feedback",
          {"recommendation_id", "pipeline_run_id", "user_id"}),
      DropTable("evaluations", {"user_id", "model_version_id"}),
      DropTable("recommendations", {"prediction_id", "pipeline_run_id"}),
      DropTable("evidence_items", {"prediction_id", "pipeline_run_id"}),
      DropTable("predictions",
          {"model_version_id", "category_id", "pipeline_run_id"}),
      DropTable("pipeline_runs",
          {"workflow_file_id", "uploaded_file_id",
           "user_id_status_created_at"}),
      DropTable("uploaded_files", {"user_id_created_at"}),
      DropTable("model_versions", {"name"}),
      DropTable("failure_categories", {"slug"}),
      DropTable("users", {"email"}),
      DropType("risk_level"),
      DropType("evidence_type"),
      DropType("pipeline_run_status"),
      DropType("file_type"),
      DropType("user_role")>>

-----------------------------------------------------------------------------
\* 002: organizations, members, projects; users.role becomes platform_role.

Enums002 ==
    <<CreateType("platform_role", {"platform_admin", "none"}),
      CreateType("organization_status", {"active", "suspended", "archived"}),
      CreateType("organization_role",
          {"organization_owner", "organization_admin", "engineer", "viewer"}),
      CreateType("project_status", {"active", "paused", "archived"}),
      CreateType("ci_provider",
          {"github_actions", "gitlab", "jenkins", "other"}),
      CreateType("integration_status", {"active", "disabled", "error"})>>

Organizations002 ==
    <<CreateTable("organizations",
          << >>, [status |-> "organization_status"], {<<"slug">>}, {"slug"}),
      CreateTable("organization_members",
          [organization_id |-> Cascade("organizations"),
           user_id |-> Cascade("users")],
          [role |-> "organization_role"], {<<"organization_id", "user_id">>},
          {"organization_id", "user_id"}),
      CreateTable("projects",
          [organization_id |-> Restricts("organizations"),
           created_by |-> Restricts("users")],
          [ci_provider |-> "ci_provider", status |-> "project_status"],
          {<<"organization_id", "key">>}, {"organization_id", "created_by"}),
      CreateTable("project_integrations",
          [project_id |-> Cascade("projects")],
          [status |-> "integration_status"], {}, {"project_id"})>>

Users002 ==
    <<RenameColumn("users", "hashed_password", "password_hash"),
      AlterColumn("users", "full_name", "varchar_150"),
      AddColumn("users", "avatar_url", "text", Null),
      AddColumn("users", "last_login_at", "timestamptz", Null),
      AddColumn("users", "platform_role", "platform_role", "none"),
      UpdateUsers("platform_role", "platform_admin", "role", "admin"),
      DropColumn("users", "role"),
      DropType("user_role")>>

Upgrade002 == Enums002 \o Organizations002 \o Users002

\* Faulty variant: every account comes back with the default role.
RestoreUsers002_Defaults ==
    <<CreateType("user_role", {"admin", "analyst", "viewer"}),
      AddColumn("users", "role", "user_role", "analyst"),
      DropColumn("users", "platform_role"),
      DropColumn("users", "last_login_at"),
      DropColumn("users", "avatar_url"),
      AlterColumn("users", "full_name", "varchar_255"),
      RenameColumn("users", "password_hash", "hashed_password")>>

RestoreUsers002 ==
    <<CreateType("user_role", {"admin", "analyst", "viewer"}),
      AddColumn("users", "role", "user_role", "analyst"),
      UpdateUsers("role", "admin", "platform_role", "platform_admin"),
      DropColumn("users", "platform_role"),
      DropColumn("users", "last_login_at"),
      DropColumn("users", "avatar_url"),
      AlterColumn("users", "full_name", "varchar_255"),
      RenameColumn("users", "password_hash", "hashed_password")>>

DropOrganizations002 ==
    <<DropTable("project_integrations", {"project_id"}),
      DropTable("projects", {"created_by", "organization_id"}),
      DropTable("organization_members", {"user_id", "organization_id"}),
      DropTable("organizations", {"slug"}),
      DropType("integration_status"),
      DropType("ci_provider"),
      DropType("project_status"),
      DropType("organization_role"),
      DropType("organization_status"),
      DropType("platform_role")>>

Downgrade002 == RestoreUsers002 \o DropOrganizations002

-----------------------------------------------------------------------------
\* 003: the incident domain replaces the prototype's files and findings.
\* The enum types file_type and pipeline_run_status are dropped and created
\* again with other values.

\* Faulty variant: the enum types of the dropped tables stay.
DropLegacy003_KeepsTypes ==
    <<DropTable("feedback", {}),
      DropTable("analysis_history", {}),
      DropTable("recommendations", {}),
      DropTable("evidence_items", {}),
      DropTable("predictions", {}),
      DropTable("pipeline_runs", {}),
      DropTable("uploaded_files", {})>>

DropLegacy003 ==
    <<DropTable("feedback", {}),
      DropTable("analysis_history", {}),
      DropTable("recommendations", {}),
      DropTable("evidence_items", {}),
      DropTable("predictions", {}),
      DropTable("pipeline_runs", {}),
      DropTable("uploaded_files", {}),
      DropType("file_type"),
      DropType("pipeline_run_status")>>

Enums003 ==
    <<CreateType("file_type",
          {"log", "workflow_yaml", "terraform", "json", "zip", "other"}),
      CreateType("pipeline_run_status",
          {"queued", "running", "succeeded", "failed", "cancelled"}),
      CreateType("file_validation_status",
          {"pending", "valid", "invalid", "failed"}),
      CreateType("secret_masking_status",
          {"pending", "masked", "failed", "not_required"}),
      CreateType("file_processing_status",
          {"pending", "processing", "completed", "failed"}),
      CreateType("incident_status",
          {"detected", "analysing", "open", "in_progress", "resolved",
           "closed",
           "analysis_failed", "ignored", "false_positive", "reopened"}),
      CreateType("incident_severity", {"critical", "high", "medium", "low"}),
      CreateType("incident_priority", {"urgent", "high", "normal", "low"})>>

Runs003 ==
    <<CreateTable("pipeline_runs",
          [project_id |-> Cascade("projects")],
          [provider |-> "ci_provider", status |-> "pipeline_run_status"], {},
          {"project_id_created_at", "project_id_status",
           "provider_external_run_id"}),
      CreateTable("uploaded_files",
          [user_id |-> Restricts("users"), project_id |-> Cascade("projects"),
           pipeline_run_id |-> SetNull("pipeline_runs")],
          [file_type |-> "file_type",
           secret_masking_status |-> "secret_masking_status",
           validation_status |-> "file_validation_status",
           processing_status |-> "file_processing_status"],
          {}, {"project_id", "incident_id", "pipeline_run_id"})>>

Incidents003 ==
    <<CreateSequence("incident_number_seq"),
      CreateTable("incidents",
          [project_id |-> Restricts("projects"),
           pipeline_run_id |-> SetNull("pipeline_runs"),
           created_by |-> SetNull("users"),
           current_assignee_id |-> SetNull("users")],
          [status |-> "incident_status", severity |-> "incident_severity",
           priority |-> "incident_priority"],
          {<<"incident_number">>},
          {"project_id_created_at", "project_id_status", "severity_status",
           "current_assignee_id_status", "detected_at"})>>

Children003 ==
    <<CreateTable("incident_events",
          [incident_id |-> Cascade("incidents"),
           actor_user_id |-> SetNull("users")],
          << >>, {}, {"incident_id_occurred_at"}),
      CreateTable("incident_notes",
          [incident_id |-> Cascade("incidents"),
           author_id |-> Restricts("users")],
          << >>, {}, {"incident_id"}),
      CreateTable("incident_assignments",
          [incident_id |-> Cascade("incidents"),
           assigned_to |-> Restricts("users"),
           assigned_by |-> SetNull("users")],
          << >>, {}, {"incident_id"}),
      CreateTable("incident_resolutions",
          [incident_id |-> Cascade("incidents"),
           resolved_by |-> Restricts("users")],
          << >>, {}, {"incident_id"}),
      AddReference("uploaded_files", "incident_id", SetNull("incidents"))>>

Upgrade003 ==
    DropLegacy003 \o Enums003 \o Runs003 \o Incidents003 \o Children003

DropIncidents003 ==
    <<DropReference("uploaded_files", "incident_id"),
      DropTable("incident_resolutions", {"incident_id"}),
      DropTable("incident_assignments", {"incident_id"}),
      DropTable("incident_notes", {"incident_id"}),
      DropTable("incident_events", {"incident_id_occurred_at"}),
      DropTable("incidents",
          {"detected_at", "current_assignee_id_status", "severity_status",
           "project_id_status", "project_id_created_at"}),
      DropSequence("incident_number_seq"),
      DropTable("uploaded_files",
          {"pipeline_run_id", "incident_id", "project_id"}),
      DropTable("pipeline_runs",
          {"provider_external_run_id", "project_id_status",
           "project_id_created_at"}),
      DropType("incident_priority"),
      DropType("incident_severity"),
      DropType("incident_status"),
      DropType("file_processing_status"),
      DropType("secret_masking_status"),
      DropType("file_validation_status"),
      DropType("pipeline_run_status"),
      DropType("file_type")>>

RestoreFiles003 ==
    <<CreateType("file_type", {"log", "workflow_yaml", "terraform", "other"}),
      CreateType("pipeline_run_status",
          {"pending", "processing", "completed", "failed"}),
      CreateTable("uploaded_files",
          [user_id |-> Cascade("users")], [file_type |-> "file_type"], {},
          {"user_id_created_at"}),
      CreateTable("pipeline_runs",
          [uploaded_file_id |-> Cascade("uploaded_files"),
           user_id |-> Cascade("users"),
           workflow_file_id |-> SetNull("uploaded_files")],
          [status |-> "pipeline_run_status"], {},
          {"user_id_status_created_at", "uploaded_file_id",
           "workflow_file_id"})>>

RestoreFindings003 ==
    <<CreateTable("predictions",
          [category_id |-> Restricts("failure_categories"),
           model_version_id |-> SetNull("model_versions"),
           pipeline_run_id |-> Cascade("pipeline_runs")],
          << >>, {}, {"pipeline_run_id", "category_id", "model_version_id"}),
      CreateTable("evidence_items",
          [pipeline_run_id |-> Cascade("pipeline_runs"),
           prediction_id |-> SetNull("predictions")],
          [evidence_type |-> "evidence_type"], {},
          {"pipeline_run_id", "prediction_id"}),
      CreateTable("recommendations",
          [pipeline_run_id |-> Cascade("pipeline_runs"),
           prediction_id |-> SetNull("predictions")],
          [risk_level |-> "risk_level"], {},
          {"pipeline_run_id", "prediction_id"})>>

RestoreReviews003 ==
    <<CreateTable("feedback",
          [pipeline_run_id |-> Cascade("pipeline_runs"),
           recommendation_id |-> SetNull("recommendations"),
           user_id |-> Cascade("users")],
          << >>, {}, {"user_id", "pipeline_run_id", "recommendation_id"}),
      CreateTable("analysis_history",
          [pipeline_run_id |-> Cascade("pipeline_runs"),
           user_id |-> Cascade("users")],
          << >>, {}, {"user_id_created_at", "pipeline_run_id"})>>

Downgrade003 ==
    DropIncidents003 \o RestoreFiles003 \o RestoreFindings003 \o
    RestoreReviews003

-----------------------------------------------------------------------------
\* 004: analysis runs, and the findings that hang off them.

Enums004 ==
    <<CreateType("analysis_run_status",
          {"queued", "preprocessing", "classifying", "retrieving", "reasoning",
           "completed", "failed"}),
      CreateType("recommendation_step_type",
          {"remediation", "verification", "prevention"}),
      CreateType("model_version_status",
          {"training", "active", "deprecated", "failed"})>>

Catalogue004 ==
    <<DropTable("evaluations", {"user_id", "model_version_id"}),
      DropTable("model_versions", {"name"}),
      CreateTable("model_versions",
          << >>, [status |-> "model_version_status"],
          {<<"model_name", "version">>}, {"model_name"}),
      CreateTable("evaluations",
          [model_version_id |-> Cascade("model_versions")], << >>, {},
          {"model_version_id"}),
      DropTable("failure_categories", {"slug"}),
      CreateTable("failure_categories",
          [parent_id |-> Restricts("failure_categories")],
          [default_severity |-> "incident_severity"], {<<"code">>}, {"code"})>>

Runs004 ==
    <<CreateTable("analysis_runs",
          [incident_id |-> Cascade("incidents"),
           pipeline_run_id |-> SetNull("pipeline_runs"),
           requested_by |-> SetNull("users")],
          [status |-> "analysis_run_status"], {},
          {"incident_id_created_at", "status_created_at"}),
      AddReference("incidents", "latest_analysis_run_id",
                   SetNull("analysis_runs"))>>

Findings004 ==
    <<CreateTable("predictions",
          [analysis_run_id |-> Cascade("analysis_runs"),
           failure_category_id |-> Restricts("failure_categories"),
           model_version_id |-> Restricts("model_versions")],
          << >>, {<<"analysis_run_id", "rank">>}, {}),
      CreateTable("evidence_items",
          [analysis_run_id |-> Cascade("analysis_runs"),
           prediction_id |-> SetNull("predictions"),
           uploaded_file_id |-> SetNull("uploaded_files")],
          [evidence_type |-> "evidence_type"], {},
          {"analysis_run_id", "prediction_id"}),
      CreateTable("recommendations",
          [analysis_run_id |-> Cascade("analysis_runs"),
           prediction_id |-> SetNull("predictions")],
          << >>, {}, {"analysis_run_id", "prediction_id"})>>

Reviews004 ==
    <<CreateTable("recommendation_steps",
          [recommendation_id |-> Cascade("recommendations"),
           analysis_run_id |-> Cascade("analysis_runs")],
          [step_type |-> "recommendation_step_type",
           risk_level |-> "risk_level"],
          {<<"recommendation_id", "step_number">>}, {}),
      CreateTable("retrieved_documents",
          [analysis_run_id |-> Cascade("analysis_runs")], << >>, {},
          {"analysis_run_id"}),
      CreateTable("feedback",
          [user_id |-> Cascade("users"), incident_id |-> Cascade("incidents"),
           analysis_run_id |-> Cascade("analysis_runs"),
           prediction_id |-> SetNull("predictions"),
           recommendation_id |-> SetNull("recommendations")],
          << >>, {}, {"user_id", "incident_id", "analysis_run_id"})>>

Upgrade004 == Enums004 \o Catalogue004 \o Runs004 \o Findings004 \o Reviews004

DropRuns004 ==
    <<DropTable("feedback", {"analysis_run_id", "incident_id", "user_id"}),
      DropTable("retrieved_documents", {"analysis_run_id"}),
      DropTable("recommendation_steps", {}),
      DropTable("recommendations", {"prediction_id", "analysis_run_id"}),
      DropTable("evidence_items", {"prediction_id", "analysis_run_id"}),
      DropTable("predictions", {}),
      DropReference("incidents", "latest_analysis_run_id"),
      DropTable("analysis_runs",
          {"status_created_at", "incident_id_created_at"})>>

RestoreCatalogue004 ==
    <<DropTable("failure_categories", {"code"}),
      CreateTable("failure_categories",
          << >>, << >>, {<<"name">>, <<"slug">>}, {"slug"}),
      DropTable("evaluations", {"model_version_id"}),
      DropTable("model_versions", {"model_name"}),
      CreateTable("model_versions",
          << >>, << >>, {<<"name", "version">>}, {"name"}),
      CreateTable("evaluations",
          [model_version_id |-> Cascade("model_versions"),
           user_id |-> SetNull("users")],
          << >>, {}, {"model_version_id", "user_id"}),
      DropType("model_version_status"),
      DropType("recommendation_step_type"),
      DropType("analysis_run_status")>>

Downgrade004 == DropRuns004 \o RestoreCatalogue004

-----------------------------------------------------------------------------
\* 005: reports, notifications, the audit log.

Upgrade005 ==
    <<CreateType("notification_type",
          {"incident_created", "analysis_completed", "analysis_failed",
           "assignment", "system"}),
      CreateType("delivery_status", {"pending", "sent", "failed", "read"}),
      CreateType("generation_status",
          {"pending", "generating", "completed", "failed"}),
      CreateTable("incident_reports",
          [incident_id |-> Cascade("incidents"),
           generated_by |-> SetNull("users")],
          [generation_status |-> "generation_status"], {}, {"incident_id"}),
      CreateTable("notifications",
          [user_id |-> Cascade("users"), incident_id |-> SetNull("incidents")],
          [notification_type |-> "notification_type",
           delivery_status |-> "delivery_status"],
          {}, {"user_id_is_read_created_at", "incident_id"}),
      CreateTable("audit_logs",
          [organization_id |-> SetNull("organizations"),
           user_id |-> SetNull("users")],
          << >>, {}, {"organization_id", "user_id",
                      "resource_type_resource_id"})>>

Downgrade005 ==
    <<DropTable("audit_logs",
          {"resource_type_resource_id", "user_id", "organization_id"}),
      DropTable("notifications",
          {"incident_id", "user_id_is_read_created_at"}),
      DropTable("incident_reports", {"incident_id"}),
      DropType("generation_status"),
      DropType("delivery_status"),
      DropType("notification_type")>>

-----------------------------------------------------------------------------
\* 006: the knowledge base.

Upgrade006 ==
    <<CreateType("knowledge_document_status",
          {"active", "outdated", "archived"}),
      CreateTable("knowledge_documents",
          << >>, [status |-> "knowledge_document_status"], {}, {}),
      CreateTable("knowledge_chunks",
          [document_id |-> Cascade("knowledge_documents")], << >>, {},
          {"document_id"}),
      AddReference("retrieved_documents", "knowledge_chunk_id",
                   Cascade("knowledge_chunks")),
      CreateIndex("retrieved_documents", "knowledge_chunk_id")>>

\* Faulty variant: the tables go before the reference to them.
Downgrade006_TablesFirst ==
    <<DropIndex("retrieved_documents", "knowledge_chunk_id"),
      DropTable("knowledge_chunks", {"document_id"}),
      DropTable("knowledge_documents", {}),
      DropReference("retrieved_documents", "knowledge_chunk_id"),
      DropType("knowledge_document_status")>>

Downgrade006 ==
    <<DropIndex("retrieved_documents", "knowledge_chunk_id"),
      DropReference("retrieved_documents", "knowledge_chunk_id"),
      DropTable("knowledge_chunks", {"document_id"}),
      DropTable("knowledge_documents", {}),
      DropType("knowledge_document_status")>>

-----------------------------------------------------------------------------
\* 007: what is left of the prototype goes, incidents get partial and GIN indexes.

Upgrade007 ==
    <<DropTableIfExists("analysis_history"),
      DropType("user_role"),
      CreateSequence("incident_number_seq"),
      CreateIndexIfMissing("incidents", "open"),
      CreateIndexIfMissing("incidents", "search"),
      CreateIndexIfMissing("incidents", "tags")>>

Downgrade007 ==
    <<DropIndexIfExists("incidents", "tags"),
      DropIndexIfExists("incidents", "search"),
      DropIndexIfExists("incidents", "open")>>

-----------------------------------------------------------------------------
\* 008: refresh tokens.

Upgrade008 ==
    <<CreateTable("refresh_tokens",
          [user_id |-> Cascade("users")], << >>, {<<"jti">>, <<"token_hash">>},
          {"user_id", "jti", "token_hash"})>>

Downgrade008 ==
    <<DropTable("refresh_tokens", {"token_hash", "jti", "user_id"})>>

-----------------------------------------------------------------------------
Upgrades == <<Upgrade001, Upgrade002, Upgrade003, Upgrade004,
              Upgrade005, Upgrade006, Upgrade007, Upgrade008>>
Downgrades == <<Downgrade001, Downgrade002, Downgrade003, Downgrade004,
                Downgrade005, Downgrade006, Downgrade007, Downgrade008>>

\* The revisions are numbered by down_revision: 0 is base, HeadRevision the last one.
HeadRevision == Len(Upgrades)
=============================================================================
