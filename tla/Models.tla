------------------------------- MODULE Models -------------------------------
(***************************************************************************)
(* The schema the application is written against: one definition for each  *)
(* SQLAlchemy model under backend/app/infrastructure/database/models, with *)
(* what Schema keeps of a table, and the values of the domain enumerations *)
(* behind the enum types.  The models' relationships are left out.         *)
(***************************************************************************)
EXTENDS Schema

\* The enumerations and the type each is stored as.
EnumTypes ==
    [platform_role |-> {"platform_admin", "none"},
     organization_role |->
        {"organization_owner", "organization_admin", "engineer", "viewer"},
     organization_status |-> {"active", "suspended", "archived"},
     project_status |-> {"active", "paused", "archived"},
     ci_provider |-> {"github_actions", "gitlab", "jenkins", "other"},
     integration_status |-> {"active", "disabled", "error"},
     file_type |->
        {"log", "workflow_yaml", "terraform", "json", "zip", "other"},
     file_validation_status |-> {"pending", "valid", "invalid", "failed"},
     secret_masking_status |->
        {"pending", "masked", "failed", "not_required"},
     file_processing_status |->
        {"pending", "processing", "completed", "failed"},
     pipeline_run_status |->
        {"queued", "running", "succeeded", "failed", "cancelled"},
     incident_status |->
        {"detected", "analysing", "open", "in_progress", "resolved", "closed",
         "analysis_failed", "ignored", "false_positive", "reopened"},
     incident_severity |-> {"critical", "high", "medium", "low"},
     incident_priority |-> {"urgent", "high", "normal", "low"},
     analysis_run_status |->
        {"queued", "preprocessing", "classifying", "retrieving", "reasoning",
         "completed", "failed"},
     evidence_type |->
        {"log_line", "config_snippet", "stack_trace", "metric"},
     risk_level |-> {"low", "medium", "high", "critical"},
     recommendation_step_type |->
        {"remediation", "verification", "prevention"},
     notification_type |->
        {"incident_created", "analysis_completed", "analysis_failed",
         "assignment", "system"},
     delivery_status |-> {"pending", "sent", "failed", "read"},
     knowledge_document_status |-> {"active", "outdated", "archived"},
     generation_status |-> {"pending", "generating", "completed", "failed"},
     model_version_status |->
        {"training", "active", "deprecated", "failed"}]

-----------------------------------------------------------------------------
AnalysisRun ==
    Table([incident_id |-> Cascade("incidents"),
           pipeline_run_id |-> SetNull("pipeline_runs"),
           requested_by |-> SetNull("users")],
          [status |-> "analysis_run_status"], {},
          {"incident_id_created_at", "status_created_at"})

AuditLog ==
    Table([organization_id |-> SetNull("organizations"),
           user_id |-> SetNull("users")],
          << >>, {}, {"organization_id", "resource_type_resource_id", "user_id"})

Evaluation ==
    Table([model_version_id |-> Cascade("model_versions")], << >>, {},
          {"model_version_id"})

EvidenceItem ==
    Table([analysis_run_id |-> Cascade("analysis_runs"),
           prediction_id |-> SetNull("predictions"),
           uploaded_file_id |-> SetNull("uploaded_files")],
          [evidence_type |-> "evidence_type"], {},
          {"analysis_run_id", "prediction_id"})

FailureCategory ==
    Table([parent_id |-> Restricts("failure_categories")],
          [default_severity |-> "incident_severity"], {<<"code">>}, {"code"})

Feedback ==
    Table([user_id |-> Cascade("users"), incident_id |-> Cascade("incidents"),
           analysis_run_id |-> Cascade("analysis_runs"),
           prediction_id |-> SetNull("predictions"),
           recommendation_id |-> SetNull("recommendations")],
          << >>, {}, {"analysis_run_id", "incident_id", "user_id"})

Incident ==
    Table([project_id |-> Restricts("projects"),
           pipeline_run_id |-> SetNull("pipeline_runs"),
           created_by |-> SetNull("users"),
           current_assignee_id |-> SetNull("users"),
           latest_analysis_run_id |-> SetNull("analysis_runs")],
          [status |-> "incident_status", severity |-> "incident_severity",
           priority |-> "incident_priority"],
          {<<"incident_number">>},
          {"current_assignee_id_status", "detected_at", "project_id_created_at",
           "project_id_status", "severity_status"})

IncidentAssignment ==
    Table([incident_id |-> Cascade("incidents"),
           assigned_to |-> Restricts("users"), assigned_by |-> SetNull("users")],
          << >>, {}, {"incident_id"})

IncidentEvent ==
    Table([incident_id |-> Cascade("incidents"),
           actor_user_id |-> SetNull("users")],
          << >>, {}, {"incident_id_occurred_at"})

IncidentNote ==
    Table([incident_id |-> Cascade("incidents"),
           author_id |-> Restricts("users")],
          << >>, {}, {"incident_id"})

IncidentReport ==
    Table([incident_id |-> Cascade("incidents"),
           generated_by |-> SetNull("users")],
          [generation_status |-> "generation_status"], {}, {"incident_id"})

IncidentResolution ==
    Table([incident_id |-> Cascade("incidents"),
           resolved_by |-> Restricts("users")],
          << >>, {}, {"incident_id"})

KnowledgeChunk ==
    Table([document_id |-> Cascade("knowledge_documents")], << >>, {},
          {"document_id"})

KnowledgeDocument ==
    Table(<< >>, [status |-> "knowledge_document_status"], {}, {})

ModelVersion ==
    Table(<< >>, [status |-> "model_version_status"],
          {<<"model_name", "version">>}, {"model_name"})

Notification ==
    Table([user_id |-> Cascade("users"), incident_id |-> SetNull("incidents")],
          [notification_type |-> "notification_type",
           delivery_status |-> "delivery_status"],
          {}, {"incident_id", "user_id_is_read_created_at"})

Organization ==
    Table(<< >>, [status |-> "organization_status"], {<<"slug">>}, {"slug"})

OrganizationMember ==
    Table([organization_id |-> Cascade("organizations"),
           user_id |-> Cascade("users")],
          [role |-> "organization_role"], {<<"organization_id", "user_id">>}, {})

PipelineRun ==
    Table([project_id |-> Cascade("projects")],
          [provider |-> "ci_provider", status |-> "pipeline_run_status"], {},
          {"project_id_created_at", "project_id_status",
           "provider_external_run_id"})

Prediction ==
    Table([analysis_run_id |-> Cascade("analysis_runs"),
           failure_category_id |-> Restricts("failure_categories"),
           model_version_id |-> Restricts("model_versions")],
          << >>, {<<"analysis_run_id", "rank">>}, {})

Project ==
    Table([organization_id |-> Restricts("organizations"),
           created_by |-> Restricts("users")],
          [ci_provider |-> "ci_provider", status |-> "project_status"],
          {<<"organization_id", "key">>}, {})

ProjectIntegration ==
    Table([project_id |-> Cascade("projects")],
          [status |-> "integration_status"], {}, {})

Recommendation ==
    Table([analysis_run_id |-> Cascade("analysis_runs"),
           prediction_id |-> SetNull("predictions")],
          << >>, {}, {"analysis_run_id", "prediction_id"})

RecommendationStep ==
    Table([recommendation_id |-> Cascade("recommendations"),
           analysis_run_id |-> Cascade("analysis_runs")],
          [step_type |-> "recommendation_step_type", risk_level |-> "risk_level"],
          {<<"recommendation_id", "step_number">>}, {})

RefreshToken ==
    Table([user_id |-> Cascade("users")], << >>, {<<"jti">>, <<"token_hash">>},
          {"jti", "token_hash", "user_id"})

RetrievedDocument ==
    Table([analysis_run_id |-> Cascade("analysis_runs"),
           knowledge_chunk_id |-> Cascade("knowledge_chunks")],
          << >>, {}, {})

UploadedFile ==
    Table([user_id |-> Restricts("users"), project_id |-> Cascade("projects"),
           pipeline_run_id |-> SetNull("pipeline_runs"),
           incident_id |-> SetNull("incidents")],
          [file_type |-> "file_type",
           secret_masking_status |-> "secret_masking_status",
           validation_status |-> "file_validation_status",
           processing_status |-> "file_processing_status"],
          {}, {"incident_id", "pipeline_run_id", "project_id"})

User ==
    Table(<< >>,
          [password_hash |-> "varchar_255", full_name |-> "varchar_150",
           avatar_url |-> "text", platform_role |-> "platform_role",
           last_login_at |-> "timestamptz"],
          {<<"email">>}, {"email"})

-----------------------------------------------------------------------------
\* The declarative base's metadata: every model's table, by its name.
Tables ==
    [analysis_runs |-> AnalysisRun, audit_logs |-> AuditLog,
     evaluations |-> Evaluation, evidence_items |-> EvidenceItem,
     failure_categories |-> FailureCategory, feedback |-> Feedback,
     incidents |-> Incident, incident_assignments |-> IncidentAssignment,
     incident_events |-> IncidentEvent, incident_notes |-> IncidentNote,
     incident_reports |-> IncidentReport,
     incident_resolutions |-> IncidentResolution,
     knowledge_chunks |-> KnowledgeChunk,
     knowledge_documents |-> KnowledgeDocument,
     model_versions |-> ModelVersion, notifications |-> Notification,
     organizations |-> Organization,
     organization_members |-> OrganizationMember,
     pipeline_runs |-> PipelineRun, predictions |-> Prediction,
     projects |-> Project, project_integrations |-> ProjectIntegration,
     recommendations |-> Recommendation,
     recommendation_steps |-> RecommendationStep,
     refresh_tokens |-> RefreshToken,
     retrieved_documents |-> RetrievedDocument,
     uploaded_files |-> UploadedFile, users |-> User]
=============================================================================
