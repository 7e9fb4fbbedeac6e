------------------------ MODULE IncidentTransitions ------------------------
(***************************************************************************)
(* The rules of the incident lifecycle: which manual status changes are    *)
(* permitted, and in which statuses the fields of an incident may be       *)
(* edited.  A pure module, translated from                                 *)
(* domain/services/incident_transitions.py; IncidentService,               *)
(* ResolutionService and IncidentNoteService all ask it before they write. *)
(***************************************************************************)

IncidentStatus ==
    {"detected", "analysing", "analysis_failed", "open", "in_progress",
     "resolved", "closed", "reopened", "ignored", "false_positive"}

(* Faulty variant: in_progress may be closed without being resolved.       *)
AllowedTransitions_ClosesEarly(current) ==
    CASE current = "in_progress" -> {"open", "resolved", "closed", "analysing"}
      [] current = "resolved" -> {"closed", "reopened"}
      [] current \in {"detected", "open"} -> {"open", "in_progress", "resolved"}
      [] OTHER -> {"open", "reopened"}

(* _ALLOWED_TRANSITIONS: the statuses a manual change may go to.           *)
AllowedTransitions(current) ==
    CASE current = "detected" ->
            {"analysing", "open", "ignored", "false_positive"}
      [] current = "analysing" -> {"open", "analysis_failed"}
      [] current = "analysis_failed" -> {"analysing", "open", "ignored"}
      [] current = "open" ->
            {"in_progress", "analysing", "ignored", "false_positive", "resolved"}
      [] current = "in_progress" -> {"open", "resolved", "analysing"}
      [] current = "resolved" -> {"closed", "reopened"}
      [] current = "closed" -> {"reopened"}
      [] current = "reopened" -> {"in_progress", "open", "analysing"}
      [] current = "ignored" -> {"open", "reopened"}
      [] current = "false_positive" -> {"open", "reopened"}

TerminalForEdit == {"closed", "resolved"}

(* validate_status_transition returns normally: staying where one is is    *)
(* always permitted.                                                       *)
TransitionPermitted(current, target) ==
    \/ current = target
    \/ target \in AllowedTransitions(current)

(* assert_incident_mutable returns normally.                               *)
Mutable(status) == status \notin TerminalForEdit
=============================================================================
