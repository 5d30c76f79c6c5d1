------------------------------- MODULE ApiRoutes -------------------------------
(***************************************************************************)
(* The routes of the API, one set per group of handlers of                 *)
(* apps/api/src/*.controller.ts: the name of the handler, whose context it *)
(* resolves (the family's, the tenant's, the platform's), whether it       *)
(* mutates (its method is not GET) and whether it asserts that the         *)
(* mutation is safe before it calls its service. Access.tla runs requests  *)
(* through them, with the assertion first and the context after it: four   *)
(* handlers do it the other way round, and neither step changes a row.     *)
(***************************************************************************)

Routes(names, audience, mutates, asserts) ==
  [name : names, audience : {audience}, mutates : {mutates}, asserts : {asserts}]
Reads(names, audience) == Routes(names, audience, FALSE, FALSE)
Mutations(names, audience) == Routes(names, audience, TRUE, TRUE)

(* No session is asked for: registration, verification, a provider's webhook. *)
PublicRoutes == Routes({"register", "verify"}, "none", TRUE, FALSE) \cup Reads({"session"}, "none")
WebhookRoutes == Routes({"receive"}, "none", TRUE, FALSE)

ActivityPolicyRoutes ==
  Reads({"listActivityPolicies", "listEligibleActivityExecutors", "getActivityPolicy"}, "tenant")
    \cup Mutations({"putActivityPolicy"}, "tenant")
FamilyActivityRoutes == Reads({"familyActivities", "familyActivity"}, "family") \cup Mutations({"requestReschedule"}, "family")
StaffActivityRoutes == Reads({"staffActivities", "staffActivity"}, "tenant") \cup Mutations({"schedule", "reprogram"}, "tenant")
OutcomeRoutes == Mutations({"noShow", "completed", "notCompleted", "repeat", "close"}, "tenant")
ActivityTemplateRoutes ==
  Reads({"listDefinitions"}, "tenant") \cup Mutations({"createDefinition", "createVersion", "updateDraft", "publish", "archive"}, "tenant")

AuthorityRoutes ==
  Reads({"getFamilyAuthority"}, "family") \cup Mutations({"declareAuthority"}, "family")
    \cup Reads({"getStaffAuthority"}, "tenant") \cup Mutations({"reviewAuthority"}, "tenant")

CalendarRoutes ==
  Reads({"getCalendar", "listExcludedDates"}, "tenant")
    \cup Mutations({"configureCalendar", "addExcludedDate", "removeExcludedDate"}, "tenant")

CapacityRoutes ==
  Reads({"getCapacity", "listWaitlist", "staffOffer"}, "tenant")
    \cup Mutations({"createCapacity", "adjustCapacity", "promote", "reopen"}, "tenant")
FamilyOfferRoutes == Reads({"familyProjection"}, "family") \cup Mutations({"accept", "decline", "withdraw"}, "family")

CommunicationRoutes ==
  Reads({"listCommunications"}, "tenant") \cup Mutations({"confirm", "retry", "deliveryEvidence", "recordManualContact"}, "tenant")
DashboardRoutes == Reads({"getMetrics"}, "tenant")

RequirementRoutes ==
  Reads({"listRequirements", "getRequirementVersion"}, "tenant")
    \cup Mutations({"createRequirement", "createRequirementVersion", "updateRequirementVersion", "publishRequirementVersion",
                    "archiveRequirementVersion"}, "tenant")
FamilyDocumentRoutes ==
  Reads({"listFamilyDocuments", "downloadFamilyDocument"}, "family") \cup Mutations({"uploadFamilyDocument"}, "family")
DocumentReviewRoutes ==
  Reads({"listStaffDocuments", "downloadStaffDocument"}, "tenant") \cup Mutations({"accept", "observe", "exempt"}, "tenant")
AssistanceRoutes ==
  Reads({"getAssistedWorkflow"}, "tenant")
    \cup Mutations({"startAssistance", "createAssistedApplication", "saveAssistedAnswers", "uploadAssistedDocument",
                    "submitAssistedApplication", "closeAssistance"}, "tenant")

FormEditorRoutes ==
  Reads({"listDefinitions", "getVersion"}, "tenant")
    \cup Mutations({"createDefinition", "createVersion", "createSection", "updateSection", "moveSection", "createField"}, "tenant")
FormVersionRoutes ==
  Reads({"preview"}, "tenant") \cup Mutations({"updateField", "moveField", "publish", "archive", "assignOffering"}, "tenant")
FamilyFormRoutes == Reads({"familyForm", "review"}, "family") \cup Mutations({"saveAnswers", "submit"}, "family")

FamilyIntakeRoutes ==
  Reads({"getProfile", "listStudents"}, "family") \cup Mutations({"saveProfile", "createStudent", "updateStudent"}, "family")
ApplicationRoutes ==
  Reads({"listApplications", "getApplication"}, "family") \cup Mutations({"createApplication", "saveDraft"}, "family")
CatalogueRoutes ==
  Reads({"getConfiguration"}, "tenant")
    \cup Mutations({"createCampus", "updateCampus", "createAcademicYear", "createCourseLevel", "createProcess", "updateProcess"}, "tenant")
OfferingRoutes ==
  Reads({"getOfferingReadiness"}, "tenant") \cup Mutations({"createOffering", "updateOffering", "publishOffering", "closeOffering"}, "tenant")

RecommendationRoutes ==
  Reads({"recommendationWorkspace", "recommendationHistory"}, "tenant") \cup Mutations({"createDraft", "updateDraft"}, "tenant")
DirectionRoutes == Reads({"directionWorkspace"}, "tenant") \cup Mutations({"submit", "decide"}, "tenant")

ReportRoutes == Reads({"getOwnAccess", "listReports"}, "tenant") \cup Mutations({"exportReport"}, "tenant")
RoleRoutes == Reads({"listAccess", "listAudit"}, "tenant") \cup Mutations({"createAssignment", "updateAssignment", "revokeAssignment"}, "tenant")
SupportRoutes == Mutations({"startElevation", "closeElevation"}, "platform")

HandoffRoutes == Mutations({"requestFunctionalHandoff"}, "tenant")
PolicyRoutes == Reads({"readPolicies"}, "tenant") \cup Mutations({"updatePolicy"}, "tenant")
ProjectionRoutes == Reads({"getProjection"}, "family")

AllRoutes ==
  UNION {PublicRoutes, WebhookRoutes,
         ActivityPolicyRoutes, FamilyActivityRoutes, StaffActivityRoutes, OutcomeRoutes, ActivityTemplateRoutes,
         AuthorityRoutes, CalendarRoutes, CapacityRoutes, FamilyOfferRoutes, CommunicationRoutes, DashboardRoutes,
         RequirementRoutes, FamilyDocumentRoutes, DocumentReviewRoutes, AssistanceRoutes,
         FormEditorRoutes, FormVersionRoutes, FamilyFormRoutes,
         FamilyIntakeRoutes, ApplicationRoutes, CatalogueRoutes, OfferingRoutes,
         RecommendationRoutes, DirectionRoutes, ReportRoutes, RoleRoutes, SupportRoutes,
         HandoffRoutes, PolicyRoutes, ProjectionRoutes}
================================================================================
