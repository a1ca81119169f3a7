-------------------------- MODULE MCDashboardEdits --------------------------
(* The instance of DashboardEdits that TLC checks: every page that edits.   *)
EXTENDS DashboardEdits

MCEditPages ==
    {TeamsEdits, TemplateEdits, TrackingEdits, SitesEdits, IntegrationEdits, SiteHomeEdits,
     UserEdits, ProviderEdits, PlanEdits, GeneralForm, BillingForm, ProfileForm, SmtpForm,
     OnboardingEdits, TemplateForm}

=============================================================================
