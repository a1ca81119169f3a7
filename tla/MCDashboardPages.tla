-------------------------- MODULE MCDashboardPages --------------------------
(* The instance of DashboardPages that TLC checks: every page of the        *)
(* dashboard that loads on demand, two ranges and two choices.  Pages with  *)
(* the same traits are one record.                                          *)
EXTENDS DashboardPages

CONSTANTS o1, o2

MCPages ==
    {TrendPage, SourcesPage, ChannelsPage, DevicesPage, GeoPage, AbandonmentPage, HeatmapPage,
     ProductsPage, RefundsPage, RetentionPage, OverviewPage, RevenuePage, BotsPage,
     FunnelPage, HealthPage, CampaignsPage, PagesPage, RealtimePage, ContactPage,
     InvoicesPage, ContactsPage, OrdersPage, ShellPage, HomePage, TenantBilling,
     ExportDialog, EditTemplatePage}

\* The page that compares.
MCComparing == {OverviewPage}

MCOwns == {o1, o2}

\* One choice has rows for two pages, the other for one.
MCMatches == [o \in MCOwns |-> IF o = o1 THEN 2 ELSE 1]

=============================================================================
