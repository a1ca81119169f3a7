------------------------- MODULE MCDashboardSession -------------------------
(* The instance of DashboardSession that TLC checks: two tabs, two accounts *)
(* of which one may come by impersonation, and two tokens.                  *)
EXTENDS DashboardSession

CONSTANTS t1, t2

MCTabs == {t1, t2}

=============================================================================
