-------------------------- MODULE MCDashboardPanels --------------------------
(* Two pages over one settings file, which are alike.                      *)
EXTENDS DashboardPanelsProps, TLC
CONSTANTS p1, p2
AlikePages == Permutations(Page)
=============================================================================
