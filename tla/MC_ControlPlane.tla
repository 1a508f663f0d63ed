-------------------------- MODULE MC_ControlPlane --------------------------
EXTENDS ControlPlane

\* The requests of one client come one after the other; those of two overlap.
OneClient  == {"c1"}
TwoClients == {"c1", "c2"}
OneViewer  == {"v1"}

=============================================================================
