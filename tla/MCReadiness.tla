---------------------------- MODULE MCReadiness ----------------------------
EXTENDS MCIngestion, Readiness
=============================================================================
