-------------------------- MODULE MCIntegrationPolling --------------------------
EXTENDS IntegrationPolling

CONSTANTS k1, k2, l1
=============================================================================
