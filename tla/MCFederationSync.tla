--------------------------- MODULE MCFederationSync ---------------------------
EXTENDS FederationSync

CONSTANTS r1, r2
==============================================================================
