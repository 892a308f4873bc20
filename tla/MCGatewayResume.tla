--------------------------- MODULE MCGatewayResume ---------------------------
EXTENDS GatewayResume
=============================================================================
