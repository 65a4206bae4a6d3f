-------------------------- MODULE MCGatewaySession ---------------------------
EXTENDS GatewaySession
=============================================================================
