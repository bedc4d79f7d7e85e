-------------------------- MODULE MCSpotwareClient --------------------------
EXTENDS SpotwareClient
=============================================================================
