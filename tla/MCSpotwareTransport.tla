------------------------ MODULE MCSpotwareTransport ------------------------
EXTENDS SpotwareTransport
=============================================================================
