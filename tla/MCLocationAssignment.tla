------------------------ MODULE MCLocationAssignment ------------------------
EXTENDS LocationAssignment
MCClients == 1..2
MCLocations == 1..3
MCAssignable == 1..2
MCRequests == 1..3
=============================================================================
