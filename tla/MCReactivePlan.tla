--------------------------- MODULE MCReactivePlan ---------------------------
EXTENDS ReactivePlan
=============================================================================
