------------------------- MODULE MCSettlementRetry -------------------------
EXTENDS SettlementRetry

CONSTANTS k1, k2
=============================================================================
