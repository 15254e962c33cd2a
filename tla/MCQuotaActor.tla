---------------------------- MODULE MCQuotaActor ----------------------------
EXTENDS QuotaActor
=============================================================================
