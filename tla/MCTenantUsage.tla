--------------------------- MODULE MCTenantUsage ---------------------------
EXTENDS TenantUsage
=============================================================================
