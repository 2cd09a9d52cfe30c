--------------------------- MODULE MCIngressLease ----------------------------
EXTENDS IngressLease
=============================================================================
