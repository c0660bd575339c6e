----------------------------- MODULE MCFirewall -----------------------------
EXTENDS Firewall

CONSTANTS adaptive, plain, b1
=============================================================================
