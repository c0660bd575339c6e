---------------------------- MODULE MCDropCounter ----------------------------
EXTENDS DropCounter
=============================================================================
