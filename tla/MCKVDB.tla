------------------------------- MODULE MCKVDB -------------------------------
EXTENDS KVDB

=============================================================================
