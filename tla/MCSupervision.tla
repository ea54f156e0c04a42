---------------------------- MODULE MCSupervision ----------------------------
EXTENDS Supervision
=============================================================================
