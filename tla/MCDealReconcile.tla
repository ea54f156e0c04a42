-------------------------- MODULE MCDealReconcile ---------------------------
EXTENDS DealReconcile

\* a loss of a little more than one percent of the account, which leaves the daily
\* limit to the streak, and one of four percent, which reaches it alone
MCLosses == {-12, -40}
=============================================================================
