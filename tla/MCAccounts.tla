------------------------------ MODULE MCAccounts ------------------------------
EXTENDS Accounts

CONSTANTS o1, o2, e1, e2, p1

MCFounder == [org |-> o1, email |-> e1, pwd |-> p1]
=============================================================================
