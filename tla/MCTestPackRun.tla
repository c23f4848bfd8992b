---------------------------- MODULE MCTestPackRun ----------------------------
(* TestPackRun for TLC: two users to be, two accounts to work on.           *)
EXTENDS TestPackRun

CONSTANTS requestor, finance, account1, account2

Roles  == {requestor, finance}
MCAlike == [u \in Roles |-> {u, finance}]  \* the name of requestor is part of the name of finance
Pool   == {account1, account2}
=============================================================================
