---------------------------- MODULE MCKnowledgeScan ----------------------------
(* KnowledgeScan for TLC: all kinds of jobs.                                *)
EXTENDS KnowledgeScan

AllKinds == {"scan", "empty", "reindex"}
=============================================================================
