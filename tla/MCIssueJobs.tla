----------------------------- MODULE MCIssueJobs -----------------------------
(* Instances of IssueJobs for TLC.                                          *)
EXTENDS IssueJobs, TLC

JobSymmetry == Permutations(Jobs) \cup Permutations(Workers)
==============================================================================
