------------------------------ MODULE MCGitOps ------------------------------
(* Three proposals, two of them for the same file.                         *)
EXTENDS GitOpsProposal

ChangedFile == [p \in Proposals |-> IF p = "image" THEN "deploy" ELSE "values"]
=============================================================================
