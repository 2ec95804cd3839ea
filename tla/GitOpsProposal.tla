--------------------------- MODULE GitOpsProposal ---------------------------
(***************************************************************************)
(* Changes proposed as pull requests from one clone of the repository       *)
(* (ai-sre/agents/ops/gitops_remediation.py, propose_change).  A proposal   *)
(* is a chain of git commands on the clone; each of them may fail, and the  *)
(* process may stop between two of them.  The clone keeps what they left:   *)
(* the branch it is on, the index and the working tree.                    *)
(*                                                                         *)
(* A proposal replaces one text of one file, so a change is named after its *)
(* proposal, and a branch is the set of changes it has.  The callers, who   *)
(* ask again until they get an answer, are not in this repository.  (A      *)
(* pull request is asked for: create_pr is True.)                          *)
(***************************************************************************)
EXTENDS Naturals, FiniteSets

CONSTANTS
    Proposals,   \* one change and one branch name each
    Files,
    FileOf,      \* the file each proposal changes
    MaxFaults    \* bound: commands that fail, and crashes

Main == "main"

ASSUME ProposalAssumption ==
    /\ FileOf \in [Proposals -> Files] /\ MaxFaults \in Nat
    /\ Main \notin Proposals

VARIABLES
    branches,   \* the clone's branches: the changes of each, or Absent
    head,       \* the branch the clone is on
    staged,     \* changes in the index only
    dirty,      \* changes in the working tree only
    remote,     \* branches of the remote
    prs,        \* proposals with a pull request
    at,         \* the next command of the proposal in progress
    who,        \* the proposal in progress
    original,   \* the branch it is to return to; Unknown when git did not say
    faults,     \* commands that failed
    troubled    \* history: proposals a command of which failed or that crashed

git == <<branches, head, staged, dirty>>
proposalVars == <<git, remote, prs, at, who, original, faults, troubled>>

Absent == {"absent"}
Unknown == "unknown"
Nobody == "nobody"
Branches == Proposals \cup {Main}

\* What the files of the clone have in them.
Content == branches[head] \cup staged \cup dirty

-----------------------------------------------------------------------------
(* One proposal.                                                           *)

Begin(p) ==
    /\ at = "idle" /\ p \notin prs
    /\ who' = p
    /\ original' = head
    /\ at' = "checkout"
    /\ UNCHANGED <<git, remote, prs, faults, troubled>>

\* git does not say on which branch it is: the proposal goes on all the same.
BeginUnknown(p) ==
    /\ at = "idle" /\ p \notin prs
    /\ faults < MaxFaults /\ faults' = faults + 1
    /\ who' = p
    /\ original' = Unknown
    /\ at' = "checkout"
    /\ troubled' = troubled \cup {p}
    /\ UNCHANGED <<git, remote, prs>>

\* Variant of MayCheckOut without the -B.
MayCheckOutOnce == branches[who] = Absent

\* checkout -B: the branch is made, or made anew, where the clone is.
MayCheckOut == TRUE

Checkout ==
    /\ at = "checkout"
    /\ MayCheckOut
    /\ branches' = [branches EXCEPT ![who] = branches[head]]
    /\ head' = who
    /\ at' = "write"
    /\ UNCHANGED <<staged, dirty, remote, prs, who, original, faults, troubled>>

Write ==
    /\ at = "write" /\ who \notin Content
    /\ dirty' = dirty \cup {who}
    /\ at' = "add"
    /\ UNCHANGED <<branches, head, staged, remote, prs, who, original, faults, troubled>>

\* The text to replace is not there: None is returned.
NothingToReplace ==
    /\ at = "write" /\ who \in Content
    /\ at' = "restore"
    /\ UNCHANGED <<git, remote, prs, who, original, faults, troubled>>

\* git add of the one file, and everything that was changed in it.
Add ==
    /\ at = "add"
    /\ LET here == {c \in dirty : FileOf[c] = FileOf[who]} IN
         /\ staged' = staged \cup here
         /\ dirty' = dirty \ here
    /\ at' = "commit"
    /\ UNCHANGED <<branches, head, remote, prs, who, original, faults, troubled>>

\* git commit of everything in the index.
Commit ==
    /\ at = "commit"
    /\ branches' = [branches EXCEPT ![head] = @ \cup staged]
    /\ staged' = {}
    /\ at' = "push"
    /\ UNCHANGED <<head, dirty, remote, prs, who, original, faults, troubled>>

\* push --force
Push ==
    /\ at = "push"
    /\ remote' = [remote EXCEPT ![who] = branches[who]]
    /\ at' = "pr"
    /\ UNCHANGED <<git, prs, who, original, faults, troubled>>

CreatePr ==
    /\ at = "pr"
    /\ prs' = prs \cup {who}
    /\ at' = "restore"
    /\ UNCHANGED <<git, remote, who, original, faults, troubled>>

\* A command fails: the exception is logged, and the branch restored.
CommandFails ==
    /\ at \in {"checkout", "add", "commit", "push", "pr"}
    /\ faults < MaxFaults /\ faults' = faults + 1
    /\ at' = "restore"
    /\ troubled' = troubled \cup {who}
    /\ UNCHANGED <<git, remote, prs, who, original>>

\* git refuses to leave a branch when a changed file differs on the other one.
MayReturn ==
    /\ original # Unknown
    /\ \A c \in staged \cup dirty :
         {d \in branches[head] : FileOf[d] = FileOf[c]}
             = {d \in branches[original] : FileOf[d] = FileOf[c]}

\* Variant of Return that leaves the clone where it is.
ReturnNowhere == head

Return == IF MayReturn THEN original ELSE head

\* Whether the checkout succeeded is not looked at.
Restore ==
    /\ at = "restore"
    /\ head' = Return
    /\ at' = "idle" /\ who' = Nobody /\ original' = Unknown
    /\ troubled' = IF MayReturn THEN troubled ELSE troubled \cup {who}
    /\ UNCHANGED <<branches, staged, dirty, remote, prs, faults>>

RestoreFails ==
    /\ at = "restore" /\ original # Unknown
    /\ faults < MaxFaults /\ faults' = faults + 1
    /\ at' = "idle" /\ who' = Nobody /\ original' = Unknown
    /\ troubled' = troubled \cup {who}
    /\ UNCHANGED <<git, remote, prs>>

Crash ==
    /\ at # "idle"
    /\ faults < MaxFaults /\ faults' = faults + 1
    /\ at' = "idle" /\ who' = Nobody /\ original' = Unknown
    /\ troubled' = troubled \cup {who}
    /\ UNCHANGED <<git, remote, prs>>

ProposalInit ==
    /\ branches = [b \in Branches |-> IF b = Main THEN {} ELSE Absent]
    /\ head = Main /\ staged = {} /\ dirty = {}
    /\ remote = [b \in Proposals |-> Absent]
    /\ prs = {}
    /\ at = "idle" /\ who = Nobody /\ original = Unknown
    /\ faults = 0 /\ troubled = {}

Steps == Checkout \/ Write \/ NothingToReplace \/ Add \/ Commit \/ Push \/ CreatePr \/ Restore

ProposalNext ==
    \/ \E p \in Proposals : Begin(p) \/ BeginUnknown(p)
    \/ Checkout \/ Write \/ NothingToReplace \/ Add \/ Commit \/ Push \/ CreatePr
    \/ Restore \/ RestoreFails \/ CommandFails \/ Crash

\* A proposal in progress goes on, and its caller asks again.
ProposalFairness == WF_proposalVars(Steps) /\ \A p \in Proposals : SF_proposalVars(Begin(p))

ProposalSpec == ProposalInit /\ [][ProposalNext]_proposalVars /\ ProposalFairness

-----------------------------------------------------------------------------
(* Properties.                                                             *)

\* A branch that was pushed has its own change, and the change of another
\* proposal only when a command of that other one failed or it crashed: a
\* proposal that went well leaves nothing in the clone the next one takes along.
StrangersAreTroubled ==
    \A p \in Proposals : remote[p] # Absent =>
        p \in remote[p] /\ remote[p] \ {p} \subseteq troubled

\* Asked for often enough, a proposal gets its pull request, or its change is
\* in the clone for good, where it looks as if it had been made.
ProposedOrStuck ==
    \A p \in Proposals : <>[](p \in prs \/ p \in Content)
=============================================================================
