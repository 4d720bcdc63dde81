-------------------------- MODULE RestoreContract --------------------------
(***************************************************************************)
(* What a session promises its user about restores, with no process, lock  *)
(* or file in sight.  A claim is the right to try each pane once.  It is   *)
(* free until a restore takes it, open while the restore runs or waits to  *)
(* be acknowledged, and closed for good.  One claim is open at a time;     *)
(* under it a pane is marked, tried at most once and given one result.     *)
(*                                                                         *)
(* Only a power cut goes back, and not behind what is kept: `kept' is the  *)
(* least a power cut now would leave of a claim.  What is kept is never    *)
(* less than open once a command was tried, and closed is final once kept. *)
(***************************************************************************)
EXTENDS Integers

CONSTANTS Claims, Panes

VARIABLES
    status,     \* of each claim
    kept,       \* the least a power cut leaves of that status
    outcome,    \* what is recorded of each pane under each claim
    tries,      \* commands tried under each claim for each pane
    cuts        \* power cuts so far

claims == <<status, kept>>
panes == <<outcome, tries>>

Status == {"free", "open", "closed"}

\* A status goes from free over open to closed.
AtLeast(s, t) == s = t \/ t = "free" \/ s = "closed"

Results == {"applied", "skipped", "failed"}
Tried == {"sending", "applied", "failed"}   \* a command may have been sent

ContractInit ==
    /\ status = [c \in Claims |-> "free"]
    /\ kept = [c \in Claims |-> "free"]
    /\ outcome = [c \in Claims |-> [p \in Panes |-> "none"]]
    /\ tries = [c \in Claims |-> [p \in Panes |-> 0]]
    /\ cuts = 0

NoneOpen == \A c \in Claims : status[c] # "open"

\* A restore takes a free claim while no other restore is unresolved.
Take(c) ==
    /\ NoneOpen
    /\ status[c] = "free"
    /\ status' = [status EXCEPT ![c] = "open"]
    /\ \E plan \in [Panes -> {"pending", "skipped"}] : outcome' = [outcome EXCEPT ![c] = plan]
    /\ UNCHANGED <<kept, tries, cuts>>

\* A boot with nothing to restore is claimed and closed at once.
Waive(c) ==
    /\ NoneOpen
    /\ status[c] = "free"
    /\ status' = [status EXCEPT ![c] = "closed"]
    /\ outcome' = [outcome EXCEPT ![c] = [p \in Panes |-> "skipped"]]
    /\ UNCHANGED <<kept, tries, cuts>>

\* A pane is marked before its command is sent.
Mark(c, p) ==
    /\ status[c] = "open"
    /\ outcome[c][p] = "pending"
    /\ outcome' = [outcome EXCEPT ![c][p] = "sending"]
    /\ UNCHANGED <<claims, tries, cuts>>

\* One command for a marked pane, never a second one, and only under a claim that no
\* power cut can free.
Try(c, p) ==
    /\ status[c] = "open" /\ kept[c] # "free"
    /\ outcome[c][p] = "sending"
    /\ tries[c][p] = 0
    /\ tries' = [tries EXCEPT ![c][p] = 1]
    /\ UNCHANGED <<claims, outcome, cuts>>

\* The result of a marked pane: applied only after its command, skipped only without.
Record(c, p, result) ==
    /\ status[c] = "open"
    /\ outcome[c][p] = "sending"
    /\ result = "applied" => tries[c][p] = 1
    /\ result = "skipped" => tries[c][p] = 0
    /\ outcome' = [outcome EXCEPT ![c][p] = result]
    /\ UNCHANGED <<claims, tries, cuts>>

\* The restore is complete or acknowledged; a power cut cannot free its claim.
Close(c) ==
    /\ status[c] = "open" /\ kept[c] # "free"
    /\ status' = [status EXCEPT ![c] = "closed"]
    /\ UNCHANGED <<kept, panes, cuts>>

\* More of what the claims are is safe from a power cut.
Harden ==
    /\ kept' \in [Claims -> Status]
    /\ \A c \in Claims : AtLeast(kept'[c], kept[c]) /\ AtLeast(status[c], kept'[c])
    /\ UNCHANGED <<status, panes, cuts>>

\* A power cut: a free claim stays free, a claim keeps at least what is kept of it,
\* and no more than one is open.  The record of a pane goes back by one step at most,
\* and never to where it denies a command.
PowerCut ==
    /\ cuts' = cuts + 1
    /\ status' \in [Claims -> Status] /\ kept' = status'
    /\ outcome' \in [Claims -> [Panes -> Tried \union Results \union {"none", "pending"}]]
    /\ \A c \in Claims :
         /\ status[c] = "free" => status'[c] = "free"
         /\ AtLeast(status'[c], kept[c])
         /\ \A d \in Claims : status'[c] = "open" /\ status'[d] = "open" => c = d
         /\ \A p \in Panes :
              IF status'[c] = "free" THEN outcome'[c][p] = "none" /\ tries[c][p] = 0
              ELSE /\ \/ outcome'[c][p] = outcome[c][p]
                      \/ outcome'[c][p] = "pending" /\ outcome[c][p] = "sending"
                      \/ outcome'[c][p] = "sending" /\ outcome[c][p] \in Results
                   /\ tries[c][p] > 0 => outcome'[c][p] \in Tried
    /\ UNCHANGED tries

ContractNext ==
    \/ PowerCut \/ Harden
    \/ \E c \in Claims :
         \/ Take(c) \/ Waive(c) \/ Close(c)
         \/ \E p \in Panes :
              Mark(c, p) \/ Try(c, p) \/ \E result \in Results : Record(c, p, result)

ContractSpec == ContractInit /\ [][ContractNext]_<<claims, panes, cuts>>
=============================================================================
