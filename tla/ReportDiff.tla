----------------------------- MODULE ReportDiff -----------------------------
(***************************************************************************)
(* diff_reports (diff.py): what became of every check between two reports. *)
(* A report is a function from check ids to statuses.                      *)
(***************************************************************************)

Bad == {"fail", "error"}
Common(old, new) == DOMAIN old \cap DOMAIN new

Fixed(old, new) == {c \in Common(old, new) : old[c] \in Bad /\ new[c] = "pass"}
StillFailing(old, new) == {c \in Common(old, new) : old[c] \in Bad /\ new[c] \in Bad}

\* (mutant) only what passed can regress.
RegressedFromPass(old, new) ==
    {c \in Common(old, new) : old[c] = "pass" /\ new[c] # "pass"}

\* A lost pass is a regression whatever replaces it, and so is a failure where
\* nothing was known.
Regressed(old, new) ==
    {c \in Common(old, new) :
        \/ old[c] = "pass" /\ new[c] # "pass"
        \/ old[c] = "skip" /\ new[c] \in Bad}

Added(old, new) == DOMAIN new \ DOMAIN old
Removed(old, new) == DOMAIN old \ DOMAIN new

Diff(old, new) ==
    [fixed |-> Fixed(old, new), regressed |-> Regressed(old, new),
     stillFailing |-> StillFailing(old, new), added |-> Added(old, new),
     removed |-> Removed(old, new)]
=============================================================================
