---------------------------- MODULE PathVariants ----------------------------
(***************************************************************************)
(* RS-SEC-012 (checks/path_variants.py): the re-encoded paths that are     *)
(* requested behind a paywall, and what their answers say of it.           *)
(***************************************************************************)
EXTENDS Sequences

Control == "control"

\* build_variants, in its order; a root path has nothing to rewrite, and only a
\* path of several segments has a separator to encode.
BuildVariants(path) ==
    IF path = "root" THEN <<>>
    ELSE <<"trailingLineFeed", "embeddedLineFeed", "carriageReturn", "lineSeparator",
           "rawBackslash", "encodedBackslash">>
         \o (IF path = "nested" THEN <<"encodedSeparator">> ELSE <<>>)
         \o <<"currentDirectory", "parentDirectory", "unreserved", "absoluteForm", Control>>

\* What came back for a variant: the protected content, another page, a refusal
\* or an empty body, or nothing at all.
Outcomes == {"resource", "page", "gated", "lost"}

\* _is_served: with a marker only a body that has it counts.
Served(outcome, marker) == outcome = "resource" \/ (outcome = "page" /\ ~marker)

\* (mutant) the control is not looked at.
ClassifyUncontrolled(outcomes, marker) ==
    IF \E v \in DOMAIN outcomes \ {Control} : Served(outcomes[v], marker) THEN "fail" ELSE "pass"

\* classify_variants: an endpoint that serves the control serves anything.
ClassifyVariants(outcomes, marker) ==
    IF Served(outcomes[Control], marker) THEN "skip"
    ELSE IF \E v \in DOMAIN outcomes \ {Control} : Served(outcomes[v], marker) THEN "fail"
    ELSE "pass"
=============================================================================
