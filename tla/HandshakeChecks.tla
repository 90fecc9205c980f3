--------------------------- MODULE HandshakeChecks --------------------------
(***************************************************************************)
(* RS-HS-001 to RS-HS-007 (checks/handshake.py), on the first probe.  Each *)
(* operator is the status of its check.                                    *)
(***************************************************************************)
EXTENDS Probe

Grade(applies, bad) == IF ~applies THEN "skip" ELSE IF bad THEN "fail" ELSE "pass"

\* facilitator_path_kind: the target is /supported, /verify, /settle or the
\* discovery document, which answer 200.
EndpointAbsentHere(r, facilitatorPath) ==
    r.status \in 200..299 /\ facilitatorPath /\ ~HasHeader(r)

HS_001(r, facilitatorPath) ==
    Grade(~EndpointAbsentHere(r, facilitatorPath) /\ r.status < 500, r.status # 402)
HS_002(r) == Grade(r.status = 402, ~HasHeader(r))
HS_003(r) == Grade(HasHeader(r), r.header = "notBase64")

\* A v1 envelope fails the v2 schema without being malformed.
HS_004(r) == Grade(Decoded(r) /\ ~SpeaksV1(r), ~Parsed(r))

HS_005(r) == Grade(TRUE, r.legacy)
HS_006(r) == Grade(Parsed(r), FALSE)
HS_007(r) == Grade(r.status = 402, r.cache = "public")
=============================================================================
