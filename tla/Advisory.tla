------------------------------ MODULE Advisory ------------------------------
(***************************************************************************)
(* The advisory block of a calculator's answer: api/lib/                   *)
(* advisory_boundary.py.  A text is named by what it claims.               *)
(***************************************************************************)

\* What the answer says of the statutory rate tables it rests on: those its
\* manifest cites, none at all, or (an accounting figure) the caller's inputs.
Frames == {"cites_tables", "no_tables", "accounting", "uk"}

\* payload["manifest"]["rate_table_uris"] as wrap_response hands it on: None
\* unless the manifest is a mapping that holds a list.
ManifestLists == {"none", "empty", "cited"}

\* payload["basis"], lower-cased; "none" unless it is a non-empty string.
Bases == {"none", "accounting", "tax"}

Block(frame, agent, rounding) ==
  [frame |-> frame, registered_agent_required |-> agent, rounding |-> rounding]

\* A sentence on rounding is appended when the calculator's metadata has one
\* and the lookup does not fail.
AppendRoundingAdvisory(block, sentence) == [block EXCEPT !.rounding = sentence]

\* Mutant of AdvisoryBlock: an empty list read as a list that is not there.
AdvisoryBlockFalsy(jurisdiction, listed, basis, sentence) ==
  AppendRoundingAdvisory(
    IF basis = "accounting" THEN Block("accounting", FALSE, FALSE)
    ELSE Block("cites_tables", TRUE, FALSE), sentence)

\* The basis decides before the manifest does.
AdvisoryBlock(jurisdiction, listed, basis, sentence) ==
  AppendRoundingAdvisory(
    IF jurisdiction = "UK" THEN Block("uk", TRUE, FALSE)
    ELSE IF basis = "accounting" THEN Block("accounting", FALSE, FALSE)
    ELSE IF listed = "empty" THEN Block("no_tables", TRUE, FALSE)
    ELSE Block("cites_tables", TRUE, FALSE), sentence)

\* The gateway's own block replaces one the engine may have sent.
WrapResponse(jurisdiction, manifest, basis, sentence) ==
  AdvisoryBlock(jurisdiction, IF manifest = <<>> THEN "empty" ELSE "cited",
                basis, sentence)
=============================================================================
