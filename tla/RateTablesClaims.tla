-------------------------- MODULE RateTablesClaims --------------------------
(***************************************************************************)
(* What the advisory says of a calculator's figures, as an invariant of    *)
(* the model of the code that wraps it around them; TLC finds it violated. *)
(***************************************************************************)
EXTENDS MCRateTables

\* advisory_boundary.py:153-155, "Calculator outputs reflect the period-scoped
\* statutory rate-tables cited in the manifest block": a digest a calculator's
\* answer cites is that of a table its engine computed with.
OutputsReflectCitedTables ==
  \A r \in Requests :
    Calculated(r) /\ reply[r].advisory.frame = "cites_tables" =>
      \A i \in DOMAIN entries[r] :
        LET tables == used[r][RateTableRootFor(req[r])]
            e == entries[r][i]
        IN  /\ e.uri.rate \in DOMAIN tables
            /\ e.content_hash = CanonicalDigest(tables[e.uri.rate])
=============================================================================
