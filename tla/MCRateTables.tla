---------------------------- MODULE MCRateTables ----------------------------
(***************************************************************************)
(* An instance of RateTables for TLC: one period with two tables, two      *)
(* requests and an edit of the tree.                                       *)
(***************************************************************************)
EXTENDS RateTablesInvariant, TLC

CONSTANTS benchmark, statutory, now, before, garbage, fy2026, r1, r2

TwoTables  == {benchmark, statutory}
TableOrder == <<benchmark, statutory>>
Symmetric  == Permutations({r1, r2})

Of(body, line) ==
  [body |-> body, line |-> line,
   anchor |-> IF line = "anchored" THEN [body |-> before, lined |-> TRUE]
              ELSE NoDigest]

\* Only the lodgeit_au_sbrm bundle has tables.
TreeOf(tables) ==
  [root \in Roots |-> IF root[2] = "lodgeit_au_sbrm" THEN tables ELSE <<>>]

\* Every pair of lines of an anchored table and a draft; one table; none.
SomeTrees ==
  {TreeOf((benchmark :> Of(before, "anchored")) @@ (statutory :> Of(now, "draft"))),
   TreeOf(benchmark :> Of(now, "anchored")),
   TreeOf(statutory :> Of(before, "placeholder"))}

OurRoot == {<<fy2026, "lodgeit_au_sbrm">>}

Ask(op, taxonomy) == [op |-> op, period |-> fy2026, taxonomy |-> taxonomy]

SomeKinds ==
  {Ask("list", tax) : tax \in Taxonomies \cup {"unratified"}}
  \cup {[op |-> "get", period |-> p, taxonomy |-> "lodgeit_au_sbrm",
         rate |-> benchmark] : p \in {fy2026, "malformed"}}
  \cup {[op |-> "calc", period |-> fy2026, taxonomy |-> tax, engine |-> e] :
          tax \in {"lodgeit_au_sbrm"}, e \in Engines}
  \cup {[op |-> "calc", period |-> fy2026, taxonomy |-> "hoffman_base",
         engine |-> "div7a"]}

\* One bundle has tables, as in the repository.
ASSUME OneBundleAssumption == OneBundle
=============================================================================
