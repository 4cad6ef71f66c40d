---------------------------- MODULE MCAuthProbe ----------------------------
(***************************************************************************)
(* A revision with every URL set, one that lost a variable and one whose   *)
(* URL has no scheme; the probe asked for the configured engines and for a *)
(* list with a repeated and a local audience.  One engine may be refused   *)
(* by the metadata hosts.                                                  *)
(***************************************************************************)
EXTENDS AuthProbeInvariant

Deployed == [e \in Engines |-> e]

MCConfigs ==
  {[urls |-> u, refused |-> r, secret |-> s] :
     u \in {Deployed, [Deployed EXCEPT !["div7a"] = "localhost"],
            [Deployed EXCEPT !["fbt"] = "no scheme"]},
     r \in {{}, {"depreciation"}}, s \in {"none", "secret"}}

MCCalls ==
  {[header |-> h, audiences |-> <<>>, iterable |-> TRUE] : h \in Headers}
  \cup {[header |-> "secret", audiences |-> <<"fbt", "localhost", "fbt">>,
          iterable |-> i] : i \in BOOLEAN}
=============================================================================
