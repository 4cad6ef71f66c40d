----------------------------- MODULE MCGateway -----------------------------
(***************************************************************************)
(* Instances of Gateway for TLC.  Two answer domains: `AllAnswers`, every  *)
(* body the mapper can tell apart, for one request; `SomeAnswers`, one of  *)
(* each class of outcome, for concurrent requests.                         *)
(***************************************************************************)
EXTENDS GatewayInvariant

Kind(calc, taxonomy, input) ==
  [calc |-> calc, taxonomy |-> taxonomy, input |-> input]

\* Every calculator and taxonomy with a valid input, every way to be rejected.
AllKinds ==
  {Kind(c, t, "valid") : c \in Engines \cup {"hp"}, t \in Taxonomies}
    \cup {Kind("fbt", "lodgeit_au_sbrm", i) : i \in Inputs}

SomeKinds == {Kind("fbt", "lodgeit_au_sbrm", "valid"),
              Kind("div7a", "lodgeit_au_sbrm", "valid")}

-----------------------------------------------------------------------------
\* Every body; internal fields nowhere or at every depth.
AllBodies == {b \in WellFormedBody : b.internal \in {{}, Places}}

\* What the branches of the 4xx tell apart.
PlainBodies == {b \in WellFormedBody : /\ b.error = "none" /\ ~b.cohort
                                       /\ b.refusal_class \in {"none", "other_term"}
                                       /\ b.payload = "absent"
                                       /\ b.mention = Truthy(b.refusal_class)
                                       /\ b.internal \in {{}, {"top"}, Places}}

\* One status of each 4xx branch of the mapper, and a redirect.
PlainStatuses == {301, 400, 401, 404, 409, 413, 418, 422, 429}

UriLists == {<<>>, <<"shipped">>, <<"missing">>, <<"shipped", "malformed">>,
             <<"missing", "malformed">>}

NoBody == [shape |-> "text", error |-> "none", refusal_class |-> "none",
           payload |-> "absent", mention |-> FALSE, cohort |-> FALSE,
           internal |-> {}]

GoodResult ==
  [shape |-> "object", error |-> "none", typed |-> FALSE, detail |-> NoBody,
   copied |-> FALSE, taxable |-> "nonzero", trio |-> "strings", complete |-> TRUE,
   traced |-> <<"shipped">>, consumed |-> <<>>, internal |-> {}]

\* A dict detail with no payload of its own is the payload.
ErrorResults ==
  {[GoodResult EXCEPT !.error = e, !.detail = b, !.copied = c, !.typed = t] :
     e \in Terms, b \in {d \in AllBodies : d.internal = Places},
     c \in BOOLEAN, t \in BOOLEAN}

SuccessResults ==
  {[GoodResult EXCEPT !.taxable = t, !.trio = g, !.traced = u, !.consumed = v] :
     t \in TaxableValues, g \in Trios, u \in UriLists, v \in UriLists}
  \cup {[GoodResult EXCEPT !.complete = FALSE]}

OddResults == {[GoodResult EXCEPT !.shape = s] : s \in {"list", "not_json"}}

Http(status, body) == [kind |-> "http", status |-> status, body |-> body]
Returns(res)       == [kind |-> "result", result |-> res]

AllAnswers ==
  {Http(500, b) : b \in AllBodies}
    \cup {Http(s, b) : s \in PlainStatuses, b \in PlainBodies}
    \cup {Returns(res) : res \in OddResults \cup SuccessResults \cup
            {e \in ErrorResults : e.copied => /\ e.detail.shape = "object"
                                              /\ e.detail.payload # "absent"}}

\* What an engine may say of a refusal in an object: a refusal_class, with and
\* without a payload; a recognised term; a class that is null, yet mentioned.
Object  == [NoBody EXCEPT !.shape = "object"]
Refusal == [Object EXCEPT !.refusal_class = "other_term", !.mention = TRUE]
Conflict == [Object EXCEPT !.error = "conflicting_inputs"]
PayloadRefusal == [Refusal EXCEPT !.payload = "unnamed"]
NullRefusal == [Object EXCEPT !.error = "other_term", !.payload = "unnamed",
                              !.mention = TRUE]

Fails(error, detail) == [GoodResult EXCEPT !.error = error, !.detail = detail]

SomeAnswers ==
  {Http(400, Refusal), Http(403, NoBody)}
    \cup {Http(500, b) : b \in {NoBody, Conflict, Refusal, PayloadRefusal, NullRefusal}}
    \cup {Returns(res) : res \in
            {GoodResult, [GoodResult EXCEPT !.shape = "not_json"],
             Fails("conflicting_inputs", NoBody), Fails("other_term", Refusal),
             Fails("other_term", NoBody)}}
=============================================================================
