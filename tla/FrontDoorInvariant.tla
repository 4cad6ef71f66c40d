------------------------- MODULE FrontDoorInvariant -------------------------
(***************************************************************************)
(* Why the doors agree: what each of them has answered is a function of    *)
(* the wish, and a redirect goes where the wish was.                       *)
(***************************************************************************)
EXTENDS FrontDoor

(***************************************************************************)
(* No two rows of the registry have the same tool name, and none is        *)
(* mistaken for the name that is no string.  The provers know nothing of   *)
(* concatenated strings; TLC evaluates this.                               *)
(***************************************************************************)
ASSUME ToolNamesAssumption ==
  /\ \A i, j \in DOMAIN Registry :
       ToolNameFor(Registry[i].calc) = ToolNameFor(Registry[j].calc) => i = j
  /\ \A i \in DOMAIN Registry : ToolNameFor(Registry[i].calc) # NotAString

Listings == {"calculators", "modules", "tools"}

\* What a listing offers, taken up with a body its model accepts.
Advertised(w) ==
  /\ Registered(w.calc)
  /\ Supports(Meta(w.calc), w.period)
  /\ w.taxonomy = DefaultTaxonomy
  /\ w.body = Samples[InputModelRest(w.calc)]

SourceIsKnown ==
  /\ source \in {"undecided", "own", "resources", "rpc"} \cup Listings
  /\ source \in Listings => Advertised(wish)
  /\ ~Decided => redirect = NoRedirect /\ \A d \in Doors : ~Asked(d)

RedirectIsForTheWish ==
  redirect # NoRedirect =>
    /\ Registered(wish.calc)
    /\ redirect.calc = wish.calc
    /\ redirect.native <=> wish.calc = Calculator("depreciation", "at")
    /\ redirect.period \in {wish.period, Meta(wish.calc).periods[1]}

\* What a door answers to the wish, once it is asked.
ToBeAnswered(d) ==
  CASE d = "generic" -> InvokeCalculator(wish.calc, wish.period, wish.taxonomy,
                                         wish.body)
    [] d = "native"  -> AtItsRoute(wish)
    [] d = "redirect" ->
         IF redirect.native
         THEN InvokeDepreciationAt(redirect.period, DefaultTaxonomy, wish.body)
         ELSE InvokeCalculator(redirect.calc, redirect.period, DefaultTaxonomy,
                               wish.body)

AnswersAreForTheWish ==
  /\ answers = [d \in Doors |-> answers[d]]
  /\ \A d \in Doors : Asked(d) => answers[d] = ToBeAnswered(d)
  /\ Asked("native") => HasRoute(wish.calc)
  /\ Asked("redirect") => redirect # NoRedirect

RepliesAreForTheSource ==
  /\ source = "undecided" => rpc = NoRpc
  /\ source \in Listings /\ rpc # NoRpc => rpc.reply.error = 0
  /\ source = "resources" => rpc.reply.result = "contents"

(***************************************************************************)
(* The inductive invariant: every answer and redirect, and the last reply, *)
(* is the one the handlers give to the wish the caller has settled on.     *)
(***************************************************************************)
IInv ==
  SourceIsKnown /\ RedirectIsForTheWish /\ AnswersAreForTheWish
  /\ RepliesAreForTheSource
=============================================================================
