----------------------------- MODULE RateTables -----------------------------
(***************************************************************************)
(* The tree of statutory rate tables while it is served: the rate routes   *)
(* (api/routes/rates.py), the manifest of a calculator's answer            *)
(* (api/manifest_fidelity.py) and the advisory wrapped around it.          *)
(*                                                                         *)
(* The tree is mounted from a working copy, so tables are edited, added,   *)
(* anchored and removed under the gateway, which reads a table anew each   *)
(* time it says something of it.  The engine has read its tables once,     *)
(* when it started.                                                        *)
(***************************************************************************)
EXTENDS Advisory, Integers, Sequences

CONSTANTS
  Periods,    \* period URIs that parse
  RateIds,    \* stems of the table files
  InOrder,    \* the stems in the order of sorted(root.glob("*.md"))
  Bodies,     \* what a table says, its content_hash line apart
  NotUtf8,    \* those that are not UTF-8
  BadYaml,    \* those whose frontmatter is not YAML
  Trees,      \* the trees the gateway may find when it starts
  Maintained, \* the roots that are edited while it runs
  Requests,   \* requests being served
  Kinds,      \* what they ask: members of Request
  Rounded,    \* engines whose calculators declare a rounding sentence
  MaxEdits    \* bound on the edits of the tree

Taxonomies == {"lodgeit_au_sbrm", "hoffman_base"}
Roots      == Periods \X Taxonomies
Engines    == {"fbt", "div7a", "depreciation"}

\* The table div7a's manifest pins when its engine cites none.
CONSTANT BenchmarkInterest

(***************************************************************************)
(* A SHA-256 digest, as what it was computed from: the body of a table and *)
(* whether a content_hash line with the placeholder stands in it.          *)
(***************************************************************************)
NoBody    == "no body"
NoDigest  == [body |-> NoBody, lined |-> FALSE]
Digest    == [body : Bodies, lined : BOOLEAN] \cup {NoDigest}

\* The content_hash line of a table: a digest, one of two placeholders, none.
Lines == {"anchored", "placeholder", "draft", "none"}
File  == {file \in [body : Bodies, line : Lines, anchor : Digest] :
            file.line = "anchored" => file.anchor # NoDigest}

Request ==
  [op : {"list"}, period : Periods \cup {"malformed"},
   taxonomy : Taxonomies \cup {"unratified"}]
  \cup [op : {"get"}, period : Periods \cup {"malformed"},
        taxonomy : Taxonomies \cup {"unratified"}, rate : RateIds]
  \cup [op : {"calc"}, period : Periods, taxonomy : Taxonomies,
        engine : Engines]

RangeOf(s) == {s[i] : i \in DOMAIN s}

Precedes(a, b) ==
  \E i, j \in DOMAIN InOrder : i <= j /\ InOrder[i] = a /\ InOrder[j] = b

Tree == [Roots -> UNION {[S -> File] : S \in SUBSET RateIds}]

ASSUME RateTablesAssumption ==
  /\ "malformed" \notin Periods
  /\ NotUtf8 \subseteq Bodies /\ BadYaml \subseteq Bodies /\ NoBody \notin Bodies
  /\ InOrder \in Seq(RateIds) /\ RangeOf(InOrder) = RateIds
  /\ \A i, j \in DOMAIN InOrder : InOrder[i] = InOrder[j] => i = j
  /\ Trees \subseteq Tree /\ Maintained \subseteq Roots
  /\ Kinds \subseteq Request
  /\ BenchmarkInterest \in RateIds
  /\ MaxEdits \in Nat

VARIABLES
  disk,       \* the tree: per root, the tables that are there
  edits,      \* edits so far
  engine,     \* the tables the engines computed with since they started
  engineAt,   \* the edits the tree had when they started
  sentences,  \* whether the rounding sentences have been read
  pc,         \* where each request is
  req,        \* what it asks
  todo,       \* the rate ids its handler has yet to look at
  part,       \* the entry it is making of the first of them
  entries,    \* the entries made
  reply,      \* what the caller received
  used,       \* history: the tables the engine computed its answer with
  seen        \* history: the trees that were there while it was served

vars == <<disk, edits, engine, engineAt, sentences, pc, req, todo, part,
          entries, reply, used, seen>>
world   == <<disk, edits, engine, engineAt, sentences>>
history == <<used, seen>>

-----------------------------------------------------------------------------
(* manifest_fidelity.py *)

\* Mutant of HashRateTable: the digest written in the table is believed.
HashRateTableDeclared(file) ==
  IF file.line = "anchored" THEN file.anchor
  ELSE [body |-> file.body, lined |-> file.line # "none"]

\* Mutant of HashRateTable: the line is dropped, not reset to the placeholder.
HashRateTableUnlined(file) == [body |-> file.body, lined |-> FALSE]

\* A draft placeholder is promoted and a digest replaced before hashing: one
\* body has one digest whatever stands in its line.
HashRateTable(file) == [body |-> file.body, lined |-> file.line # "none"]

\* Mutant of DeclaredContentHash: any content_hash line is a declared hash.
DeclaredContentHashAny(file) ==
  IF file.line = "none" THEN NoDigest
  ELSE IF file.line = "anchored" THEN file.anchor
       ELSE [body |-> NoBody, lined |-> TRUE]

DeclaredContentHash(file) ==
  IF file.line = "anchored" THEN file.anchor ELSE NoDigest

(* rates.py and rate_table_resolver.py *)

RateTableRootFor(q) == <<q.period, q.taxonomy>>

\* The URI a handler gives the table `rate` of the request's period.
RateUri(period, rate) == [period |-> period, rate |-> rate]

Parts ==
  [step : {"text", "hash", "declared", "is_declared", "drift"},
   hash : Digest, declared : Digest, at : 0..MaxEdits]

NoPart == [step |-> "hash", hash |-> NoDigest, declared |-> NoDigest, at |-> 0]

\* `at`: the edits the tree had when the entry was begun (history).
Entry(q, rate, hash, declared, drift, at) ==
  [uri |-> RateUri(q.period, rate), content_hash |-> hash,
   declared_hash |-> declared, drift |-> drift, at |-> at]

Entries ==
  [uri : [period : Periods, rate : RateIds], content_hash : Digest,
   declared_hash : Digest, drift : BOOLEAN, at : 0..MaxEdits]

NoBlock == Block("none", FALSE, FALSE)
NoReply == [status |-> 0, error |-> "no_reply", advisory |-> NoBlock]
Ok(block)      == [status |-> 200, error |-> "none", advisory |-> block]
Error(st, err) == [status |-> st, error |-> err, advisory |-> NoBlock]

\* An exception no handler catches: Starlette's plain-text 500.
Bare500 == Error(500, "internal_server_error")

Replies == {NoReply, Bare500} \cup
  {Error(422, e) : e \in {"bad_uri", "bad_taxonomy"}} \cup
  {Error(404, e) : e \in {"no_root", "no_table"}} \cup
  {Error(502, "manifest_rate_table_unavailable")} \cup
  {Ok(b) : b \in {NoBlock} \cup
     {Block(f, a, s) : f \in Frames, a \in BOOLEAN, s \in BOOLEAN}}

NoRequest == [op |-> "none"]

Init ==
  /\ disk \in Trees /\ edits = 0
  /\ engine = disk /\ engineAt = 0
  /\ sentences = "unread"
  /\ pc = [r \in Requests |-> "idle"]
  /\ req = [r \in Requests |-> NoRequest]
  /\ todo = [r \in Requests |-> {}]
  /\ part = [r \in Requests |-> NoPart]
  /\ entries = [r \in Requests |-> <<>>]
  /\ reply = [r \in Requests |-> NoReply]
  /\ used = [r \in Requests |-> disk]
  /\ seen = [r \in Requests |-> {}]

-----------------------------------------------------------------------------
\* The handler of r answers.
Answer(r, rep) ==
  /\ pc' = [pc EXCEPT ![r] = "done"]
  /\ reply' = [reply EXCEPT ![r] = rep]

Root(r)    == disk[RateTableRootFor(req[r])]
Table(r, id) == Root(r)[id]

\* read_text succeeds.
Readable(r, id) == id \in DOMAIN Root(r) /\ Table(r, id).body \notin NotUtf8

\* A list goes through the directory in order; a manifest, through what the
\* engine cites in the engine's order.
InTurn(r, id) ==
  /\ id \in todo[r]
  /\ req[r].op # "calc" => \A other \in todo[r] : Precedes(id, other)

\* r is at the table `id`, in step `step` of its entry.
Reading(r, id, step) ==
  pc[r] = "reading" /\ part[r].step = step /\ InTurn(r, id)

\* r is done with the table `id`.
Leave(r, id) ==
  /\ todo' = [todo EXCEPT ![r] = @ \ {id}]
  /\ part' = [part EXCEPT ![r] = NoPart]

Arrive(r) ==
  /\ pc[r] = "idle"
  /\ \E q \in Kinds : req' = [req EXCEPT ![r] = q]
  /\ pc' = [pc EXCEPT ![r] = "start"]
  /\ seen' = [seen EXCEPT ![r] = {disk}]
  /\ UNCHANGED <<world, todo, part, entries, reply, used>>

\* The checks list_rates and get_rate begin with.
Refuse(r) ==
  /\ pc[r] = "start" /\ req[r].op \in {"list", "get"}
  /\ \/ /\ req[r].period = "malformed"
        /\ Answer(r, Error(422, "bad_uri"))
     \/ /\ req[r].period # "malformed" /\ req[r].taxonomy = "unratified"
        /\ Answer(r, Error(422, "bad_taxonomy"))
  /\ UNCHANGED <<world, req, todo, part, entries, history>>

Accepted(r) ==
  /\ pc[r] = "start"
  /\ req[r].period # "malformed" /\ req[r].taxonomy # "unratified"

\* Git keeps no empty directory: a root exists while it holds a table.
StartList(r) ==
  /\ Accepted(r) /\ req[r].op = "list"
  /\ IF DOMAIN Root(r) = {}
     THEN Answer(r, Error(404, "no_root"))
     ELSE pc' = [pc EXCEPT ![r] = "glob"] /\ UNCHANGED reply
  /\ UNCHANGED <<world, req, todo, part, entries, history>>

Glob(r) ==
  /\ pc[r] = "glob"
  /\ pc' = [pc EXCEPT ![r] = "reading"]
  /\ todo' = [todo EXCEPT ![r] = DOMAIN Root(r)]
  /\ UNCHANGED <<world, req, part, entries, reply, history>>

\* Mutant of StartGet: no check that the table is there.
StartGetUnchecked(r) ==
  /\ Accepted(r) /\ req[r].op = "get"
  /\ pc' = [pc EXCEPT ![r] = "reading"]
  /\ todo' = [todo EXCEPT ![r] = {req[r].rate}]
  /\ part' = [part EXCEPT ![r].step = "text"]
  /\ UNCHANGED <<world, req, entries, reply, history>>

StartGet(r) ==
  /\ Accepted(r) /\ req[r].op = "get"
  /\ IF req[r].rate \notin DOMAIN Root(r)
     THEN /\ Answer(r, Error(404, "no_table"))
          /\ UNCHANGED <<todo, part>>
     ELSE /\ pc' = [pc EXCEPT ![r] = "reading"]
          /\ todo' = [todo EXCEPT ![r] = {req[r].rate}]
          /\ part' = [part EXCEPT ![r].step = "text"]
          /\ UNCHANGED reply
  /\ UNCHANGED <<world, req, entries, history>>

\* get_rate: read_text and _split_frontmatter.
ReadText(r, id) ==
  /\ Reading(r, id, "text") /\ req[r].op = "get"
  /\ IF Readable(r, id) /\ Table(r, id).body \notin BadYaml
     THEN /\ part' = [part EXCEPT ![r].step = "hash"]
          /\ UNCHANGED <<pc, reply>>
     ELSE Answer(r, Bare500) /\ UNCHANGED part
  /\ UNCHANGED <<world, req, todo, entries, history>>

\* live_hash = hash_rate_table(path)
ReadHash(r, id) ==
  /\ Reading(r, id, "hash") /\ req[r].op \in {"list", "get"}
  /\ IF Readable(r, id)
     THEN /\ part' = [part EXCEPT ![r].hash = HashRateTable(Table(r, id)),
                                  ![r].step = "declared", ![r].at = edits]
          /\ UNCHANGED <<pc, reply>>
     ELSE Answer(r, Bare500) /\ UNCHANGED part
  /\ UNCHANGED <<world, req, todo, entries, history>>

\* declared_content_hash(path), for the entry's declared_hash.  get_rate tells
\* drift from this value, list_rates reads the table again.
ReadDeclared(r, id) ==
  /\ Reading(r, id, "declared") /\ req[r].op \in {"list", "get"}
  /\ IF ~Readable(r, id)
     THEN Answer(r, Bare500) /\ UNCHANGED <<todo, part, entries>>
     ELSE LET declared == DeclaredContentHash(Table(r, id)) IN
          IF req[r].op = "list"
          THEN /\ part' = [part EXCEPT ![r].declared = declared,
                                       ![r].step = "is_declared"]
               /\ UNCHANGED <<pc, reply, todo, entries>>
          ELSE /\ entries' = [entries EXCEPT ![r] = Append(@,
                     Entry(req[r], id, part[r].hash, declared,
                           declared # NoDigest /\ declared # part[r].hash,
                           part[r].at))]
               /\ Leave(r, id)
               /\ UNCHANGED <<pc, reply>>
  /\ UNCHANGED <<world, req, history>>

\* list_rates: the table is read a third time for `is not None` and, when it
\* declares a hash, a fourth time for `!= live_hash`.
ReadIsDeclared(r, id) ==
  /\ Reading(r, id, "is_declared") /\ req[r].op = "list"
  /\ IF ~Readable(r, id)
     THEN Answer(r, Bare500) /\ UNCHANGED <<todo, part, entries>>
     ELSE /\ IF DeclaredContentHash(Table(r, id)) # NoDigest
             THEN /\ part' = [part EXCEPT ![r].step = "drift"]
                  /\ UNCHANGED <<todo, entries>>
             ELSE /\ entries' = [entries EXCEPT ![r] = Append(@,
                        Entry(req[r], id, part[r].hash, part[r].declared,
                              FALSE, part[r].at))]
                  /\ Leave(r, id)
          /\ UNCHANGED <<pc, reply>>
  /\ UNCHANGED <<world, req, history>>

ReadDrift(r, id) ==
  /\ Reading(r, id, "drift") /\ req[r].op = "list"
  /\ IF ~Readable(r, id)
     THEN Answer(r, Bare500) /\ UNCHANGED <<todo, part, entries>>
     ELSE /\ entries' = [entries EXCEPT ![r] = Append(@,
                Entry(req[r], id, part[r].hash, part[r].declared,
                      DeclaredContentHash(Table(r, id)) # part[r].hash,
                      part[r].at))]
          /\ Leave(r, id)
          /\ UNCHANGED <<pc, reply>>
  /\ UNCHANGED <<world, req, history>>

AnswerEntries(r) ==
  /\ pc[r] = "reading" /\ todo[r] = {} /\ req[r].op \in {"list", "get"}
  /\ Answer(r, Ok(NoBlock))
  /\ UNCHANGED <<world, req, todo, part, entries, history>>

-----------------------------------------------------------------------------
(* The calculator routes, from the engine's answer on *)

\* rate_uris: what the engine cites of the tables it has loaded; div7a's route
\* pins the benchmark rate when it cites none, depreciation's engine has none.
Cited(r, cited) ==
  IF req[r].engine = "div7a" /\ cited = {} THEN {BenchmarkInterest} ELSE cited

EngineAnswers(r) ==
  /\ pc[r] = "start" /\ req[r].op = "calc"
  /\ \E S \in SUBSET DOMAIN engine[<<req[r].period, "lodgeit_au_sbrm">>] :
       /\ req[r].engine = "depreciation" => S = {}
       /\ todo' = [todo EXCEPT ![r] = Cited(r, S)]
  /\ pc' = [pc EXCEPT ![r] = "reading"]
  /\ used' = [used EXCEPT ![r] = engine]
  /\ UNCHANGED <<world, req, part, entries, reply, seen>>

\* Mutant of BuildManifest: the tables are hashed as they were at startup.
BuildManifestSnapshot(r, id) ==
  LET tables == engine[RateTableRootFor(req[r])] IN
  /\ Reading(r, id, "hash") /\ req[r].op = "calc"
  /\ id \in DOMAIN tables
  /\ entries' = [entries EXCEPT ![r] = Append(@,
         Entry(req[r], id, HashRateTable(tables[id]), NoDigest, FALSE, edits))]
  /\ Leave(r, id)
  /\ UNCHANGED <<world, pc, reply, req, history>>

\* build_manifest: one cited table.  A table that is not there or cannot be
\* opened is caught by the route, one that does not decode is not.
BuildManifest(r, id) ==
  /\ Reading(r, id, "hash") /\ req[r].op = "calc"
  /\ \/ /\ Readable(r, id)
        /\ entries' = [entries EXCEPT ![r] = Append(@,
               Entry(req[r], id, HashRateTable(Table(r, id)), NoDigest, FALSE,
                     edits))]
        /\ Leave(r, id)
        /\ UNCHANGED <<pc, reply>>
     \/ /\ id \notin DOMAIN Root(r)
        /\ Answer(r, Error(502, "manifest_rate_table_unavailable"))
        /\ UNCHANGED <<todo, part, entries>>
     \/ /\ id \in DOMAIN Root(r) /\ ~Readable(r, id)
        /\ Answer(r, Bare500)
        /\ UNCHANGED <<todo, part, entries>>
  /\ UNCHANGED <<world, req, history>>

\* depreciation's engine echoes the one basis the gateway lets through; the
\* others name none.
BasisOf(calculator) ==
  IF calculator = "depreciation" THEN "accounting" ELSE "none"

Wrap(r, sentence) ==
  Answer(r, Ok(WrapResponse("AU", entries[r], BasisOf(req[r].engine), sentence)))

\* Mutant of RoundingLookup: the cache is set up before the file is read.
RoundingLookupEager(r) ==
  /\ sentences' = "read"
  /\ \/ Wrap(r, req[r].engine \in Rounded)
     \/ Wrap(r, FALSE)

\* rounding_advisory_for: calculator_metadata.json is read at the first lookup
\* that succeeds, and a lookup that fails leaves the block as it is.
RoundingLookup(r) ==
  \/ /\ sentences' = "read" /\ Wrap(r, req[r].engine \in Rounded)
  \/ /\ sentences = "unread" /\ sentences' = "unread" /\ Wrap(r, FALSE)

AnswerCalculation(r) ==
  /\ pc[r] = "reading" /\ todo[r] = {} /\ req[r].op = "calc"
  /\ RoundingLookup(r)
  /\ UNCHANGED <<disk, edits, engine, engineAt, req, todo, part, entries,
                 history>>

-----------------------------------------------------------------------------
(* The world around: the tree's editors and the engine *)

\* The canonical digest of a table, as the audit script computes it.
CanonicalDigest(file) == [body |-> file.body, lined |-> file.line # "none"]

\* The tree is changed; every request being served sees it.
ChangeTree(root, tables) ==
  /\ edits < MaxEdits /\ edits' = edits + 1
  /\ disk' = [disk EXCEPT ![root] = tables]
  /\ seen' = [r \in Requests |-> IF pc[r] \in {"idle", "done"} THEN seen[r]
                                 ELSE seen[r] \cup {disk'}]
  /\ UNCHANGED <<engine, engineAt, sentences, pc, req, todo, part, entries, reply,
                 used>>

\* A table's text is changed; its content_hash line is left as it is.
EditTable(root, id) ==
  /\ id \in DOMAIN disk[root]
  /\ \E b \in Bodies : ChangeTree(root, [disk[root] EXCEPT ![id].body = b])

\* The audit script writes the digest of the table into its line.
AnchorTable(root, id) ==
  /\ id \in DOMAIN disk[root]
  /\ disk[root][id].line # "none"
  /\ ChangeTree(root, [disk[root] EXCEPT
       ![id].line = "anchored",
       ![id].anchor = CanonicalDigest(disk[root][id])])

AddTable(root, id) ==
  /\ id \notin DOMAIN disk[root]
  /\ \E b \in Bodies, line \in {"draft", "none"} :
       ChangeTree(root, [i \in DOMAIN disk[root] \cup {id} |->
         IF i = id THEN [body |-> b, line |-> line, anchor |-> NoDigest]
         ELSE disk[root][i]])

RemoveTable(root, id) ==
  /\ id \in DOMAIN disk[root]
  /\ ChangeTree(root, [i \in DOMAIN disk[root] \ {id} |-> disk[root][i]])

\* The engine reads its tables at startup.
StartEngine ==
  /\ engineAt # edits
  /\ engine' = disk /\ engineAt' = edits
  /\ UNCHANGED <<disk, edits, sentences, pc, req, todo, part, entries, reply,
                 history>>

Serve(r) ==
  \/ Refuse(r) \/ StartList(r) \/ Glob(r) \/ StartGet(r) \/ AnswerEntries(r)
  \/ EngineAnswers(r) \/ AnswerCalculation(r)
  \/ \E id \in RateIds :
       \/ ReadText(r, id) \/ ReadHash(r, id) \/ ReadDeclared(r, id)
       \/ ReadIsDeclared(r, id) \/ ReadDrift(r, id) \/ BuildManifest(r, id)

Edit == \E root \in Maintained, id \in RateIds :
  \/ EditTable(root, id) \/ AnchorTable(root, id)
  \/ AddTable(root, id) \/ RemoveTable(root, id)

Next ==
  \/ \E r \in Requests : Arrive(r) \/ Serve(r)
  \/ Edit
  \/ StartEngine

Spec == Init /\ [][Next]_vars

-----------------------------------------------------------------------------
(* Properties *)

\* The text of the table has changed since its digest was written into it.
Stale(file) == file.line = "anchored" /\ file.anchor # CanonicalDigest(file)

\* The versions of its root that were there while r was served.
RootsSeen(r) == {d[RateTableRootFor(req[r])] : d \in seen[r]}

\* `digest` is that of a text the table `id` had while r was served.
Live(r, id, digest) ==
  \E tables \in RootsSeen(r) :
    id \in DOMAIN tables /\ digest = CanonicalDigest(tables[id])

TypeOK ==
  /\ disk \in Tree /\ engine \in Tree
  /\ edits \in 0..MaxEdits /\ engineAt \in 0..MaxEdits
  /\ sentences \in {"unread", "read"}
  /\ pc \in [Requests -> {"idle", "start", "glob", "reading", "done"}]
  /\ req \in [Requests -> Kinds \cup {NoRequest}]
  /\ todo \in [Requests -> SUBSET RateIds]
  /\ part \in [Requests -> Parts]
  /\ entries \in [Requests -> Seq(Entries)]
  /\ reply \in [Requests -> Replies]
  /\ used \in [Requests -> Tree]
  /\ seen \in [Requests -> SUBSET Tree]

EntriesAreLive(r) ==
  \A i \in DOMAIN entries[r] :
    Live(r, entries[r][i].uri.rate, entries[r][i].content_hash)

\* A content_hash in an answer, or in one being made, is that of a text the
\* named table had while the request was served: "the live invocation-time
\* hash, NOT a deployment-time snapshot" (hash_rate_table), whoever edits the
\* tree meanwhile and whatever digest the table itself declares.
PublishedHashWasLive == \A r \in Requests : EntriesAreLive(r)

\* What two answers say of one table at one moment is the same: a consumer who
\* fetches a table cited in a manifest finds the digest the manifest cites,
\* unless the tree was edited in between (rates.py:7-10).
CitationsVerify ==
  \A r1, r2 \in Requests :
    \A i \in DOMAIN entries[r1], j \in DOMAIN entries[r2] :
      LET e1 == entries[r1][i]
          e2 == entries[r2][j]
      IN  e1.uri = e2.uri /\ e1.at = e2.at => e1.content_hash = e2.content_hash

\* The tables r has an entry of.
Entered(r) == {entries[r][i].uri.rate : i \in DOMAIN entries[r]}

\* The entries come in the order of sorted(root.glob("*.md")), none twice.
InDirectoryOrder(r) ==
  \A i, j \in DOMAIN entries[r] : i < j =>
    LET a == entries[r][i].uri.rate
        b == entries[r][j].uri.rate
    IN  a # b /\ Precedes(a, b)

\* Drift is reported exactly for the tables that are stale.
DriftIsStaleness(r, tables) ==
  \A i \in DOMAIN entries[r] :
    entries[r][i].drift <=> Stale(tables[entries[r][i].uri.rate])

\* When nobody touches the root, a list is the directory: each table once, in
\* order; and an entry reports drift exactly for the tables whose text changed
\* after their digest was written into them.
QuietAnswerIsExact ==
  \A r \in Requests :
    pc[r] = "done" /\ req[r].op \in {"list", "get"} /\ reply[r].status = 200 =>
      \A tables \in RootsSeen(r) : RootsSeen(r) = {tables} =>
        /\ req[r].op = "list" => Entered(r) = DOMAIN tables /\ InDirectoryOrder(r)
        /\ DriftIsStaleness(r, tables)

\* A table went away while r was served, or one of them is no text.
Cause(r) ==
  \/ \E t1, t2 \in RootsSeen(r) : ~ (DOMAIN t1 \subseteq DOMAIN t2)
  \/ \E tables \in RootsSeen(r) : \E id \in DOMAIN tables :
       tables[id].body \in NotUtf8 \cup BadYaml

\* A caller sees a bare 500 only for a table that went away while it was being
\* read or that is no text: a table that is not there is a 404 of the rate
\* routes and a typed 502 of the calculators.
BareErrorHasCause == \A r \in Requests : reply[r] = Bare500 => Cause(r)

Fits(r, block) ==
  /\ block.frame = "no_tables" => entries[r] = <<>>
  /\ block.frame = "cites_tables" => entries[r] # <<>>
  /\ block.frame = "accounting" <=> req[r].engine = "depreciation"
  /\ block.registered_agent_required <=> req[r].engine # "depreciation"

Calculated(r) ==
  pc[r] = "done" /\ req[r].op = "calc" /\ reply[r].status = 200

\* The advisory of an answer says what its manifest shows: tables are cited
\* exactly when it cites some, and an accounting figure, which rests on none,
\* is never handed out under the tax agents' framing, nor a tax figure without.
AdvisoryFitsManifest ==
  \A r \in Requests : Calculated(r) => Fits(r, reply[r].advisory)

\* Once the rounding sentences have been read, every later answer of a
\* calculator that has one carries it: a lookup that failed is not remembered.
RoundingOnceKnown ==
  [][\A r \in Requests :
       /\ sentences = "read" /\ reply[r] = NoReply /\ reply'[r].status = 200
       /\ req[r].op = "calc"
       => reply'[r].advisory.rounding = (req[r].engine \in Rounded)]_vars
=============================================================================
