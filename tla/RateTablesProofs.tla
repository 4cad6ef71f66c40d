-------------------------- MODULE RateTablesProofs --------------------------
(***************************************************************************)
(* Theorems about RateTables, for any tables and requests and any number   *)
(* of edits.                                                               *)
(***************************************************************************)
EXTENDS RateTablesInvariant, TLAPS

\* What a request asks.
LEMMA RequestFact ==
  ASSUME NEW q \in Kinds
  PROVE  /\ q.op \in {"list", "get", "calc"}
         /\ q.op = "get" => q.rate \in RateIds
         /\ q.op = "calc" => q.engine \in Engines
         /\ q.op # "calc" /\ q.period # "malformed" => q.period \in Periods
         /\ q.op # "calc" /\ q.taxonomy # "unratified" => q.taxonomy \in Taxonomies
         /\ q.op = "calc" => q.period \in Periods /\ q.taxonomy \in Taxonomies
         /\ q # NoRequest
<1>1. q \in Request
  BY RateTablesAssumption
<1> QED  BY <1>1 DEF Request, NoRequest, Taxonomies

\* The tables of a root.
LEMMA TreeFact ==
  ASSUME NEW tree \in Tree, NEW root \in Roots
  PROVE  /\ DOMAIN tree[root] \subseteq RateIds
         /\ tree[root] \in [DOMAIN tree[root] -> File]
<1>1. tree[root] \in UNION {[S -> File] : S \in SUBSET RateIds}
  BY DEF Tree
<1> QED  BY <1>1

\* A tree with another root in place of one is a tree.
LEMMA TreeChange ==
  ASSUME NEW tree \in Tree, NEW root \in Roots, NEW S \in SUBSET RateIds,
         NEW tables \in [S -> File]
  PROVE  [tree EXCEPT ![root] = tables] \in Tree
<1>1. tables \in UNION {[D -> File] : D \in SUBSET RateIds}
  OBVIOUS
<1> QED  BY <1>1 DEF Tree

\* What is read in a file.
LEMMA FileFact ==
  ASSUME NEW file \in File
  PROVE  /\ HashRateTable(file) \in Digest
         /\ HashRateTable(file) = CanonicalDigest(file)
         /\ CanonicalDigest(file) # NoDigest
         /\ DeclaredContentHash(file) \in Digest
         /\ Stale(file) <=> /\ DeclaredContentHash(file) # NoDigest
                           /\ DeclaredContentHash(file) # CanonicalDigest(file)
<1>1. CanonicalDigest(file) # NoDigest
  BY RateTablesAssumption DEF File, CanonicalDigest, NoDigest
<1>2. HashRateTable(file) = CanonicalDigest(file)
  BY DEF HashRateTable, CanonicalDigest
<1>3. HashRateTable(file) \in Digest
  BY DEF File, HashRateTable, Digest
<1>4. DeclaredContentHash(file) \in Digest
  BY DEF File, DeclaredContentHash, Digest
<1>5. Stale(file) <=> /\ DeclaredContentHash(file) # NoDigest
                     /\ DeclaredContentHash(file) # CanonicalDigest(file)
  BY DEF File, Stale, DeclaredContentHash
<1> QED  BY <1>1, <1>2, <1>3, <1>4, <1>5

\* The replies differ in what is asked of them.
LEMMA ReplyFact ==
  /\ NoReply \in Replies /\ NoReply # Bare500 /\ NoReply.status # 200
  /\ Bare500 \in Replies /\ Bare500.status # 200
  /\ \A e \in {"bad_uri", "bad_taxonomy"} :
       Error(422, e) \in Replies /\ Error(422, e) # Bare500
         /\ Error(422, e).status # 200
  /\ \A e \in {"no_root", "no_table"} :
       Error(404, e) \in Replies /\ Error(404, e) # Bare500
         /\ Error(404, e).status # 200
  /\ LET e == Error(502, "manifest_rate_table_unavailable") IN
       e \in Replies /\ e # Bare500 /\ e.status # 200
  /\ \A b : Ok(b) # Bare500 /\ Ok(b).status = 200 /\ Ok(b).advisory = b
  /\ Ok(NoBlock) \in Replies
BY DEF Replies, NoReply, Bare500, Error, Ok

\* The parts of a request's state that Served is about.
Local(r) == <<pc[r], req[r], todo[r], part[r], entries[r], reply[r]>>

\* A step that leaves a request, the tree and what was seen of it alone keeps
\* what holds of the request.
LEMMA ServedStays ==
  ASSUME NEW r \in Requests, Served(r), UNCHANGED Local(r), UNCHANGED <<disk, seen>>
  PROVE  Served(r)'
BY DEF Local, Served, Phases, TodoWasThere, PartIsLive, EntriesAreLive, Cause,
       Calculated, Fits, InTurn, Live, RootsSeen

\* So a step of one request has only that request to show.
LEMMA StepOfOne ==
  ASSUME ServedInv, NEW r \in Requests, UNCHANGED <<disk, seen>>, TypeOK', Served(r)',
         \A q \in Requests : q # r => UNCHANGED Local(q)
  PROVE  ServedInv'
BY ServedStays DEF ServedInv

LEMMA InitInvariant == Init => ServedInv
<1> SUFFICES ASSUME Init PROVE ServedInv
  OBVIOUS
<1>1. disk \in Tree
  BY RateTablesAssumption DEF Init
<1>2. NoPart \in Parts
  BY RateTablesAssumption DEF NoPart, Digest, Parts
<1>3. TypeOK
  BY <1>1, <1>2, ReplyFact, RateTablesAssumption DEF Init, TypeOK
<1>4. ASSUME NEW r \in Requests PROVE Served(r)
  BY ReplyFact
  DEF Init, Served, Phases, TodoWasThere, PartIsLive, EntriesAreLive,
     Calculated
<1> QED  BY <1>3, <1>4 DEF ServedInv

\* A handler that answers.
LEMMA Answers ==
  ASSUME ServedInv, NEW r \in Requests, NEW rep \in Replies, Answer(r, rep),
         pc[r] \in {"start", "reading"}, sentences' \in {"unread", "read"},
         UNCHANGED <<disk, edits, engine, engineAt, req, todo, part, entries,
                     used, seen>>,
         rep = Bare500 => Cause(r),
         req[r].op = "calc" /\ rep.status = 200 => Fits(r, rep.advisory)
  PROVE  ServedInv'
<1>1. TypeOK'
  BY DEF ServedInv, TypeOK, Answer
<1>2. pc'[r] = "done" /\ reply'[r] = rep
  BY DEF ServedInv, TypeOK, Answer
<1>3. Phases(r)' /\ TodoWasThere(r)' /\ PartIsLive(r)'
  BY <1>2 DEF ServedInv, Served, Phases, TodoWasThere, PartIsLive
<1>4. EntriesAreLive(r)'
  BY DEF ServedInv, Served, EntriesAreLive, Live, RootsSeen
<1>5. (reply[r] = Bare500 => Cause(r))'
  BY <1>2 DEF Cause, RootsSeen
<1>6. (Calculated(r) => Fits(r, reply[r].advisory))'
  BY <1>2 DEF Calculated, Fits
<1>7. Served(r)'
  BY <1>3, <1>4, <1>5, <1>6 DEF Served
<1>8. \A q \in Requests : q # r => UNCHANGED Local(q)
  BY DEF Answer, Local, ServedInv, TypeOK
<1> QED  BY <1>1, <1>7, <1>8, StepOfOne

\* A handler that goes on with another table of its todo, or with another step
\* of an entry.
LEMMA GoesOn ==
  ASSUME ServedInv, NEW r \in Requests, pc[r] \in {"start", "glob", "reading"},
         NEW p \in {"start", "glob", "reading"}, pc' = [pc EXCEPT ![r] = p],
         NEW t \in SUBSET RateIds, todo' = [todo EXCEPT ![r] = t],
         part' \in [Requests -> Parts],
         \A q \in Requests : q # r => part'[q] = part[q],
         used' \in [Requests -> Tree],
         UNCHANGED <<disk, edits, engine, engineAt, sentences, req, entries, reply,
                     seen>>,
         p \in {"start", "glob"} => t = {} /\ part'[r] = NoPart /\ entries[r] = <<>>,
         p \in {"glob", "reading"} => RateTableRootFor(req[r]) \in Roots,
         TodoWasThere(r)', PartIsLive(r)'
  PROVE  ServedInv'
<1>1. TypeOK'
  BY DEF ServedInv, TypeOK
<1>2. pc'[r] = p /\ todo'[r] = t
  BY DEF ServedInv, TypeOK
<1>3. Phases(r)'
  BY <1>2 DEF ServedInv, Served, Phases, RateTableRootFor
<1>4. EntriesAreLive(r)'
  BY DEF ServedInv, Served, EntriesAreLive, Live, RootsSeen
<1>5. (reply[r] = Bare500 => Cause(r))' /\ ~ Calculated(r)'
  BY <1>2, ReplyFact DEF ServedInv, Served, Phases, Calculated
<1>6. Served(r)'
  BY <1>3, <1>4, <1>5 DEF Served
<1>7. \A q \in Requests : q # r => UNCHANGED Local(q)
  BY DEF Local, ServedInv, TypeOK
<1> QED  BY <1>1, <1>6, <1>7, StepOfOne

\* An entry is finished.
LEMMA EntryMade ==
  ASSUME ServedInv, NEW r \in Requests, pc[r] = "reading", NEW id \in RateIds,
         NEW hash \in Digest, NEW declared \in Digest, NEW drift \in BOOLEAN,
         NEW at \in 0..MaxEdits, Live(r, id, hash),
         entries' = [entries EXCEPT ![r] =
                       Append(@, Entry(req[r], id, hash, declared, drift, at))],
         Leave(r, id),
         UNCHANGED <<disk, edits, engine, engineAt, sentences, pc, req, reply, used,
                     seen>>
  PROVE  ServedInv'
<1> DEFINE e == Entry(req[r], id, hash, declared, drift, at)
<1>1. req[r].period \in Periods
  BY DEF ServedInv, Served, Phases, RateTableRootFor, Roots
<1>2. e \in Entries /\ e.uri.rate = id /\ e.content_hash = hash
  BY <1>1 DEF Entry, Entries, RateUri
<1>3. entries[r] \in Seq(Entries)
  BY DEF ServedInv, TypeOK
<1>4. entries'[r] = Append(entries[r], e) /\ entries'[r] \in Seq(Entries)
  BY <1>2, <1>3 DEF ServedInv, TypeOK
<1>5. entries' \in [Requests -> Seq(Entries)]
  <2>1. entries \in [Requests -> Seq(Entries)]
    BY DEF ServedInv, TypeOK
  <2>2. entries' = [entries EXCEPT ![r] = entries'[r]]
    BY <2>1
  <2> QED  BY <1>4, <2>1, <2>2
<1>6. part' \in [Requests -> Parts]
  <2>1. NoPart \in Parts
    BY RateTablesAssumption DEF NoPart, Digest, Parts
  <2> QED  BY <2>1 DEF ServedInv, TypeOK, Leave
<1>7. todo' \in [Requests -> SUBSET RateIds]
  BY DEF ServedInv, TypeOK, Leave
<1>8. TypeOK'
  BY <1>5, <1>6, <1>7 DEF ServedInv, TypeOK
<1>9. EntriesAreLive(r)'
  <2>1. SUFFICES ASSUME NEW i \in DOMAIN entries'[r]
                 PROVE  Live(r, entries'[r][i].uri.rate, entries'[r][i].content_hash)
    BY DEF EntriesAreLive, Live, RootsSeen
  <2>2. CASE i \in DOMAIN entries[r]
    <3>1. entries'[r][i] = entries[r][i]
      BY <1>2, <1>3, <1>4, <2>2
    <3> QED  BY <2>2, <3>1 DEF ServedInv, Served, EntriesAreLive
  <2>3. CASE i \notin DOMAIN entries[r]
    <3>1. entries'[r][i] = e
      BY <1>2, <1>3, <1>4, <2>3
    <3> QED  BY <3>1, <1>2
  <2> QED  BY <2>2, <2>3
<1>10. todo'[r] = todo[r] \ {id} /\ part'[r] = NoPart
  BY DEF ServedInv, TypeOK, Leave
<1>11. Phases(r)'
  BY <1>10 DEF ServedInv, Served, Phases
<1>12. TodoWasThere(r)' /\ PartIsLive(r)'
  BY <1>10 DEF ServedInv, Served, TodoWasThere, PartIsLive, NoPart, RootsSeen
<1>13. (reply[r] = Bare500 => Cause(r))' /\ ~ Calculated(r)'
  BY ReplyFact DEF ServedInv, Served, Phases, Calculated
<1>14. Served(r)'
  BY <1>9, <1>11, <1>12, <1>13 DEF Served
<1>15. \A q \in Requests : q # r => UNCHANGED Local(q)
  BY DEF Local, ServedInv, TypeOK, Leave
<1> QED  BY <1>8, <1>14, <1>15, StepOfOne

\* A root that is among those a request may name.
LEMMA AtRoot ==
  ASSUME ServedInv, NEW r \in Requests, pc[r] \in {"start", "glob", "reading"},
         RateTableRootFor(req[r]) \in Roots
  PROVE  /\ Root(r) \in RootsSeen(r)
         /\ DOMAIN Root(r) \subseteq RateIds
         /\ \A id \in DOMAIN Root(r) : Table(r, id) \in File
<1>1. Root(r) \in RootsSeen(r)
  BY DEF ServedInv, Served, Phases, Root, RootsSeen
<1>2. disk \in Tree
  BY DEF ServedInv, TypeOK
<1> QED  BY <1>1, <1>2, TreeFact DEF Root, Table

\* The checks the rate routes begin with leave a root.
LEMMA AcceptedRoot ==
  ASSUME ServedInv, NEW r \in Requests, Accepted(r)
  PROVE  RateTableRootFor(req[r]) \in Roots /\ req[r] \in Kinds
<1>1. req[r] \in Kinds
  BY DEF ServedInv, Served, Phases, Accepted
<1> QED  BY <1>1, RequestFact DEF Accepted, RateTableRootFor, Roots

\* The one reading a table that cannot be read is not at fault.
LEMMA UnreadableHasCause ==
  ASSUME ServedInv, NEW r \in Requests, NEW id \in RateIds, pc[r] = "reading",
         InTurn(r, id),
         \/ req[r].op # "calc" /\ ~ Readable(r, id)
         \/ id \in DOMAIN Root(r) /\ Table(r, id).body \in NotUtf8 \cup BadYaml
  PROVE  Cause(r)
<1>1. Root(r) \in RootsSeen(r)
  BY AtRoot DEF ServedInv, Served, Phases
<1>2. CASE id \in DOMAIN Root(r)
  BY <1>1, <1>2 DEF Cause, Readable, Table
<1>3. CASE id \notin DOMAIN Root(r)
  <2>1. PICK tables \in RootsSeen(r) : id \in DOMAIN tables
    BY <1>3 DEF ServedInv, Served, TodoWasThere, InTurn
  <2>2. ~ (DOMAIN tables \subseteq DOMAIN Root(r))
    BY <2>1, <1>3
  <2> QED  BY <1>1, <2>1, <2>2 DEF Cause
<1> QED  BY <1>2, <1>3

LEMMA ArriveStep ==
  ASSUME ServedInv, NEW r \in Requests, Arrive(r)
  PROVE  ServedInv'
<1>1. PICK q \in Kinds : req' = [req EXCEPT ![r] = q]
  BY DEF Arrive
<1>2. TypeOK'
  <2>1. req' \in [Requests -> Kinds \cup {NoRequest}]
    BY <1>1 DEF ServedInv, TypeOK
  <2>2. seen' \in [Requests -> SUBSET Tree]
    BY DEF ServedInv, TypeOK, Arrive
  <2> QED  BY <2>1, <2>2 DEF ServedInv, TypeOK, Arrive, world
<1>3. /\ pc[r] = "idle" /\ pc'[r] = "start" /\ req'[r] = q /\ seen'[r] = {disk}
      /\ entries[r] = <<>> /\ part[r] = NoPart /\ todo[r] = {} /\ reply[r] = NoReply
      /\ UNCHANGED <<disk, entries, part, todo, reply>>
  BY <1>1 DEF ServedInv, TypeOK, Served, Phases, Arrive, world
<1>4. Served(r)'
  BY <1>3, ReplyFact
  DEF Served, Phases, TodoWasThere, PartIsLive, EntriesAreLive,
     Calculated
<1>5. ASSUME NEW q2 \in Requests, q2 # r  PROVE Served(q2)'
  <2>1. UNCHANGED Local(q2) /\ seen'[q2] = seen[q2] /\ disk' = disk
    BY <1>5, <1>1, <1>3 DEF ServedInv, TypeOK, Arrive, Local
  <2>2. Served(q2)
    BY DEF ServedInv
  <2> QED
    BY <2>1, <2>2 DEF Local, Served, Phases, TodoWasThere, PartIsLive,
       EntriesAreLive, Cause, Calculated, Fits, InTurn, Live, RootsSeen
<1> QED  BY <1>2, <1>4, <1>5 DEF ServedInv

LEMMA RefuseStep ==
  ASSUME ServedInv, NEW r \in Requests, Refuse(r)
  PROVE  ServedInv'
<1>1. CASE Answer(r, Error(422, "bad_uri"))
  <2>1. Error(422, "bad_uri") \in Replies /\ Error(422, "bad_uri") # Bare500
        /\ Error(422, "bad_uri").status # 200
    BY ReplyFact
  <2>2. pc[r] = "start" /\ sentences \in {"unread", "read"}
    BY DEF Refuse, ServedInv, TypeOK
  <2>3. UNCHANGED <<disk, edits, engine, engineAt, sentences, req, todo, part,
                    entries, used, seen>>
    BY DEF Refuse, world, history
  <2> HIDE DEF Answer
  <2> QED  BY <1>1, <2>1, <2>2, <2>3, Answers
<1>2. CASE Answer(r, Error(422, "bad_taxonomy"))
  <2>1. Error(422, "bad_taxonomy") \in Replies /\ Error(422, "bad_taxonomy") # Bare500
        /\ Error(422, "bad_taxonomy").status # 200
    BY ReplyFact
  <2>2. pc[r] = "start" /\ sentences \in {"unread", "read"}
    BY DEF Refuse, ServedInv, TypeOK
  <2>3. UNCHANGED <<disk, edits, engine, engineAt, sentences, req, todo, part,
                    entries, used, seen>>
    BY DEF Refuse, world, history
  <2> HIDE DEF Answer
  <2> QED  BY <1>2, <2>1, <2>2, <2>3, Answers
<1> QED  BY <1>1, <1>2 DEF Refuse

LEMMA StartListStep ==
  ASSUME ServedInv, NEW r \in Requests, StartList(r)
  PROVE  ServedInv'
<1>1. RateTableRootFor(req[r]) \in Roots
  BY AcceptedRoot DEF StartList
<1>2. sentences \in {"unread", "read"}
  BY DEF ServedInv, TypeOK
<1>3. CASE Answer(r, Error(404, "no_root"))
  <2>1. Error(404, "no_root") \in Replies /\ Error(404, "no_root") # Bare500
        /\ Error(404, "no_root").status # 200
    BY ReplyFact
  <2> QED
    BY <1>3, <1>2, <2>1, Answers DEF StartList, Accepted, world, history
<1>4. CASE pc' = [pc EXCEPT ![r] = "glob"] /\ UNCHANGED reply
  <2>1. /\ pc[r] = "start" /\ todo[r] = {} /\ part[r] = NoPart /\ entries[r] = <<>>
        /\ pc'[r] = "glob"
    BY <1>4 DEF StartList, Accepted, ServedInv, TypeOK, Served, Phases
  <2>2. TodoWasThere(r)' /\ PartIsLive(r)'
    BY <2>1 DEF TodoWasThere, PartIsLive
  <2>3. UNCHANGED <<world, req, todo, part, entries, history>>
    BY DEF StartList
  <2>4. todo' = [todo EXCEPT ![r] = {}]
    BY <2>1, <2>3 DEF ServedInv, TypeOK
  <2> QED
    BY <1>1, <1>4, <2>1, <2>2, <2>3, <2>4, GoesOn
       DEF world, history, ServedInv, TypeOK
<1> QED  BY <1>3, <1>4 DEF StartList

LEMMA GlobStep ==
  ASSUME ServedInv, NEW r \in Requests, Glob(r)
  PROVE  ServedInv'
<1>1. pc[r] = "glob" /\ RateTableRootFor(req[r]) \in Roots
  BY DEF Glob, ServedInv, Served, Phases
<1>2. Root(r) \in RootsSeen(r) /\ DOMAIN Root(r) \subseteq RateIds
  BY <1>1, AtRoot
<1>3. pc'[r] = "reading" /\ todo'[r] = DOMAIN Root(r) /\ part[r] = NoPart
  BY DEF Glob, ServedInv, TypeOK, Served, Phases
<1>4. TodoWasThere(r)' /\ PartIsLive(r)'
  BY <1>2, <1>3 DEF Glob, TodoWasThere, PartIsLive, NoPart, RootsSeen, history
<1> QED
  BY <1>1, <1>2, <1>4, GoesOn DEF Glob, world, history, ServedInv, TypeOK

LEMMA StartGetStep ==
  ASSUME ServedInv, NEW r \in Requests, StartGet(r)
  PROVE  ServedInv'
<1>1. RateTableRootFor(req[r]) \in Roots /\ req[r] \in Kinds /\ pc[r] = "start"
  BY AcceptedRoot DEF StartGet, Accepted
<1>2. sentences \in {"unread", "read"}
  BY DEF ServedInv, TypeOK
<1>3. CASE req[r].rate \notin DOMAIN Root(r)
  <2>1. Error(404, "no_table") \in Replies /\ Error(404, "no_table") # Bare500
        /\ Error(404, "no_table").status # 200
    BY ReplyFact
  <2> QED
    BY <1>1, <1>2, <1>3, <2>1, Answers DEF StartGet, world, history
<1>4. CASE req[r].rate \in DOMAIN Root(r)
  <2>1. Root(r) \in RootsSeen(r) /\ DOMAIN Root(r) \subseteq RateIds
    BY <1>1, AtRoot
  <2>2. pc'[r] = "reading" /\ todo'[r] = {req[r].rate} /\ part'[r].step = "text"
    <3>1. part[r] \in Parts
      BY DEF ServedInv, TypeOK
    <3>2. [part[r] EXCEPT !.step = "text"].step = "text"
      BY <3>1 DEF Parts
    <3> QED  BY <1>4, <3>2 DEF StartGet, ServedInv, TypeOK
  <2>3. TodoWasThere(r)' /\ PartIsLive(r)'
    BY <1>4, <2>1, <2>2
    DEF StartGet, TodoWasThere, PartIsLive, RootsSeen, history
  <2>4. part' \in [Requests -> Parts]
    <3>1. part[r] \in Parts
      BY DEF ServedInv, TypeOK
    <3>2. [part[r] EXCEPT !.step = "text"] \in Parts
      BY <3>1 DEF Parts
    <3>3. part' = [part EXCEPT ![r] = [part[r] EXCEPT !.step = "text"]]
      BY <1>4 DEF StartGet
    <3> QED  BY <3>2, <3>3 DEF ServedInv, TypeOK
  <2>5. req[r].rate \in RateIds
    BY <1>4, <2>1
  <2>6. /\ UNCHANGED <<disk, edits, engine, engineAt, sentences, req, entries, reply,
                        used, seen>>
        /\ \A q \in Requests : q # r => part'[q] = part[q]
        /\ used \in [Requests -> Tree]
        /\ pc' = [pc EXCEPT ![r] = "reading"]
        /\ todo' = [todo EXCEPT ![r] = {req[r].rate}]
    BY <1>4 DEF StartGet, world, history, ServedInv, TypeOK
  <2>7. used' \in [Requests -> Tree] /\ {req[r].rate} \in SUBSET RateIds
    BY <2>5, <2>6
  <2> QED
    BY <1>1, <2>3, <2>4, <2>6, <2>7, GoesOn
<1> QED  BY <1>3, <1>4

\* A rate route is at one table at a time.
LEMMA OneInTurn ==
  ASSUME NEW r \in Requests, req[r].op # "calc",
         NEW a, NEW b, InTurn(r, a), InTurn(r, b)
  PROVE  a = b
<1>1. Precedes(a, b) /\ Precedes(b, a)
  BY DEF InTurn
<1>2. PICK i, j \in DOMAIN InOrder : i <= j /\ InOrder[i] = a /\ InOrder[j] = b
  BY <1>1 DEF Precedes
<1>3. PICK k, l \in DOMAIN InOrder : k <= l /\ InOrder[k] = b /\ InOrder[l] = a
  BY <1>1 DEF Precedes
<1>4. i = l /\ j = k
  BY <1>2, <1>3, RateTablesAssumption
<1>5. i \in Int /\ j \in Int
  BY RateTablesAssumption
<1> QED  BY <1>2, <1>3, <1>4, <1>5

\* What a read of a table leaves alone, whatever becomes of it.
Aside == <<world, req, history>>

\* A read that fails.
LEMMA ReadFails ==
  ASSUME ServedInv, NEW r \in Requests, NEW id \in RateIds,
         pc[r] = "reading", InTurn(r, id),
         \/ req[r].op # "calc" /\ ~ Readable(r, id)
         \/ id \in DOMAIN Root(r) /\ Table(r, id).body \in NotUtf8 \cup BadYaml,
         Answer(r, Bare500), UNCHANGED <<Aside, todo, part, entries>>
  PROVE  ServedInv'
<1>1. Cause(r)
  BY UnreadableHasCause
<1>2. Bare500 \in Replies /\ Bare500.status # 200
  BY ReplyFact
<1>3. sentences \in {"unread", "read"}
  BY DEF ServedInv, TypeOK
<1>4. UNCHANGED <<disk, edits, engine, engineAt, sentences, req, todo, part,
                  entries, used, seen>>
  BY DEF Aside, world, history
<1> HIDE DEF Answer
<1> QED  BY <1>1, <1>2, <1>3, <1>4, Answers

\* Another step of the entry of the table in turn.
LEMMA PartStep ==
  ASSUME ServedInv, NEW r \in Requests, pc[r] = "reading",
         NEW x \in Parts, part' = [part EXCEPT ![r] = x],
         x.step \in {"declared", "is_declared", "drift"} =>
           \A id \in todo[r] : InTurn(r, id) => Live(r, id, x.hash),
         UNCHANGED <<Aside, pc, reply, todo, entries>>
  PROVE  ServedInv'
<1>1. part'[r] = x /\ part' \in [Requests -> Parts]
  BY DEF ServedInv, TypeOK
<1>2. UNCHANGED <<disk, edits, engine, engineAt, sentences, pc, req, todo, entries,
                  reply, used, seen>>
  BY DEF Aside, world, history
<1>3. TypeOK'
  BY <1>1, <1>2 DEF ServedInv, TypeOK
<1>4. Phases(r)' /\ TodoWasThere(r)'
  BY <1>2 DEF ServedInv, Served, Phases, TodoWasThere, RootsSeen
<1>5. PartIsLive(r)'
  BY <1>1, <1>2 DEF PartIsLive, InTurn, Live, RootsSeen
<1>6. EntriesAreLive(r)'
  BY <1>2 DEF ServedInv, Served, EntriesAreLive, Live, RootsSeen
<1>7. (reply[r] = Bare500 => Cause(r))' /\ ~ Calculated(r)'
  BY <1>2, ReplyFact DEF ServedInv, Served, Phases, Calculated
<1>8. Served(r)'
  BY <1>4, <1>5, <1>6, <1>7 DEF Served
<1>9. \A q \in Requests : q # r => UNCHANGED Local(q)
  BY <1>2 DEF Local, ServedInv, TypeOK
<1> QED  BY <1>2, <1>3, <1>8, <1>9, StepOfOne

\* The digest of a table that can be read is live.
LEMMA ReadIsLive ==
  ASSUME ServedInv, NEW r \in Requests, NEW id \in RateIds, pc[r] = "reading",
         Readable(r, id)
  PROVE  /\ Table(r, id) \in File
         /\ HashRateTable(Table(r, id)) \in Digest
         /\ Live(r, id, HashRateTable(Table(r, id)))
<1>1. /\ Root(r) \in RootsSeen(r) /\ id \in DOMAIN Root(r)
      /\ Table(r, id) \in File
  BY AtRoot DEF ServedInv, Served, Phases, Readable
<1>2. HashRateTable(Table(r, id)) = CanonicalDigest(Root(r)[id])
  BY <1>1, FileFact DEF Table
<1> QED  BY <1>1, <1>2, FileFact DEF Live

LEMMA ReadTextStep ==
  ASSUME ServedInv, NEW r \in Requests, NEW id \in RateIds, ReadText(r, id)
  PROVE  ServedInv'
<1>1. pc[r] = "reading" /\ InTurn(r, id) /\ id \in todo[r]
  BY DEF ReadText, Reading, InTurn
<1>2. CASE Readable(r, id) /\ Table(r, id).body \notin BadYaml
  <2>1. part[r] \in Parts
    BY DEF ServedInv, TypeOK
  <2>2. /\ [part[r] EXCEPT !.step = "hash"] \in Parts
        /\ [part[r] EXCEPT !.step = "hash"].step = "hash"
    BY <2>1 DEF Parts
  <2>3. /\ part' = [part EXCEPT ![r] = [part[r] EXCEPT !.step = "hash"]]
        /\ UNCHANGED <<Aside, pc, reply, todo, entries>>
    BY <1>2 DEF ReadText, Aside
  <2> QED  BY <1>1, <2>2, <2>3, PartStep
<1>3. CASE ~ (Readable(r, id) /\ Table(r, id).body \notin BadYaml)
  <2>1. Answer(r, Bare500) /\ UNCHANGED <<Aside, todo, part, entries>>
    BY <1>3 DEF ReadText, Aside
  <2>2. \/ req[r].op # "calc" /\ ~ Readable(r, id)
        \/ id \in DOMAIN Root(r) /\ Table(r, id).body \in NotUtf8 \cup BadYaml
    BY <1>3 DEF Readable, ReadText
  <2> QED  BY <1>1, <2>1, <2>2, ReadFails
<1> QED  BY <1>2, <1>3

LEMMA ReadHashStep ==
  ASSUME ServedInv, NEW r \in Requests, NEW id \in RateIds, ReadHash(r, id)
  PROVE  ServedInv'
<1>1. pc[r] = "reading" /\ InTurn(r, id) /\ req[r].op # "calc"
  BY DEF ReadHash, Reading
<1>2. CASE Readable(r, id)
  <2> DEFINE h == HashRateTable(Table(r, id))
             x == [part[r] EXCEPT !.hash = h, !.step = "declared", !.at = edits]
  <2>1. part[r] \in Parts /\ edits \in 0..MaxEdits /\ h \in Digest
    BY <1>1, <1>2, ReadIsLive DEF ServedInv, TypeOK
  <2>2. x \in Parts /\ x.hash = h
    BY <2>1 DEF Parts
  <2>3. /\ part' = [part EXCEPT ![r] = x]
        /\ UNCHANGED <<Aside, pc, reply, todo, entries>>
    BY <1>2 DEF ReadHash, Aside
  <2>4. Live(r, id, h)
    BY <1>1, <1>2, ReadIsLive
  <2>5. \A a \in todo[r] : InTurn(r, a) => Live(r, a, x.hash)
    BY <1>1, <2>2, <2>4, OneInTurn
  <2> HIDE DEF x
  <2> QED  BY <1>1, <2>2, <2>3, <2>5, PartStep
<1>3. CASE ~ Readable(r, id)
  BY <1>1, <1>3, ReadFails DEF ReadHash, Aside
<1> QED  BY <1>2, <1>3

\* An entry is made of a digest that is live.
LEMMA EntryStep ==
  ASSUME ServedInv, NEW r \in Requests, NEW id \in RateIds, pc[r] = "reading",
         InTurn(r, id), part[r].step \in {"declared", "is_declared", "drift"},
         NEW declared \in Digest, NEW drift \in BOOLEAN,
         entries' = [entries EXCEPT ![r] = Append(@,
           Entry(req[r], id, part[r].hash, declared, drift, part[r].at))],
         Leave(r, id), UNCHANGED <<Aside, pc, reply>>
  PROVE  ServedInv'
<1>1. part[r].hash \in Digest /\ part[r].at \in 0..MaxEdits
  BY DEF ServedInv, TypeOK, Parts
<1>2. Live(r, id, part[r].hash)
  BY DEF ServedInv, Served, PartIsLive, InTurn
<1>3. UNCHANGED <<disk, edits, engine, engineAt, sentences, pc, req, reply, used,
                  seen>>
  BY DEF Aside, world, history
<1> HIDE DEF Leave
<1> QED  BY <1>1, <1>2, <1>3, EntryMade

LEMMA ReadDeclaredStep ==
  ASSUME ServedInv, NEW r \in Requests, NEW id \in RateIds, ReadDeclared(r, id)
  PROVE  ServedInv'
<1>1. /\ pc[r] = "reading" /\ InTurn(r, id) /\ req[r].op # "calc"
      /\ part[r].step = "declared"
  BY DEF ReadDeclared, Reading
<1>2. CASE ~ Readable(r, id)
  BY <1>1, <1>2, ReadFails DEF ReadDeclared, Aside
<1>3. CASE Readable(r, id)
  <2> DEFINE declared == DeclaredContentHash(Table(r, id))
  <2>1. declared \in Digest
    BY <1>1, <1>3, ReadIsLive, FileFact
  <2>2. CASE req[r].op = "list"
    <3> DEFINE x == [part[r] EXCEPT !.declared = declared, !.step = "is_declared"]
    <3>1. part[r] \in Parts
      BY DEF ServedInv, TypeOK
    <3>2. x \in Parts /\ x.hash = part[r].hash
      BY <2>1, <3>1 DEF Parts
    <3>3. /\ part' = [part EXCEPT ![r] = x]
          /\ UNCHANGED <<Aside, pc, reply, todo, entries>>
      BY <1>3, <2>2 DEF ReadDeclared, Aside
    <3>4. \A a \in todo[r] : InTurn(r, a) => Live(r, a, x.hash)
      BY <1>1, <3>2 DEF ServedInv, Served, PartIsLive
    <3> HIDE DEF x
    <3> QED  BY <1>1, <3>2, <3>3, <3>4, PartStep
  <2>3. CASE req[r].op # "list"
    <3>1. /\ entries' = [entries EXCEPT ![r] = Append(@,
               Entry(req[r], id, part[r].hash, declared,
                     declared # NoDigest /\ declared # part[r].hash, part[r].at))]
          /\ Leave(r, id) /\ UNCHANGED <<Aside, pc, reply>>
      BY <1>3, <2>3 DEF ReadDeclared, Aside
    <3>2. (declared # NoDigest /\ declared # part[r].hash) \in BOOLEAN
      OBVIOUS
    <3> HIDE DEF declared, Leave
    <3> QED  BY <1>1, <2>1, <3>1, <3>2, EntryStep
  <2> QED  BY <2>2, <2>3
<1> QED  BY <1>2, <1>3

LEMMA ReadIsDeclaredStep ==
  ASSUME ServedInv, NEW r \in Requests, NEW id \in RateIds, ReadIsDeclared(r, id)
  PROVE  ServedInv'
<1>1. /\ pc[r] = "reading" /\ InTurn(r, id) /\ req[r].op # "calc"
      /\ part[r].step = "is_declared" /\ part[r] \in Parts
  BY DEF ReadIsDeclared, Reading, ServedInv, TypeOK
<1>2. CASE ~ Readable(r, id)
  BY <1>1, <1>2, ReadFails DEF ReadIsDeclared, Aside
<1>3. CASE Readable(r, id) /\ DeclaredContentHash(Table(r, id)) # NoDigest
  <2> DEFINE x == [part[r] EXCEPT !.step = "drift"]
  <2>1. x \in Parts /\ x.hash = part[r].hash
    BY <1>1 DEF Parts
  <2>2. /\ part' = [part EXCEPT ![r] = x]
        /\ UNCHANGED <<Aside, pc, reply, todo, entries>>
    BY <1>3 DEF ReadIsDeclared, Aside
  <2>3. \A a \in todo[r] : InTurn(r, a) => Live(r, a, x.hash)
    BY <1>1, <2>1 DEF ServedInv, Served, PartIsLive
  <2> HIDE DEF x
  <2> QED  BY <1>1, <2>1, <2>2, <2>3, PartStep
<1>4. CASE Readable(r, id) /\ DeclaredContentHash(Table(r, id)) = NoDigest
  <2>1. /\ entries' = [entries EXCEPT ![r] = Append(@,
             Entry(req[r], id, part[r].hash, part[r].declared, FALSE, part[r].at))]
        /\ Leave(r, id) /\ UNCHANGED <<Aside, pc, reply>>
    BY <1>4 DEF ReadIsDeclared, Aside
  <2>2. part[r].declared \in Digest
    BY <1>1 DEF Parts
  <2> HIDE DEF Leave
  <2> QED  BY <1>1, <2>1, <2>2, EntryStep
<1> QED  BY <1>2, <1>3, <1>4

LEMMA ReadDriftStep ==
  ASSUME ServedInv, NEW r \in Requests, NEW id \in RateIds, ReadDrift(r, id)
  PROVE  ServedInv'
<1>1. /\ pc[r] = "reading" /\ InTurn(r, id) /\ req[r].op # "calc"
      /\ part[r].step = "drift" /\ part[r] \in Parts
  BY DEF ReadDrift, Reading, ServedInv, TypeOK
<1>2. CASE ~ Readable(r, id)
  BY <1>1, <1>2, ReadFails DEF ReadDrift, Aside
<1>3. CASE Readable(r, id)
  <2> DEFINE drift == DeclaredContentHash(Table(r, id)) # part[r].hash
  <2>1. /\ entries' = [entries EXCEPT ![r] = Append(@,
             Entry(req[r], id, part[r].hash, part[r].declared, drift, part[r].at))]
        /\ Leave(r, id) /\ UNCHANGED <<Aside, pc, reply>>
    BY <1>3 DEF ReadDrift, Aside
  <2>2. part[r].declared \in Digest /\ drift \in BOOLEAN
    BY <1>1 DEF Parts
  <2> HIDE DEF Leave, drift
  <2> QED  BY <1>1, <2>1, <2>2, EntryStep
<1> QED  BY <1>2, <1>3

LEMMA AnswerEntriesStep ==
  ASSUME ServedInv, NEW r \in Requests, AnswerEntries(r)
  PROVE  ServedInv'
<1>1. Ok(NoBlock) \in Replies /\ Ok(NoBlock) # Bare500
  BY ReplyFact
<1>2. pc[r] = "reading" /\ req[r].op # "calc" /\ sentences \in {"unread", "read"}
  BY DEF AnswerEntries, ServedInv, TypeOK
<1>3. /\ Answer(r, Ok(NoBlock))
      /\ UNCHANGED <<disk, edits, engine, engineAt, sentences, req, todo, part,
                     entries, used, seen>>
  BY DEF AnswerEntries, world, history
<1> HIDE DEF Answer
<1> QED  BY <1>1, <1>2, <1>3, Answers

LEMMA EngineAnswersStep ==
  ASSUME ServedInv, NEW r \in Requests, EngineAnswers(r)
  PROVE  ServedInv'
<1>1. pc[r] = "start" /\ req[r].op = "calc" /\ req[r] \in Kinds
  BY DEF EngineAnswers, ServedInv, Served, Phases
<1>2. RateTableRootFor(req[r]) \in Roots /\ <<req[r].period, "lodgeit_au_sbrm">> \in Roots
  BY <1>1, RequestFact DEF RateTableRootFor, Roots, Taxonomies
<1>3. DOMAIN engine[<<req[r].period, "lodgeit_au_sbrm">>] \subseteq RateIds
  BY <1>2, TreeFact DEF ServedInv, TypeOK
<1>4. PICK S \in SUBSET RateIds : todo' = [todo EXCEPT ![r] = Cited(r, S)]
  BY <1>3 DEF EngineAnswers
<1>5. Cited(r, S) \in SUBSET RateIds
  BY RateTablesAssumption DEF Cited
<1>6. part[r] = NoPart /\ pc'[r] = "reading"
  BY <1>1 DEF ServedInv, TypeOK, Served, Phases, EngineAnswers
<1>7. UNCHANGED <<disk, edits, engine, engineAt, sentences, req, part, entries, reply,
                  seen>>
  BY DEF EngineAnswers, world
<1>8. used' \in [Requests -> Tree] /\ pc' = [pc EXCEPT ![r] = "reading"]
      /\ part' \in [Requests -> Parts]
  BY <1>7 DEF EngineAnswers, ServedInv, TypeOK
<1>9. TodoWasThere(r)' /\ PartIsLive(r)'
  BY <1>1, <1>6, <1>7 DEF TodoWasThere, PartIsLive, NoPart
<1> HIDE DEF Cited
<1> QED  BY <1>1, <1>2, <1>4, <1>5, <1>7, <1>8, <1>9, GoesOn

LEMMA BuildManifestStep ==
  ASSUME ServedInv, NEW r \in Requests, NEW id \in RateIds, BuildManifest(r, id)
  PROVE  ServedInv'
<1>1. pc[r] = "reading" /\ InTurn(r, id) /\ req[r].op = "calc"
  BY DEF BuildManifest, Reading
<1>2. sentences \in {"unread", "read"} /\ edits \in 0..MaxEdits
  BY DEF ServedInv, TypeOK
<1>3. UNCHANGED <<disk, edits, engine, engineAt, sentences, req, used, seen>>
  BY DEF BuildManifest, world, history
<1>4. CASE /\ Readable(r, id)
           /\ entries' = [entries EXCEPT ![r] = Append(@,
                 Entry(req[r], id, HashRateTable(Table(r, id)), NoDigest, FALSE,
                       edits))]
           /\ Leave(r, id)
           /\ UNCHANGED <<pc, reply>>
  <2> DEFINE h == HashRateTable(Table(r, id))
  <2>1. h \in Digest /\ Live(r, id, h)
    BY <1>1, <1>4, ReadIsLive
  <2>2. NoDigest \in Digest /\ FALSE \in BOOLEAN
    BY DEF Digest
  <2> HIDE DEF h, Leave
  <2> QED  BY <1>1, <1>2, <1>3, <1>4, <2>1, <2>2, EntryMade DEF h
<1>5. CASE /\ id \notin DOMAIN Root(r)
           /\ Answer(r, Error(502, "manifest_rate_table_unavailable"))
           /\ UNCHANGED <<todo, part, entries>>
  <2> DEFINE e == Error(502, "manifest_rate_table_unavailable")
  <2>1. e \in Replies /\ e # Bare500 /\ e.status # 200
    BY ReplyFact
  <2>2. Answer(r, e)
    BY <1>5
  <2> HIDE DEF e, Answer
  <2> QED  BY <1>1, <1>2, <1>3, <1>5, <2>1, <2>2, Answers
<1>6. CASE /\ id \in DOMAIN Root(r) /\ ~ Readable(r, id)
           /\ Answer(r, Bare500)
           /\ UNCHANGED <<todo, part, entries>>
  <2>1. Table(r, id).body \in NotUtf8 \cup BadYaml
    BY <1>6 DEF Readable
  <2>2. UNCHANGED Aside
    BY <1>3 DEF Aside, world, history
  <2> QED  BY <1>1, <1>6, <2>1, <2>2, ReadFails
<1> QED  BY <1>4, <1>5, <1>6 DEF BuildManifest

\* The block of an answer fits its manifest.
LEMMA WrapFact ==
  ASSUME ServedInv, NEW r \in Requests, req[r] \in Kinds, req[r].op = "calc",
         NEW sentence \in BOOLEAN
  PROVE  LET b == WrapResponse("AU", entries[r], BasisOf(req[r].engine), sentence)
         IN  Ok(b) \in Replies /\ Fits(r, b)
<1> DEFINE b == WrapResponse("AU", entries[r], BasisOf(req[r].engine), sentence)
<1>1. b = IF req[r].engine = "depreciation" THEN Block("accounting", FALSE, sentence)
          ELSE IF entries[r] = <<>> THEN Block("no_tables", TRUE, sentence)
          ELSE Block("cites_tables", TRUE, sentence)
  <2>1. \A f, a, x : AppendRoundingAdvisory(Block(f, a, x), sentence)
                        = Block(f, a, sentence)
    BY DEF AppendRoundingAdvisory, Block
  <2> HIDE DEF Block, AppendRoundingAdvisory
  <2> QED  BY <2>1 DEF WrapResponse, AdvisoryBlock, BasisOf
<1>2. Fits(r, b)
  BY <1>1 DEF Fits, Block
<1>3. \A f \in Frames, a \in BOOLEAN : Ok(Block(f, a, sentence)) \in Replies
  BY DEF Replies
<1>4. Ok(b) \in Replies
  BY <1>1, <1>3 DEF Frames
<1> QED  BY <1>2, <1>4

LEMMA AnswerCalculationStep ==
  ASSUME ServedInv, NEW r \in Requests, AnswerCalculation(r)
  PROVE  ServedInv'
<1>1. pc[r] = "reading" /\ req[r].op = "calc" /\ req[r] \in Kinds
  BY DEF AnswerCalculation, ServedInv, Served, Phases
<1>2. PICK sentence \in BOOLEAN :
        Wrap(r, sentence) /\ sentences' \in {"unread", "read"}
  <2>1. (req[r].engine \in Rounded) \in BOOLEAN /\ FALSE \in BOOLEAN
    OBVIOUS
  <2> HIDE DEF Wrap
  <2> QED  BY <2>1 DEF AnswerCalculation, RoundingLookup
<1> DEFINE rep == Ok(WrapResponse("AU", entries[r], BasisOf(req[r].engine), sentence))
<1>3. Answer(r, rep) /\ rep \in Replies /\ rep # Bare500 /\ Fits(r, rep.advisory)
  BY <1>1, <1>2, WrapFact, ReplyFact DEF Wrap
<1>4. UNCHANGED <<disk, edits, engine, engineAt, req, todo, part, entries, used, seen>>
  BY DEF AnswerCalculation, history
<1> HIDE DEF rep, Answer
<1> QED  BY <1>1, <1>2, <1>3, <1>4, Answers

LEMMA ChangeTreeStep ==
  ASSUME ServedInv, NEW root \in Roots, NEW S \in SUBSET RateIds,
         NEW tables \in [S -> File], ChangeTree(root, tables)
  PROVE  ServedInv'
<1>1. disk' \in Tree
  BY TreeChange DEF ChangeTree, ServedInv, TypeOK
<1>2. edits' \in 0..MaxEdits
  BY RateTablesAssumption DEF ChangeTree, ServedInv, TypeOK
<1>3. seen' \in [Requests -> SUBSET Tree]
  BY <1>1 DEF ChangeTree, ServedInv, TypeOK
<1>4. TypeOK'
  BY <1>1, <1>2, <1>3 DEF ChangeTree, ServedInv, TypeOK
<1>5. ASSUME NEW r \in Requests  PROVE Served(r)'
  <2>1. /\ seen[r] \subseteq seen'[r] /\ UNCHANGED Local(r)
        /\ pc[r] \in {"start", "glob", "reading"} => disk' \in seen'[r]
    BY DEF ChangeTree, Local, ServedInv, TypeOK
  <2>2. RootsSeen(r) \subseteq RootsSeen(r)'
    BY <2>1 DEF RootsSeen, Local
  <2>3. Served(r)
    BY DEF ServedInv
  <2>4. Phases(r)'
    BY <2>1, <2>3 DEF Served, Phases, Local
  <2>5. TodoWasThere(r)'
    BY <2>1, <2>2, <2>3 DEF Served, TodoWasThere, Local
  <2>6. \A id, h : Live(r, id, h) => Live(r, id, h)'
    BY <2>2 DEF Live
  <2>7. PartIsLive(r)' /\ EntriesAreLive(r)'
    BY <2>1, <2>3, <2>6 DEF Served, PartIsLive, EntriesAreLive, InTurn, Local
  <2>8. Cause(r) => Cause(r)'
    BY <2>2 DEF Cause
  <2>9. (reply[r] = Bare500 => Cause(r))'
        /\ (Calculated(r) => Fits(r, reply[r].advisory))'
    BY <2>1, <2>3, <2>8 DEF Served, Calculated, Fits, Local
  <2> QED  BY <2>4, <2>5, <2>7, <2>9 DEF Served
<1> QED  BY <1>4, <1>5 DEF ServedInv

LEMMA EditStep ==
  ASSUME ServedInv, Edit
  PROVE  ServedInv'
<1>1. PICK root \in Maintained, id \in RateIds :
        \/ EditTable(root, id) \/ AnchorTable(root, id)
        \/ AddTable(root, id) \/ RemoveTable(root, id)
  BY DEF Edit
<1> DEFINE D == DOMAIN disk[root]
<1>2. /\ root \in Roots /\ D \in SUBSET RateIds /\ disk[root] \in [D -> File]
  BY RateTablesAssumption, TreeFact DEF ServedInv, TypeOK
<1>3. \A i \in D : /\ disk[root][i] \in File
                 /\ CanonicalDigest(disk[root][i]) \in Digest \ {NoDigest}
  BY <1>2, FileFact
<1>4. CASE EditTable(root, id)
  <2>1. PICK b \in Bodies :
          id \in D /\ ChangeTree(root, [disk[root] EXCEPT ![id].body = b])
    BY <1>4 DEF EditTable
  <2>2. [disk[root][id] EXCEPT !.body = b] \in File
    BY <1>3, <2>1 DEF File
  <2>3. [disk[root] EXCEPT ![id].body = b] \in [D -> File]
    BY <1>2, <2>1, <2>2
  <2> HIDE DEF D
  <2> QED  BY <1>2, <2>1, <2>3, ChangeTreeStep
<1>5. CASE AnchorTable(root, id)
  <2> DEFINE f == [disk[root][id] EXCEPT !.line = "anchored",
                     !.anchor = CanonicalDigest(disk[root][id])]
  <2>1. id \in D /\ ChangeTree(root, [disk[root] EXCEPT ![id] = f])
    BY <1>5 DEF AnchorTable
  <2>2. f \in File
    BY <1>3, <2>1 DEF File, Lines
  <2>3. [disk[root] EXCEPT ![id] = f] \in [D -> File]
    BY <1>2, <2>1, <2>2
  <2> HIDE DEF D, f
  <2> QED  BY <1>2, <2>1, <2>3, ChangeTreeStep
<1>6. CASE AddTable(root, id)
  <2>1. PICK b \in Bodies, line \in {"draft", "none"} :
          ChangeTree(root, [i \in D \cup {id} |->
            IF i = id THEN [body |-> b, line |-> line, anchor |-> NoDigest]
            ELSE disk[root][i]])
    BY <1>6 DEF AddTable
  <2>2. [body |-> b, line |-> line, anchor |-> NoDigest] \in File
    BY DEF File, Lines, Digest
  <2>3. [i \in D \cup {id} |->
          IF i = id THEN [body |-> b, line |-> line, anchor |-> NoDigest]
          ELSE disk[root][i]] \in [D \cup {id} -> File]
    BY <1>2, <2>2
  <2>4. D \cup {id} \in SUBSET RateIds
    BY <1>2
  <2> HIDE DEF D
  <2> QED  BY <1>2, <2>1, <2>3, <2>4, ChangeTreeStep
<1>7. CASE RemoveTable(root, id)
  <2>1. ChangeTree(root, [i \in D \ {id} |-> disk[root][i]])
    BY <1>7 DEF RemoveTable
  <2>2. [i \in D \ {id} |-> disk[root][i]] \in [D \ {id} -> File]
    BY <1>2
  <2>3. D \ {id} \in SUBSET RateIds
    BY <1>2
  <2> HIDE DEF D
  <2> QED  BY <1>2, <2>1, <2>2, <2>3, ChangeTreeStep
<1> QED  BY <1>1, <1>4, <1>5, <1>6, <1>7

LEMMA StartEngineStep ==
  ASSUME ServedInv, StartEngine
  PROVE  ServedInv'
<1>1. TypeOK'
  BY DEF StartEngine, history, ServedInv, TypeOK
<1>2. \A r \in Requests : Served(r)'
  BY ServedStays DEF StartEngine, history, Local, ServedInv
<1> QED  BY <1>1, <1>2 DEF ServedInv

LEMMA NextInvariant ==
  ASSUME ServedInv, [Next]_vars
  PROVE  ServedInv'
<1>1. CASE UNCHANGED vars
  <2>1. TypeOK'
    BY <1>1 DEF vars, ServedInv, TypeOK
  <2>2. \A r \in Requests : Served(r)'
    BY <1>1, ServedStays DEF vars, Local, ServedInv
  <2> QED  BY <2>1, <2>2 DEF ServedInv
<1>2. ASSUME NEW r \in Requests, Serve(r)  PROVE ServedInv'
  BY <1>2, RefuseStep, StartListStep, GlobStep, StartGetStep,
     AnswerEntriesStep,
     EngineAnswersStep, AnswerCalculationStep, ReadTextStep, ReadHashStep,
     ReadDeclaredStep, ReadIsDeclaredStep, ReadDriftStep, BuildManifestStep DEF Serve
<1> QED
  BY <1>1, <1>2, ArriveStep, EditStep, StartEngineStep DEF Next

\* The invariant holds of every behaviour: types, and what a request has read and
\* may still read, at every one of its steps (list_rates, get_rate,
\* build_manifest, wrap_response).
THEOREM ServedHolds == Spec => []ServedInv
<1>1. Init => ServedInv
  BY InitInvariant
<1>2. ServedInv /\ [Next]_vars => ServedInv'
  BY NextInvariant
<1> QED  BY <1>1, <1>2, PTL DEF Spec

\* hash_rate_table gives the digest of a text the table had during the request.
THEOREM HashesAreLive == Spec => []PublishedHashWasLive
<1>1. ServedInv => PublishedHashWasLive
  BY DEF ServedInv, Served, PublishedHashWasLive
<1> QED  BY <1>1, ServedHolds, PTL

\* list_rates, get_rate and build_manifest end in a bare 500 only for a table
\* that is no text, or that went away under a rate route.
THEOREM BareErrorsHaveCause == Spec => []BareErrorHasCause
<1>1. ServedInv => BareErrorHasCause
  BY DEF ServedInv, Served, BareErrorHasCause
<1> QED  BY <1>1, ServedHolds, PTL

\* advisory_block says of the manifest what the manifest shows.
THEOREM AdvisoriesFit == Spec => []AdvisoryFitsManifest
<1>1. ServedInv => AdvisoryFitsManifest
  BY DEF ServedInv, Served, AdvisoryFitsManifest
<1> QED  BY <1>1, ServedHolds, PTL

\* What becomes of the reply in a step of a handler: only a calculation's last
\* step answers a calculation with 200.
LEMMA OnlyCalculationSucceeds ==
  ASSUME ServedInv, NEW r \in Requests, Serve(r)
  PROVE  /\ UNCHANGED reply \/ \E rep : Answer(r, rep)
         /\ \/ reply'[r] = reply[r] \/ reply'[r].status # 200
            \/ req[r].op # "calc" \/ AnswerCalculation(r)
<1> DEFINE Fails == \E rep : Answer(r, rep) /\ rep.status # 200
           Done == \/ UNCHANGED reply \/ Fails
                   \/ \E rep : Answer(r, rep) /\ (req[r].op # "calc"
                                                 \/ AnswerCalculation(r))
<1>1. ASSUME Refuse(r) \/ StartList(r) \/ Glob(r) \/ StartGet(r) \/ EngineAnswers(r)
      PROVE  Done
  <2> HIDE DEF Answer
  <2> QED  BY <1>1, ReplyFact DEF Refuse, StartList, Glob, StartGet, EngineAnswers
<1>2. ASSUME AnswerEntries(r) \/ AnswerCalculation(r)
      PROVE  Done
  <2>1. \E rep : Answer(r, rep)
    BY <1>2 DEF AnswerEntries, AnswerCalculation, RoundingLookup, Wrap
  <2>2. AnswerEntries(r) => req[r].op # "calc"
    BY DEF AnswerEntries
  <2> QED  BY <1>2, <2>1, <2>2
<1>3. ASSUME NEW id \in RateIds,
             \/ ReadText(r, id) \/ ReadHash(r, id) \/ ReadDeclared(r, id)
             \/ ReadIsDeclared(r, id) \/ ReadDrift(r, id) \/ BuildManifest(r, id)
      PROVE  Done
  <2> HIDE DEF Answer
  <2>1. ASSUME ReadText(r, id) \/ ReadHash(r, id)  PROVE Done
    BY <2>1, ReplyFact DEF ReadText, ReadHash
  <2>2. ASSUME ReadDeclared(r, id)  PROVE Done
    BY <2>2, ReplyFact DEF ReadDeclared
  <2>3. ASSUME ReadIsDeclared(r, id) \/ ReadDrift(r, id)  PROVE Done
    <3>1. UNCHANGED reply \/ Answer(r, Bare500)
      BY <2>3 DEF ReadIsDeclared, ReadDrift
    <3> QED  BY <3>1, ReplyFact
  <2>4. ASSUME BuildManifest(r, id)  PROVE Done
    <3>1. \/ UNCHANGED reply \/ Answer(r, Bare500)
          \/ Answer(r, Error(502, "manifest_rate_table_unavailable"))
      BY <2>4 DEF BuildManifest
    <3> QED  BY <3>1, ReplyFact
  <2> HIDE DEF Done
  <2> QED  BY <1>3, <2>1, <2>2, <2>3, <2>4
<1>4. Done
  <2> HIDE DEF Done
  <2> QED  BY <1>1, <1>2, <1>3 DEF Serve
<1>5. \A rep : Answer(r, rep) => reply'[r] = rep
  BY DEF Answer, ServedInv, TypeOK
<1> HIDE DEF Answer
<1> QED  BY <1>4, <1>5

\* rounding_advisory_for does not remember a lookup that failed.
THEOREM RoundingIsKept == Spec => RoundingOnceKnown
<1> DEFINE A == \A r \in Requests :
       /\ sentences = "read" /\ reply[r] = NoReply /\ reply'[r].status = 200
       /\ req[r].op = "calc"
       => reply'[r].advisory.rounding = (req[r].engine \in Rounded)
<1>1. ASSUME ServedInv, [Next]_vars  PROVE A
  <2> SUFFICES ASSUME NEW r \in Requests, sentences = "read", reply[r] = NoReply,
                      reply'[r].status = 200, req[r].op = "calc"
               PROVE  reply'[r].advisory.rounding = (req[r].engine \in Rounded)
    OBVIOUS
  <2>1. reply'[r] # reply[r]
    BY ReplyFact
  <2>2. PICK q \in Requests : Serve(q)
    BY <1>1, <2>1
       DEF Next, Arrive, Edit, EditTable, AnchorTable, AddTable, RemoveTable,
           ChangeTree, StartEngine, vars
  <2>3. q = r \/ reply'[r] = reply[r]
    <3>1. UNCHANGED reply \/ \E rep : Answer(q, rep)
      BY <1>1, <2>2, OnlyCalculationSucceeds
    <3> QED  BY <1>1, <3>1 DEF Answer, ServedInv, TypeOK
  <2>4. AnswerCalculation(r)
    BY <1>1, <2>1, <2>2, <2>3, OnlyCalculationSucceeds
  <2>5. Wrap(r, req[r].engine \in Rounded)
    BY <2>4 DEF AnswerCalculation, RoundingLookup
  <2> DEFINE b == WrapResponse("AU", entries[r], BasisOf(req[r].engine),
                               req[r].engine \in Rounded)
  <2>6. reply'[r] = Ok(b)
    BY <1>1, <2>5 DEF Wrap, Answer, ServedInv, TypeOK
  <2>7. b.rounding = (req[r].engine \in Rounded)
    BY DEF WrapResponse, AdvisoryBlock, AppendRoundingAdvisory, Block
  <2> QED  BY <2>6, <2>7, ReplyFact
<1> QED  BY <1>1, ServedHolds, PTL DEF Spec, RoundingOnceKnown

-----------------------------------------------------------------------------
(* An answer that no edit met *)

\* What an answer holds so far is read off its entries and its todo.
LEMMA QuietReads ==
  ASSUME NEW r \in Requests,
         UNCHANGED <<req[r], todo[r], entries[r], seen[r]>>
  PROVE  /\ RootsSeen(r)' = RootsSeen(r)
         /\ \A tables : /\ ListSoFar(r, tables) => ListSoFar(r, tables)'
                        /\ DriftIsStaleness(r, tables)
                             => DriftIsStaleness(r, tables)'
                        /\ UNCHANGED part[r] /\ DriftIsAsked(r, tables)
                             => DriftIsAsked(r, tables)'
<1>1. RootsSeen(r)' = RootsSeen(r) /\ Entered(r)' = Entered(r)
  BY DEF RootsSeen, Entered
<1>2. InDirectoryOrder(r) => InDirectoryOrder(r)'
  BY DEF InDirectoryOrder
<1>3. \A tables : ListSoFar(r, tables) => ListSoFar(r, tables)'
  BY <1>1, <1>2 DEF ListSoFar
<1>4. \A tables : DriftIsStaleness(r, tables) => DriftIsStaleness(r, tables)'
  BY DEF DriftIsStaleness
<1>5. \A tables : UNCHANGED part[r] /\ DriftIsAsked(r, tables)
                   => DriftIsAsked(r, tables)'
  BY DEF DriftIsAsked, InTurn
<1> QED  BY <1>1, <1>3, <1>4, <1>5

LEMMA QuietStays ==
  ASSUME NEW r \in Requests, QuietSoFar(r), UNCHANGED Local(r),
         seen'[r] = seen[r]
  PROVE  QuietSoFar(r)'
<1>1. OnTheWay(r)' => OnTheWay(r)
  BY DEF OnTheWay, Local
<1>2. UNCHANGED <<pc[r], req[r], todo[r], part[r], entries[r], seen[r]>>
  BY DEF Local
<1> QED  BY <1>1, <1>2, QuietReads DEF QuietSoFar

\* A step of one request has only that request to show.
LEMMA QuietOfOne ==
  ASSUME QuietInv, NEW r \in Requests, UNCHANGED seen, QuietSoFar(r)',
         \A q \in Requests : q # r => UNCHANGED Local(q)
  PROVE  QuietInv'
BY QuietStays DEF QuietInv

\* What a request that reads on has to show.
LEMMA QuietReading ==
  ASSUME NEW r \in Requests, UNCHANGED <<req, seen>>, pc'[r] = "reading",
         \A tables \in RootsSeen(r) :
           RootsSeen(r) = {tables} /\ req[r].op \in {"list", "get"} =>
             /\ req[r].op = "list" => ListSoFar(r, tables)'
             /\ DriftIsStaleness(r, tables)' /\ DriftIsAsked(r, tables)'
  PROVE  QuietSoFar(r)'
<1>1. RootsSeen(r)' = RootsSeen(r)
  BY DEF RootsSeen
<1>2. OnTheWay(r)' => req[r].op \in {"list", "get"}
  BY DEF OnTheWay
<1> QED  BY <1>1, <1>2 DEF QuietSoFar

\* A request that is not on its way shows nothing.
LEMMA QuietAside ==
  ASSUME QuietInv, NEW r \in Requests, UNCHANGED seen, ~ OnTheWay(r)',
         \A q \in Requests : q # r => UNCHANGED Local(q)
  PROVE  QuietInv'
BY QuietOfOne DEF QuietSoFar

\* A request that met one version of its root reads that version.
LEMMA OneVersion ==
  ASSUME ServedInv, NEW r \in Requests, pc[r] \in {"glob", "reading"},
         NEW tables \in RootsSeen(r), RootsSeen(r) = {tables}
  PROVE  /\ Root(r) = tables
         /\ \A id \in RateIds : Readable(r, id) =>
              /\ Table(r, id) = tables[id]
              /\ tables[id] \in File
<1>1. Root(r) \in RootsSeen(r) /\ \A id \in DOMAIN Root(r) : Table(r, id) \in File
  BY AtRoot DEF ServedInv, Served, Phases
<1>2. Root(r) = tables
  BY <1>1
<1> QED  BY <1>1, <1>2 DEF Readable, Table

\* An answer.
LEMMA QuietAnswer ==
  ASSUME ServedInv, QuietInv, NEW r \in Requests, NEW rep, Answer(r, rep),
         UNCHANGED <<req, todo, part, entries, seen>>,
         rep.status = 200 /\ req[r].op # "calc" =>
           pc[r] = "reading" /\ todo[r] = {}
  PROVE  QuietInv'
<1>1. pc'[r] = "done" /\ reply'[r] = rep
  BY DEF Answer, ServedInv, TypeOK
<1>2. \A q \in Requests : q # r => UNCHANGED Local(q)
  BY DEF Answer, Local, ServedInv, TypeOK
<1>3. CASE rep.status = 200 /\ req[r].op \in {"list", "get"}
  <2>1. pc[r] = "reading" /\ todo[r] = {} /\ OnTheWay(r) /\ QuietSoFar(r)
    BY <1>3 DEF OnTheWay, QuietInv
  <2>2. QuietSoFar(r)'
    BY <2>1, QuietReads DEF QuietSoFar
  <2> QED  BY <1>2, <2>2, QuietOfOne
<1>4. CASE ~ (rep.status = 200 /\ req[r].op \in {"list", "get"})
  <2>1. ~ OnTheWay(r)'
    BY <1>1, <1>4 DEF OnTheWay
  <2> QED  BY <1>2, <2>1, QuietAside
<1> QED  BY <1>3, <1>4

\* Another step of the entry of the table in turn.
LEMMA QuietPart ==
  ASSUME ServedInv, QuietInv, NEW r \in Requests, pc[r] = "reading",
         NEW x, part' = [part EXCEPT ![r] = x],
         UNCHANGED <<pc, req, todo, entries, reply, seen>>,
         \A tables \in RootsSeen(r) :
           RootsSeen(r) = {tables} /\ x.step = "drift" =>
             \A id \in todo[r] : InTurn(r, id) =>
               DeclaredContentHash(tables[id]) # NoDigest
  PROVE  QuietInv'
<1>1. part'[r] = x /\ \A q \in Requests : q # r => UNCHANGED Local(q)
  BY DEF Local, ServedInv, TypeOK
<1>2. \A tables \in RootsSeen(r) :
        RootsSeen(r) = {tables} => DriftIsAsked(r, tables)'
  BY <1>1 DEF DriftIsAsked, InTurn
<1>3. QuietSoFar(r)'
  <2>1. QuietSoFar(r) /\ (OnTheWay(r)' => OnTheWay(r))
    BY DEF QuietInv, OnTheWay
  <2> QED  BY <1>2, <2>1, QuietReads DEF QuietSoFar
<1> QED  BY <1>1, <1>3, QuietOfOne

\* An entry is finished: it is the next of the directory.
LEMMA QuietEntry ==
  ASSUME ServedInv, QuietInv, NEW r \in Requests, pc[r] = "reading",
         req[r].op # "calc", NEW id, InTurn(r, id),
         NEW hash, NEW declared, NEW drift \in BOOLEAN, NEW at,
         \A tables \in RootsSeen(r) :
           RootsSeen(r) = {tables} => (drift <=> Stale(tables[id])),
         entries' = [entries EXCEPT ![r] =
                       Append(@, Entry(req[r], id, hash, declared, drift, at))],
         Leave(r, id), UNCHANGED <<pc, req, reply, seen>>
  PROVE  QuietInv'
<1> DEFINE e == Entry(req[r], id, hash, declared, drift, at)
           N == Len(entries[r])
<1>1. e.uri.rate = id /\ e.drift = drift
  BY DEF Entry, RateUri
<1>2. entries[r] \in Seq(Entries) /\ entries'[r] = Append(entries[r], e)
  BY DEF ServedInv, TypeOK
<1> HIDE DEF e
<1>3. /\ N \in Nat /\ DOMAIN entries[r] = 1..N /\ DOMAIN entries'[r] = 1..N + 1
      /\ \A i \in 1..N : entries'[r][i] = entries[r][i]
      /\ entries'[r][N + 1] = e
  BY <1>2
<1>4. todo'[r] = todo[r] \ {id} /\ part'[r] = NoPart
  BY DEF Leave, ServedInv, TypeOK
<1>5. /\ id \in todo[r]
      /\ \A other \in todo[r] : Precedes(id, other)
  BY DEF InTurn
<1>6. \A q \in Requests : q # r => UNCHANGED Local(q)
  BY DEF Local, ServedInv, TypeOK, Leave
<1> HIDE DEF N
<1>7. Entered(r)' = Entered(r) \cup {id}
  <2>1. \A i \in 1..N : entries'[r][i].uri.rate = entries[r][i].uri.rate
    BY <1>3
  <2>2. 1..N + 1 = 1..N \cup {N + 1}
    BY <1>3
  <2> QED  BY <1>1, <1>3, <2>1, <2>2 DEF Entered
<1>8. ASSUME NEW tables \in RootsSeen(r), RootsSeen(r) = {tables},
             req[r].op = "list"
      PROVE  ListSoFar(r, tables)'
  <2>1. ListSoFar(r, tables)
    BY <1>8 DEF QuietInv, QuietSoFar, OnTheWay
  <2>2. InDirectoryOrder(r)'
    <3>1. ASSUME NEW i \in 1..N + 1, NEW j \in 1..N + 1, i < j
          PROVE  LET a == entries'[r][i].uri.rate
                     b == entries'[r][j].uri.rate
                 IN  a # b /\ Precedes(a, b)
      <4>1. CASE j \in 1..N
        <5>1. i \in 1..N
          BY <1>3, <3>1, <4>1
        <5>2. entries'[r][i] = entries[r][i] /\ entries'[r][j] = entries[r][j]
          BY <1>3, <4>1, <5>1
        <5> QED  BY <1>3, <2>1, <3>1, <4>1, <5>1, <5>2
                 DEF ListSoFar, InDirectoryOrder
      <4>2. CASE j \notin 1..N
        <5>1. j = N + 1 /\ i \in 1..N
          BY <1>3, <3>1, <4>2
        <5>2. entries'[r][i].uri.rate \in Entered(r)
          BY <1>3, <5>1 DEF Entered
        <5>3. entries'[r][j].uri.rate = id
          BY <1>1, <1>3, <5>1
        <5> QED  BY <1>5, <2>1, <5>2, <5>3 DEF ListSoFar
      <4> QED  BY <4>1, <4>2
    <3> QED  BY <1>3, <3>1 DEF InDirectoryOrder
  <2>3. (Entered(r) \cup todo[r])' = Entered(r) \cup todo[r]
    BY <1>4, <1>5, <1>7
  <2>4. \A a \in Entered(r)', b \in todo'[r] : a # b /\ Precedes(a, b)
    BY <1>4, <1>5, <1>7, <2>1 DEF ListSoFar
  <2> QED  BY <2>1, <2>2, <2>3, <2>4 DEF ListSoFar
<1>9. ASSUME NEW tables \in RootsSeen(r), RootsSeen(r) = {tables},
             req[r].op \in {"list", "get"}
      PROVE  DriftIsStaleness(r, tables)'
  <2>1. DriftIsStaleness(r, tables)
    BY <1>9 DEF QuietInv, QuietSoFar, OnTheWay
  <2>2. \A i \in 1..N + 1 : i \in 1..N \/ i = N + 1
    BY <1>3
  <2>3. entries'[r][N + 1].drift <=> Stale(tables[entries'[r][N + 1].uri.rate])
    BY <1>1, <1>3, <1>9
  <2>4. \A i \in 1..N : entries'[r][i].drift
                          <=> Stale(tables[entries'[r][i].uri.rate])
    BY <1>3, <2>1 DEF DriftIsStaleness
  <2> QED  BY <1>3, <2>2, <2>3, <2>4 DEF DriftIsStaleness
<1>10. \A tables : DriftIsAsked(r, tables)'
  BY <1>4 DEF DriftIsAsked, NoPart
<1>11. QuietSoFar(r)'
  <2>1. \A tables \in RootsSeen(r) :
          RootsSeen(r) = {tables} /\ req[r].op \in {"list", "get"} =>
            /\ req[r].op = "list" => ListSoFar(r, tables)'
            /\ DriftIsStaleness(r, tables)' /\ DriftIsAsked(r, tables)'
    BY <1>8, <1>9, <1>10
  <2> QED  BY <2>1, QuietReading
<1> QED  BY <1>6, <1>11, QuietOfOne

LEMMA QuietBegin ==
  ASSUME ServedInv, QuietInv, NEW r \in Requests,
         \/ Arrive(r) \/ Refuse(r) \/ StartList(r) \/ EngineAnswers(r)
         \/ AnswerEntries(r) \/ AnswerCalculation(r)
  PROVE  QuietInv'
<1>1. CASE Arrive(r)
  <2>1. pc'[r] = "start" /\ \A q \in Requests : q # r =>
          UNCHANGED Local(q) /\ seen'[q] = seen[q]
    BY <1>1 DEF Arrive, Local, ServedInv, TypeOK
  <2>2. ~ OnTheWay(r)'
    BY <2>1 DEF OnTheWay
  <2> QED  BY <2>1, <2>2, QuietStays DEF QuietInv, QuietSoFar
<1>2. CASE Refuse(r)
  <2>1. PICK rep : Answer(r, rep) /\ rep.status # 200
    BY <1>2, ReplyFact DEF Refuse
  <2>2. UNCHANGED <<req, todo, part, entries, seen>>
    BY <1>2 DEF Refuse, history
  <2> HIDE DEF Answer
  <2> QED  BY <2>1, <2>2, QuietAnswer
<1>3. CASE StartList(r)
  <2>1. UNCHANGED <<req, todo, part, entries, seen>>
    BY <1>3 DEF StartList, history
  <2>2. CASE Answer(r, Error(404, "no_root"))
    <3>1. Error(404, "no_root").status # 200
      BY ReplyFact
    <3> HIDE DEF Answer
    <3> QED  BY <2>1, <2>2, <3>1, QuietAnswer
  <2>3. CASE pc' = [pc EXCEPT ![r] = "glob"] /\ UNCHANGED reply
    <3>1. ~ OnTheWay(r)' /\ \A q \in Requests : q # r => UNCHANGED Local(q)
      BY <2>1, <2>3 DEF OnTheWay, Local, ServedInv, TypeOK
    <3> QED  BY <2>1, <3>1, QuietAside
  <2> QED  BY <1>3, <2>2, <2>3 DEF StartList
<1>4. CASE EngineAnswers(r)
  <2>1. req[r].op = "calc" /\ UNCHANGED <<req, seen>>
    BY <1>4 DEF EngineAnswers
  <2>2. ~ OnTheWay(r)'
    BY <2>1 DEF OnTheWay
  <2>3. \A q \in Requests : q # r => UNCHANGED Local(q)
    BY <1>4 DEF EngineAnswers, Local, ServedInv, TypeOK
  <2> QED  BY <2>1, <2>2, <2>3, QuietAside
<1>5. CASE AnswerEntries(r)
  <2>1. /\ Answer(r, Ok(NoBlock)) /\ pc[r] = "reading" /\ todo[r] = {}
        /\ UNCHANGED <<req, todo, part, entries, seen>>
    BY <1>5 DEF AnswerEntries, history
  <2> HIDE DEF Answer
  <2> QED  BY <2>1, QuietAnswer
<1>6. CASE AnswerCalculation(r)
  <2>1. PICK rep : Answer(r, rep)
    BY <1>6 DEF AnswerCalculation, RoundingLookup, Wrap
  <2>2. req[r].op = "calc" /\ UNCHANGED <<req, todo, part, entries, seen>>
    BY <1>6 DEF AnswerCalculation, history
  <2> HIDE DEF Answer
  <2> QED  BY <2>1, <2>2, QuietAnswer
<1> QED  BY <1>1, <1>2, <1>3, <1>4, <1>5, <1>6

\* A list begins with the directory before it.
LEMMA QuietGlob ==
  ASSUME ServedInv, QuietInv, NEW r \in Requests, Glob(r)
  PROVE  QuietInv'
<1>1. /\ pc[r] = "glob" /\ entries[r] = <<>> /\ part[r] = NoPart
      /\ pc'[r] = "reading" /\ todo'[r] = DOMAIN Root(r)
      /\ UNCHANGED <<req, part, entries, reply, seen>>
      /\ \A q \in Requests : q # r => UNCHANGED Local(q)
  BY DEF Glob, ServedInv, TypeOK, Served, Phases, history, Local
<1>2. Entered(r)' = {} /\ InDirectoryOrder(r)'
  BY <1>1 DEF Entered, InDirectoryOrder
<1>3. ASSUME NEW tables \in RootsSeen(r), RootsSeen(r) = {tables}
      PROVE  ListSoFar(r, tables)'
  <2>1. todo'[r] = DOMAIN tables
    BY <1>1, <1>3, OneVersion
  <2> QED  BY <1>2, <2>1 DEF ListSoFar
<1>4. \A tables : DriftIsStaleness(r, tables)' /\ DriftIsAsked(r, tables)'
  BY <1>1 DEF DriftIsStaleness, DriftIsAsked, NoPart
<1>5. QuietSoFar(r)'
  <2>1. \A tables \in RootsSeen(r) :
          RootsSeen(r) = {tables} /\ req[r].op \in {"list", "get"} =>
            /\ req[r].op = "list" => ListSoFar(r, tables)'
            /\ DriftIsStaleness(r, tables)' /\ DriftIsAsked(r, tables)'
    BY <1>3, <1>4
  <2> QED  BY <1>1, <2>1, QuietReading
<1> QED  BY <1>1, <1>5, QuietOfOne

LEMMA QuietGet ==
  ASSUME ServedInv, QuietInv, NEW r \in Requests, StartGet(r)
  PROVE  QuietInv'
<1>1. CASE Answer(r, Error(404, "no_table")) /\ UNCHANGED <<todo, part>>
  <2>1. Error(404, "no_table").status # 200
    BY ReplyFact
  <2>2. UNCHANGED <<req, todo, part, entries, seen>>
    BY <1>1 DEF StartGet, history
  <2> HIDE DEF Answer
  <2> QED  BY <1>1, <2>1, <2>2, QuietAnswer
<1>2. CASE /\ pc' = [pc EXCEPT ![r] = "reading"]
           /\ todo' = [todo EXCEPT ![r] = {req[r].rate}]
           /\ part' = [part EXCEPT ![r].step = "text"]
           /\ UNCHANGED reply
  <2>1. /\ pc[r] = "start" /\ req[r].op = "get" /\ entries[r] = <<>>
        /\ pc'[r] = "reading" /\ UNCHANGED <<req, entries, seen>>
        /\ \A q \in Requests : q # r => UNCHANGED Local(q)
    BY <1>2
       DEF StartGet, Accepted, ServedInv, TypeOK, Served, Phases, history,
           Local
  <2>2. part'[r].step = "text"
    <3>1. part[r] \in Parts /\ part'[r] = [part[r] EXCEPT !.step = "text"]
      BY <1>2 DEF ServedInv, TypeOK
    <3> QED  BY <3>1 DEF Parts
  <2>3. \A tables : DriftIsStaleness(r, tables)' /\ DriftIsAsked(r, tables)'
    BY <2>1, <2>2 DEF DriftIsStaleness, DriftIsAsked
  <2>4. QuietSoFar(r)'
    BY <2>1, <2>3 DEF QuietSoFar
  <2> QED  BY <2>1, <2>4, QuietOfOne
<1> QED  BY <1>1, <1>2 DEF StartGet

\* The reads of a rate route.
LEMMA QuietRead ==
  ASSUME ServedInv, QuietInv, NEW r \in Requests, NEW id \in RateIds,
         \/ ReadText(r, id) \/ ReadHash(r, id) \/ ReadDeclared(r, id)
         \/ ReadIsDeclared(r, id) \/ ReadDrift(r, id)
  PROVE  QuietInv'
<1>1. /\ pc[r] = "reading" /\ InTurn(r, id) /\ req[r].op # "calc"
      /\ UNCHANGED <<req, seen>>
  BY DEF ReadText, ReadHash, ReadDeclared, ReadIsDeclared, ReadDrift, Reading,
     history
<1>2. part[r] \in Parts
  BY DEF ServedInv, TypeOK
<1>3. CASE Answer(r, Bare500) /\ UNCHANGED <<todo, part, entries>>
  <2>1. Bare500.status # 200
    BY ReplyFact
  <2> HIDE DEF Answer
  <2> QED  BY <1>1, <1>3, <2>1, QuietAnswer
<1>4. ASSUME Readable(r, id), NEW tables \in RootsSeen(r),
             RootsSeen(r) = {tables}
      PROVE  /\ Table(r, id) = tables[id]
             /\ part[r].step \in {"declared", "is_declared", "drift"} =>
                  part[r].hash = CanonicalDigest(tables[id])
             /\ Stale(tables[id]) <=>
                  /\ DeclaredContentHash(Table(r, id)) # NoDigest
                  /\ DeclaredContentHash(Table(r, id))
                       # CanonicalDigest(tables[id])
  <2>1. Table(r, id) = tables[id] /\ tables[id] \in File
    BY <1>1, <1>4, OneVersion
  <2>2. part[r].step \in {"declared", "is_declared", "drift"} =>
          Live(r, id, part[r].hash)
    BY <1>1 DEF ServedInv, Served, PartIsLive, InTurn
  <2> QED  BY <1>4, <2>1, <2>2, FileFact DEF Live
<1>5. CASE ReadText(r, id) /\ ~ Answer(r, Bare500)
  <2> DEFINE x == [part[r] EXCEPT !.step = "hash"]
  <2>1. x.step = "hash"
    BY <1>2 DEF Parts
  <2>2. /\ part' = [part EXCEPT ![r] = x]
        /\ UNCHANGED <<pc, req, todo, entries, reply, seen>>
    BY <1>5 DEF ReadText, history
  <2> HIDE DEF x
  <2> QED  BY <1>1, <2>1, <2>2, QuietPart
<1>6. CASE ReadHash(r, id) /\ ~ Answer(r, Bare500)
  <2> DEFINE x == [part[r] EXCEPT !.hash = HashRateTable(Table(r, id)),
                                  !.step = "declared", !.at = edits]
  <2>1. x.step = "declared"
    BY <1>2 DEF Parts
  <2>2. /\ part' = [part EXCEPT ![r] = x]
        /\ UNCHANGED <<pc, req, todo, entries, reply, seen>>
    BY <1>6 DEF ReadHash, history
  <2> HIDE DEF x
  <2> QED  BY <1>1, <2>1, <2>2, QuietPart
<1>7. CASE ReadDeclared(r, id) /\ ~ Answer(r, Bare500)
  <2> DEFINE declared == DeclaredContentHash(Table(r, id))
             x == [part[r] EXCEPT !.declared = declared,
                                  !.step = "is_declared"]
             drift == declared # NoDigest /\ declared # part[r].hash
  <2>1. Readable(r, id) /\ part[r].step = "declared"
    BY <1>7 DEF ReadDeclared, Reading
  <2>2. CASE req[r].op = "list"
    <3>1. x.step = "is_declared"
      BY <1>2 DEF Parts
    <3>2. /\ part' = [part EXCEPT ![r] = x]
          /\ UNCHANGED <<pc, req, todo, entries, reply, seen>>
      BY <1>7, <2>1, <2>2 DEF ReadDeclared, history
    <3> HIDE DEF x
    <3> QED  BY <1>1, <3>1, <3>2, QuietPart
  <2>3. CASE req[r].op # "list"
    <3>1. /\ entries' = [entries EXCEPT ![r] = Append(@,
               Entry(req[r], id, part[r].hash, declared, drift, part[r].at))]
          /\ Leave(r, id) /\ UNCHANGED <<pc, req, reply, seen>>
      BY <1>7, <2>1, <2>3 DEF ReadDeclared, history
    <3>2. \A tables \in RootsSeen(r) :
            RootsSeen(r) = {tables} => (drift <=> Stale(tables[id]))
      BY <1>4, <2>1
    <3>3. drift \in BOOLEAN
      OBVIOUS
    <3> HIDE DEF drift, Leave
    <3> QED  BY <1>1, <3>1, <3>2, <3>3, QuietEntry
  <2> QED  BY <2>2, <2>3
<1>8. CASE ReadIsDeclared(r, id) /\ ~ Answer(r, Bare500)
  <2>1. Readable(r, id) /\ part[r].step = "is_declared"
    BY <1>8 DEF ReadIsDeclared, Reading
  <2>2. CASE DeclaredContentHash(Table(r, id)) # NoDigest
    <3> DEFINE x == [part[r] EXCEPT !.step = "drift"]
    <3>1. /\ part' = [part EXCEPT ![r] = x]
          /\ UNCHANGED <<pc, req, todo, entries, reply, seen>>
      BY <1>8, <2>1, <2>2 DEF ReadIsDeclared, history
    <3>2. \A tables \in RootsSeen(r) : RootsSeen(r) = {tables} =>
            \A a \in todo[r] : InTurn(r, a) =>
              DeclaredContentHash(tables[a]) # NoDigest
      BY <1>1, <1>4, <2>1, <2>2, OneInTurn
    <3> HIDE DEF x
    <3> QED  BY <1>1, <3>1, <3>2, QuietPart
  <2>3. CASE DeclaredContentHash(Table(r, id)) = NoDigest
    <3>1. /\ entries' = [entries EXCEPT ![r] = Append(@,
               Entry(req[r], id, part[r].hash, part[r].declared, FALSE,
                     part[r].at))]
          /\ Leave(r, id) /\ UNCHANGED <<pc, req, reply, seen>>
      BY <1>8, <2>1, <2>3 DEF ReadIsDeclared, history
    <3>2. \A tables \in RootsSeen(r) :
            RootsSeen(r) = {tables} => (FALSE <=> Stale(tables[id]))
      BY <1>4, <2>1, <2>3
    <3> HIDE DEF Leave
    <3> QED  BY <1>1, <3>1, <3>2, QuietEntry
  <2> QED  BY <2>2, <2>3
<1>9. CASE ReadDrift(r, id) /\ ~ Answer(r, Bare500)
  <2> DEFINE drift == DeclaredContentHash(Table(r, id)) # part[r].hash
  <2>1. /\ Readable(r, id) /\ part[r].step = "drift" /\ req[r].op = "list"
    BY <1>9 DEF ReadDrift, Reading
  <2>2. /\ entries' = [entries EXCEPT ![r] = Append(@,
             Entry(req[r], id, part[r].hash, part[r].declared, drift,
                   part[r].at))]
        /\ Leave(r, id) /\ UNCHANGED <<pc, req, reply, seen>>
    BY <1>9, <2>1 DEF ReadDrift, history
  <2>3. ASSUME NEW tables \in RootsSeen(r), RootsSeen(r) = {tables}
        PROVE  drift <=> Stale(tables[id])
    <3>1. DeclaredContentHash(tables[id]) # NoDigest
      BY <1>1, <2>1, <2>3
         DEF QuietInv, QuietSoFar, OnTheWay, DriftIsAsked, InTurn
    <3> QED  BY <1>4, <2>1, <2>3, <3>1
  <2>4. drift \in BOOLEAN
    OBVIOUS
  <2> HIDE DEF drift, Leave
  <2> QED  BY <1>1, <2>2, <2>3, <2>4, QuietEntry
<1>10. Answer(r, Bare500) => UNCHANGED <<todo, part, entries>>
  <2>1. ASSUME Answer(r, Bare500)  PROVE reply' # reply
    BY <1>1, <2>1, ReplyFact DEF Answer, ServedInv, TypeOK, Served, Phases
  <2> HIDE DEF Answer
  <2>2. ReadText(r, id) /\ Answer(r, Bare500) => UNCHANGED <<todo, part, entries>>
    BY <2>1 DEF ReadText
  <2>3. ReadHash(r, id) /\ Answer(r, Bare500) => UNCHANGED <<todo, part, entries>>
    BY <2>1 DEF ReadHash
  <2>4. ReadDeclared(r, id) /\ Answer(r, Bare500)
          => UNCHANGED <<todo, part, entries>>
    BY <2>1 DEF ReadDeclared
  <2>5. ReadIsDeclared(r, id) /\ Answer(r, Bare500)
          => UNCHANGED <<todo, part, entries>>
    BY <2>1 DEF ReadIsDeclared
  <2>6. ReadDrift(r, id) /\ Answer(r, Bare500)
          => UNCHANGED <<todo, part, entries>>
    BY <2>1 DEF ReadDrift
  <2> QED  BY <2>2, <2>3, <2>4, <2>5, <2>6
<1> HIDE DEF Answer
<1> QED  BY <1>3, <1>5, <1>6, <1>7, <1>8, <1>9, <1>10

\* A calculation shows nothing here.
LEMMA QuietManifest ==
  ASSUME ServedInv, QuietInv, NEW r \in Requests, NEW id \in RateIds,
         BuildManifest(r, id)
  PROVE  QuietInv'
<1>1. req[r].op = "calc" /\ UNCHANGED <<req, seen>>
  BY DEF BuildManifest, history
<1>2. ~ OnTheWay(r)'
  BY <1>1 DEF OnTheWay
<1>3. \A q \in Requests : q # r => UNCHANGED Local(q)
  BY DEF BuildManifest, Leave, Answer, Local, ServedInv, TypeOK
<1> QED  BY <1>1, <1>2, <1>3, QuietAside

\* A request that met an edit of its root met two versions of it.
LEMMA QuietChange ==
  ASSUME ServedInv, QuietInv, NEW root, NEW tables, ChangeTree(root, tables)
  PROVE  QuietInv'
<1> SUFFICES ASSUME NEW r \in Requests  PROVE QuietSoFar(r)'
  BY DEF QuietInv
<1>1. UNCHANGED <<pc, req, todo, part, entries, reply>>
  BY DEF ChangeTree
<1>2. CASE seen'[r] = seen[r]
  BY <1>1, <1>2, QuietStays DEF QuietInv, Local
<1>3. CASE seen'[r] # seen[r]
  <2>1. /\ pc[r] \notin {"idle", "done"} /\ seen[r] \subseteq seen'[r]
    BY <1>3 DEF ChangeTree, ServedInv, TypeOK
  <2>2. CASE pc[r] # "reading"
    <3>1. ~ OnTheWay(r)'
      BY <1>1, <2>1, <2>2 DEF OnTheWay
    <3> QED  BY <3>1 DEF QuietSoFar
  <2>3. CASE pc[r] = "reading"
    <3>1. disk \in seen[r] /\ RootsSeen(r) # {}
      BY <2>3 DEF ServedInv, Served, Phases, RootsSeen
    <3>2. RootsSeen(r) \subseteq RootsSeen(r)'
      BY <1>1, <2>1 DEF RootsSeen
    <3>3. ASSUME NEW t \in RootsSeen(r)', RootsSeen(r)' = {t}
          PROVE  t \in RootsSeen(r) /\ RootsSeen(r) = {t}
      BY <3>1, <3>2, <3>3
    <3>4. \A t : /\ ListSoFar(r, t) => ListSoFar(r, t)'
                 /\ DriftIsStaleness(r, t) => DriftIsStaleness(r, t)'
                 /\ DriftIsAsked(r, t) => DriftIsAsked(r, t)'
      BY <1>1
         DEF ListSoFar, InDirectoryOrder, Entered, DriftIsStaleness,
             DriftIsAsked, InTurn
    <3>5. QuietSoFar(r) /\ (OnTheWay(r)' => OnTheWay(r))
      BY <1>1 DEF QuietInv, OnTheWay
    <3> QED  BY <1>1, <2>3, <3>3, <3>4, <3>5 DEF QuietSoFar
  <2> QED  BY <2>2, <2>3
<1> QED  BY <1>2, <1>3

LEMMA QuietNext ==
  ASSUME ServedInv, QuietInv, [Next]_vars
  PROVE  QuietInv'
<1>1. CASE UNCHANGED vars \/ StartEngine
  <2>1. \A r \in Requests : UNCHANGED Local(r) /\ seen'[r] = seen[r]
    BY <1>1 DEF vars, StartEngine, history, Local
  <2> QED  BY <2>1, QuietStays DEF QuietInv
<1>2. CASE Edit
  <2>1. PICK root \in Maintained : \E tables : ChangeTree(root, tables)
    BY <1>2 DEF Edit, EditTable, AnchorTable, AddTable, RemoveTable
  <2> QED  BY <2>1, QuietChange
<1>3. ASSUME NEW r \in Requests, Arrive(r) \/ Serve(r)  PROVE QuietInv'
  BY <1>3, QuietBegin, QuietGlob, QuietGet, QuietRead, QuietManifest DEF Serve
<1> QED  BY <1>1, <1>2, <1>3 DEF Next

LEMMA QuietInit == Init => QuietInv
BY DEF Init, QuietInv, QuietSoFar, OnTheWay, NoRequest

-----------------------------------------------------------------------------
(* What is said of a table at one edit of the tree *)

LEMMA ClaimsStay ==
  ASSUME NEW r \in Requests,
         UNCHANGED <<req[r], todo[r], part[r], entries[r]>>
  PROVE  EntryClaims(r)' = EntryClaims(r) /\ PartClaims(r)' = PartClaims(r)
<1>1. EntryClaims(r)' = EntryClaims(r)
  BY DEF EntryClaims, Claim, RateTableRootFor
<1>2. \A id : Claim(r, RateUri(req[r].period, id), part[r].at, part[r].hash)'
                = Claim(r, RateUri(req[r].period, id), part[r].at, part[r].hash)
  BY DEF Claim, RateTableRootFor
<1>3. \A id : InTurn(r, id)' <=> InTurn(r, id)
  BY DEF InTurn
<1>4. PartClaims(r)' = PartClaims(r)
  BY <1>2, <1>3 DEF PartClaims
<1> QED  BY <1>1, <1>4

LEMMA AllClaimsStay ==
  ASSUME \A q \in Requests : UNCHANGED <<req[q], todo[q], part[q], entries[q]>>
  PROVE  Claims' = Claims
<1>1. Claims' = UNION {EntryClaims(q)' \cup PartClaims(q)' : q \in Requests}
  BY DEF Claims
<1>2. \A q \in Requests : EntryClaims(q)' = EntryClaims(q)
                          /\ PartClaims(q)' = PartClaims(q)
  BY ClaimsStay
<1> QED  BY <1>1, <1>2 DEF Claims

\* A step that says nothing new of any table.
LEMMA NothingNew ==
  ASSUME ClaimsInv, UNCHANGED <<disk, edits>>, Claims' \subseteq Claims
  PROVE  ClaimsInv'
BY DEF ClaimsInv, ClaimHolds

\* A step that says one thing more, which is true of the tree as it is.
LEMMA OneMore ==
  ASSUME ClaimsInv, UNCHANGED <<disk, edits>>, NEW c, c.at = edits,
         ClaimHolds(c), Claims' \subseteq Claims \cup {c}
  PROVE  ClaimsInv'
<1>1. \A d \in Claims' : ClaimHolds(d)
  BY DEF ClaimsInv
<1>2. \A d \in Claims' : ClaimHolds(d)'
  BY <1>1 DEF ClaimHolds
<1>3. ASSUME NEW d \in Claims', NEW e \in Claims', d.root = e.root,
             d.uri = e.uri, d.at = e.at
      PROVE  d.hash = e.hash
  <2>1. CASE d.at = edits
    BY <1>1, <1>3, <2>1 DEF ClaimHolds
  <2>2. CASE d.at # edits
    <3>1. d \in Claims /\ e \in Claims
      BY <1>3, <2>2
    <3> QED  BY <1>3, <3>1 DEF ClaimsInv
  <2> QED  BY <2>1, <2>2
<1>4. \A root \in Roots : DOMAIN disk'[root] # {} => root \in Filled
  BY DEF ClaimsInv
<1> QED  BY <1>2, <1>3, <1>4 DEF ClaimsInv

\* A step of one request speaks for that request.
LEMMA ClaimsOfOne ==
  ASSUME NEW r \in Requests, NEW S,
         EntryClaims(r)' \subseteq S, PartClaims(r)' \subseteq S,
         Claims \subseteq S,
         \A q \in Requests : q # r =>
           UNCHANGED <<req[q], todo[q], part[q], entries[q]>>
  PROVE  Claims' \subseteq S
<1>1. Claims' = UNION {EntryClaims(q)' \cup PartClaims(q)' : q \in Requests}
  BY DEF Claims
<1>2. ASSUME NEW q \in Requests
      PROVE  EntryClaims(q)' \cup PartClaims(q)' \subseteq S
  <2>1. CASE q = r
    BY <2>1
  <2>2. CASE q # r
    <3>1. EntryClaims(q) \cup PartClaims(q) \subseteq Claims
      BY DEF Claims
    <3> QED  BY <2>2, <3>1, ClaimsStay
  <2> QED  BY <2>1, <2>2
<1> QED  BY <1>1, <1>2

\* A request that has no entry, and no digest of the one it makes, says nothing.
LEMMA Silent ==
  ASSUME ClaimsInv, NEW r \in Requests, UNCHANGED <<disk, edits>>,
         entries'[r] = <<>>, part'[r].step \in {"text", "hash"},
         \A q \in Requests : q # r =>
           UNCHANGED <<req[q], todo[q], part[q], entries[q]>>
  PROVE  ClaimsInv'
<1>1. EntryClaims(r)' = {} /\ PartClaims(r)' = {}
  BY DEF EntryClaims, PartClaims
<1> QED  BY <1>1, ClaimsOfOne, NothingNew

\* The digest of a table that is read says what the tree has now.
LEMMA ReadHolds ==
  ASSUME ServedInv, ClaimsInv, NEW r \in Requests, NEW id \in RateIds,
         pc[r] = "reading", Readable(r, id)
  PROVE  ClaimHolds(Claim(r, RateUri(req[r].period, id), edits,
                          HashRateTable(Table(r, id))))
<1>1. RateTableRootFor(req[r]) \in Roots /\ id \in DOMAIN Root(r)
  BY DEF ServedInv, Served, Phases, Readable
<1>2. RateTableRootFor(req[r]) \in Filled
  BY <1>1 DEF ClaimsInv, Root
<1>3. HashRateTable(Table(r, id))
        = CanonicalDigest(disk[RateTableRootFor(req[r])][id])
  BY ReadIsLive, FileFact DEF Table, Root
<1>4. edits <= edits
  BY RateTablesAssumption DEF ServedInv, TypeOK
<1> QED  BY <1>1, <1>2, <1>3, <1>4 DEF ClaimHolds, Claim, Root, RateUri,
  RateTableRootFor

\* The claim of an entry.
LEMMA EntryClaimed ==
  ASSUME ServedInv, NEW r \in Requests, NEW id, NEW hash, NEW declared,
         NEW drift, NEW at,
         entries' = [entries EXCEPT ![r] =
                       Append(@, Entry(req[r], id, hash, declared, drift, at))],
         Leave(r, id), UNCHANGED req,
         NEW S, Claims \subseteq S, Claim(r, RateUri(req[r].period, id), at, hash) \in S
  PROVE  Claims' \subseteq S
<1> DEFINE e == Entry(req[r], id, hash, declared, drift, at)
           N == Len(entries[r])
<1>1. /\ e.uri = RateUri(req[r].period, id) /\ e.content_hash = hash
      /\ e.at = at
  BY DEF Entry
<1>2. entries[r] \in Seq(Entries) /\ entries'[r] = Append(entries[r], e)
  BY DEF ServedInv, TypeOK
<1> HIDE DEF e
<1>3. /\ N \in Nat /\ DOMAIN entries[r] = 1..N /\ DOMAIN entries'[r] = 1..N + 1
      /\ \A i \in 1..N : entries'[r][i] = entries[r][i]
      /\ entries'[r][N + 1] = e
  BY <1>2
<1> HIDE DEF N
<1>4. EntryClaims(r)' \subseteq S
  <2>1. SUFFICES ASSUME NEW i \in 1..N + 1
                 PROVE  Claim(r, entries'[r][i].uri, entries'[r][i].at,
                              entries'[r][i].content_hash) \in S
    BY <1>3 DEF EntryClaims, Claim, RateTableRootFor
  <2>2. CASE i \in 1..N
    <3>1. Claim(r, entries[r][i].uri, entries[r][i].at,
                entries[r][i].content_hash) \in EntryClaims(r)
      BY <1>3, <2>2 DEF EntryClaims
    <3> QED  BY <1>3, <2>2, <3>1 DEF Claims
  <2>3. CASE i \notin 1..N
    <3>1. entries'[r][i] = e
      BY <1>3, <2>3
    <3> QED  BY <1>1, <3>1
  <2> QED  BY <2>2, <2>3
<1>5. PartClaims(r)' \subseteq S
  <2>1. part'[r] = NoPart
    BY DEF Leave, ServedInv, TypeOK
  <2> QED  BY <2>1 DEF PartClaims, NoPart
<1>6. \A q \in Requests : q # r =>
        UNCHANGED <<req[q], todo[q], part[q], entries[q]>>
  BY DEF Leave, ServedInv, TypeOK
<1> QED  BY <1>4, <1>5, <1>6, ClaimsOfOne

\* The steps that make no entry and hash no table.
LEMMA ClaimsAside ==
  ASSUME ServedInv, ClaimsInv, NEW r \in Requests,
         \/ Arrive(r) \/ Refuse(r) \/ StartList(r) \/ Glob(r) \/ StartGet(r)
         \/ EngineAnswers(r) \/ AnswerEntries(r) \/ AnswerCalculation(r)
  PROVE  ClaimsInv'
<1>1. UNCHANGED <<disk, edits>>
  BY DEF Arrive, Refuse, StartList, Glob, StartGet, EngineAnswers,
     AnswerEntries, AnswerCalculation, world
<1>2. CASE UNCHANGED <<req, todo, part, entries>>
  BY <1>1, <1>2, AllClaimsStay, NothingNew
<1>3. CASE Refuse(r) \/ StartList(r) \/ AnswerEntries(r) \/ AnswerCalculation(r)
  BY <1>2, <1>3 DEF Refuse, StartList, AnswerEntries, AnswerCalculation
<1>4. CASE StartGet(r) /\ UNCHANGED <<todo, part>>
  BY <1>2, <1>4 DEF StartGet
<1>5. CASE Arrive(r) \/ Glob(r) \/ EngineAnswers(r)
  <2>1. pc[r] \in {"idle", "start", "glob"} /\ UNCHANGED <<part, entries>>
    BY <1>5 DEF Arrive, Glob, EngineAnswers, Accepted
  <2>2. entries'[r] = <<>> /\ part'[r].step = "hash"
    BY <2>1 DEF ServedInv, Served, Phases, NoPart
  <2>3. \A q \in Requests : q # r =>
          UNCHANGED <<req[q], todo[q], part[q], entries[q]>>
    BY <1>5, <2>1 DEF Arrive, Glob, EngineAnswers, ServedInv, TypeOK
  <2> QED  BY <1>1, <2>2, <2>3, Silent
<1>6. CASE StartGet(r) /\ req[r].rate \in DOMAIN Root(r)
  <2>1. pc[r] = "start" /\ entries'[r] = <<>>
    BY <1>6 DEF StartGet, Accepted, ServedInv, Served, Phases
  <2>2. part'[r].step = "text"
    <3>1. part[r] \in Parts /\ part'[r] = [part[r] EXCEPT !.step = "text"]
      BY <1>6 DEF StartGet, ServedInv, TypeOK
    <3> QED  BY <3>1 DEF Parts
  <2>3. \A q \in Requests : q # r =>
          UNCHANGED <<req[q], todo[q], part[q], entries[q]>>
    BY <1>6 DEF StartGet, ServedInv, TypeOK
  <2> QED  BY <1>1, <2>1, <2>2, <2>3, Silent
<1> QED  BY <1>3, <1>4, <1>5, <1>6 DEF StartGet

\* Another step of the entry of the table in turn.
LEMMA ClaimsPart ==
  ASSUME ServedInv, ClaimsInv, NEW r \in Requests, NEW x,
         part' = [part EXCEPT ![r] = x],
         UNCHANGED <<disk, edits, req, todo, entries>>,
         \/ x.step = "hash"
         \/ /\ x.at = part[r].at /\ x.hash = part[r].hash
            /\ part[r].step \in {"declared", "is_declared", "drift"}
  PROVE  ClaimsInv'
<1>1. part'[r] = x /\ \A q \in Requests : q # r =>
        UNCHANGED <<req[q], todo[q], part[q], entries[q]>>
  BY DEF ServedInv, TypeOK
<1>2. EntryClaims(r)' = EntryClaims(r)
  BY DEF EntryClaims, Claim, RateTableRootFor
<1>3. PartClaims(r)' \subseteq PartClaims(r)
  BY <1>1 DEF PartClaims, Claim, RateTableRootFor, InTurn
<1>4. Claims' \subseteq Claims
  <2>1. EntryClaims(r)' \subseteq Claims /\ PartClaims(r)' \subseteq Claims
    BY <1>2, <1>3 DEF Claims
  <2> QED  BY <1>1, <2>1, ClaimsOfOne
<1> QED  BY <1>4, NothingNew

\* An entry says what was about to be said.
LEMMA ClaimsEntry ==
  ASSUME ServedInv, ClaimsInv, NEW r \in Requests, NEW id, InTurn(r, id),
         part[r].step \in {"declared", "is_declared", "drift"},
         NEW declared, NEW drift,
         entries' = [entries EXCEPT ![r] = Append(@,
           Entry(req[r], id, part[r].hash, declared, drift, part[r].at))],
         Leave(r, id), UNCHANGED <<disk, edits, req>>
  PROVE  ClaimsInv'
<1>1. Claim(r, RateUri(req[r].period, id), part[r].at, part[r].hash) \in Claims
  <2>1. Claim(r, RateUri(req[r].period, id), part[r].at, part[r].hash) \in PartClaims(r)
    BY DEF PartClaims, InTurn
  <2> QED  BY <2>1 DEF Claims
<1>2. Claims' \subseteq Claims
  <2> HIDE DEF Claims, Leave
  <2> QED  BY <1>1, EntryClaimed
<1> QED  BY <1>2, NothingNew

LEMMA ClaimsHash ==
  ASSUME ServedInv, ClaimsInv, NEW r \in Requests, NEW id \in RateIds,
         ReadHash(r, id), Readable(r, id)
  PROVE  ClaimsInv'
<1> DEFINE h == HashRateTable(Table(r, id))
           c == Claim(r, RateUri(req[r].period, id), edits, h)
           x == [part[r] EXCEPT !.hash = h, !.step = "declared", !.at = edits]
<1>1. /\ pc[r] = "reading" /\ InTurn(r, id) /\ req[r].op # "calc"
      /\ part' = [part EXCEPT ![r] = x]
      /\ UNCHANGED <<disk, edits, req, todo, entries>>
  BY DEF ReadHash, Reading, world
<1>2. ClaimHolds(c) /\ c.at = edits
  <2>1. c.at = edits
    BY DEF Claim
  <2> QED  BY <1>1, <2>1, ReadHolds
<1>3. part'[r] = x /\ x.hash = h /\ x.at = edits
  BY <1>1 DEF ServedInv, TypeOK, Parts
<1>4. \A q \in Requests : q # r =>
        UNCHANGED <<req[q], todo[q], part[q], entries[q]>>
  BY <1>1 DEF ServedInv, TypeOK
<1> HIDE DEF h, x
<1>5. PartClaims(r)' \subseteq {c}
  <2>1. \A a \in todo[r] : InTurn(r, a)' => a = id
    BY <1>1, OneInTurn DEF InTurn
  <2>2. \A a : Claim(r, RateUri(req[r].period, a), part[r].at, part[r].hash)'
                = Claim(r, RateUri(req[r].period, a), edits, h)
    BY <1>1, <1>3 DEF Claim, RateTableRootFor
  <2> QED  BY <1>1, <2>1, <2>2 DEF PartClaims
<1>6. EntryClaims(r)' \subseteq Claims
  BY <1>1 DEF EntryClaims, Claim, RateTableRootFor, Claims
<1>7. Claims' \subseteq Claims \cup {c}
  <2> HIDE DEF c
  <2> QED  BY <1>4, <1>5, <1>6, ClaimsOfOne
<1> HIDE DEF c
<1> QED  BY <1>1, <1>2, <1>7, OneMore

\* The reads of a rate route.
LEMMA ClaimsRead ==
  ASSUME ServedInv, ClaimsInv, NEW r \in Requests, NEW id \in RateIds,
         \/ ReadText(r, id) \/ ReadHash(r, id) \/ ReadDeclared(r, id)
         \/ ReadIsDeclared(r, id) \/ ReadDrift(r, id)
  PROVE  ClaimsInv'
<1>1. InTurn(r, id) /\ UNCHANGED <<disk, edits, req>> /\ part[r] \in Parts
  BY DEF ReadText, ReadHash, ReadDeclared, ReadIsDeclared, ReadDrift, Reading,
     world, ServedInv, TypeOK
<1>2. CASE UNCHANGED <<todo, part, entries>>
  BY <1>1, <1>2, AllClaimsStay, NothingNew
<1>3. CASE ReadText(r, id)
  <2>1. CASE part' = [part EXCEPT ![r].step = "hash"]
    <3> DEFINE x == [part[r] EXCEPT !.step = "hash"]
    <3>1. x.step = "hash"
      BY <1>1 DEF Parts
    <3>2. part' = [part EXCEPT ![r] = x] /\ UNCHANGED <<todo, entries>>
      BY <1>3, <2>1 DEF ReadText
    <3> HIDE DEF x
    <3> QED  BY <1>1, <3>1, <3>2, ClaimsPart
  <2> QED  BY <1>2, <1>3, <2>1 DEF ReadText
<1>4. CASE ReadHash(r, id)
  BY <1>2, <1>4, ClaimsHash DEF ReadHash
<1>5. CASE ReadDeclared(r, id)
  <2> DEFINE declared == DeclaredContentHash(Table(r, id))
             x == [part[r] EXCEPT !.declared = declared,
                                  !.step = "is_declared"]
             drift == declared # NoDigest /\ declared # part[r].hash
  <2>1. part[r].step = "declared"
    BY <1>5 DEF ReadDeclared, Reading
  <2>2. CASE part' = [part EXCEPT ![r] = x] /\ UNCHANGED <<todo, entries>>
    <3>1. x.at = part[r].at /\ x.hash = part[r].hash
      BY <1>1 DEF Parts
    <3> HIDE DEF x
    <3> QED  BY <1>1, <2>1, <2>2, <3>1, ClaimsPart
  <2>3. CASE /\ entries' = [entries EXCEPT ![r] = Append(@,
                  Entry(req[r], id, part[r].hash, declared, drift,
                        part[r].at))]
             /\ Leave(r, id)
    <3> HIDE DEF declared, drift, Leave
    <3> QED  BY <1>1, <2>1, <2>3, ClaimsEntry
  <2> HIDE DEF Leave
  <2> QED  BY <1>2, <1>5, <2>2, <2>3 DEF ReadDeclared
<1>6. CASE ReadIsDeclared(r, id)
  <2> DEFINE x == [part[r] EXCEPT !.step = "drift"]
  <2>1. part[r].step = "is_declared"
    BY <1>6 DEF ReadIsDeclared, Reading
  <2>2. CASE part' = [part EXCEPT ![r] = x] /\ UNCHANGED <<todo, entries>>
    <3>1. x.at = part[r].at /\ x.hash = part[r].hash
      BY <1>1 DEF Parts
    <3> HIDE DEF x
    <3> QED  BY <1>1, <2>1, <2>2, <3>1, ClaimsPart
  <2>3. CASE /\ entries' = [entries EXCEPT ![r] = Append(@,
                  Entry(req[r], id, part[r].hash, part[r].declared, FALSE,
                        part[r].at))]
             /\ Leave(r, id)
    <3> HIDE DEF Leave
    <3> QED  BY <1>1, <2>1, <2>3, ClaimsEntry
  <2> HIDE DEF Leave
  <2> QED  BY <1>2, <1>6, <2>2, <2>3 DEF ReadIsDeclared
<1>7. CASE ReadDrift(r, id)
  <2> DEFINE drift == DeclaredContentHash(Table(r, id)) # part[r].hash
  <2>1. part[r].step = "drift"
    BY <1>7 DEF ReadDrift, Reading
  <2>2. CASE /\ entries' = [entries EXCEPT ![r] = Append(@,
                  Entry(req[r], id, part[r].hash, part[r].declared, drift,
                        part[r].at))]
             /\ Leave(r, id)
    <3> HIDE DEF drift, Leave
    <3> QED  BY <1>1, <2>1, <2>2, ClaimsEntry
  <2> HIDE DEF Leave
  <2> QED  BY <1>2, <1>7, <2>2 DEF ReadDrift
<1> QED  BY <1>3, <1>4, <1>5, <1>6, <1>7

LEMMA ClaimsManifest ==
  ASSUME ServedInv, ClaimsInv, NEW r \in Requests, NEW id \in RateIds,
         BuildManifest(r, id)
  PROVE  ClaimsInv'
<1> DEFINE h == HashRateTable(Table(r, id))
           c == Claim(r, RateUri(req[r].period, id), edits, h)
<1>1. pc[r] = "reading" /\ UNCHANGED <<disk, edits, req>>
  BY DEF BuildManifest, Reading, world
<1>2. CASE UNCHANGED <<todo, part, entries>>
  BY <1>1, <1>2, AllClaimsStay, NothingNew
<1>3. CASE /\ Readable(r, id)
           /\ entries' = [entries EXCEPT ![r] = Append(@,
                Entry(req[r], id, h, NoDigest, FALSE, edits))]
           /\ Leave(r, id)
  <2>1. ClaimHolds(c) /\ c.at = edits
    <3>1. c.at = edits
      BY DEF Claim
    <3> QED  BY <1>1, <1>3, <3>1, ReadHolds
  <2>2. Claims' \subseteq Claims \cup {c}
    <3> DEFINE S == Claims \cup {c}
    <3>1. /\ Claim(r, RateUri(req[r].period, id), edits, h) \in S
          /\ Claims \subseteq S
      OBVIOUS
    <3> HIDE DEF h, S, Leave
    <3>2. Claims' \subseteq S
      BY <1>1, <1>3, <3>1, EntryClaimed
    <3> QED  BY <3>2 DEF S
  <2> HIDE DEF c
  <2> QED  BY <1>1, <2>1, <2>2, OneMore
<1> HIDE DEF Leave
<1> QED  BY <1>2, <1>3 DEF BuildManifest

\* After an edit nothing said before it is of the tree as it is.
LEMMA ClaimsChange ==
  ASSUME ServedInv, ClaimsInv, NEW root \in Maintained, NEW tables,
         ChangeTree(root, tables)
  PROVE  ClaimsInv'
<1>1. /\ edits \in Nat /\ edits' = edits + 1
      /\ disk' = [disk EXCEPT ![root] = tables]
      /\ \A q \in Requests : UNCHANGED <<req[q], todo[q], part[q], entries[q]>>
  BY DEF ChangeTree, ServedInv, TypeOK
<1>2. Claims' = Claims
  BY <1>1, AllClaimsStay
<1>3. \A c \in Claims : c.at \in Int
  <2>1. \A r \in Requests : \A i \in DOMAIN entries[r] : entries[r][i].at \in Int
    <3>1. \A r \in Requests : entries[r] \in Seq(Entries)
      BY DEF ServedInv, TypeOK
    <3>2. \A r \in Requests : \A i \in DOMAIN entries[r] :
            entries[r][i] \in Entries
      BY <3>1
    <3> QED  BY <3>2 DEF Entries
  <2>2. \A r \in Requests : part[r].at \in Int
    BY DEF ServedInv, TypeOK, Parts
  <2> QED  BY <2>1, <2>2 DEF Claims, EntryClaims, PartClaims, Claim
<1>4. ASSUME NEW c \in Claims  PROVE ClaimHolds(c)'
  <2>1. /\ c.root \in Filled /\ c.root[1] = c.uri.period
        /\ c.at <= edits /\ c.at \in Int
    BY <1>3 DEF ClaimsInv, ClaimHolds
  <2>2. c.at <= edits' /\ c.at # edits'
    BY <1>1, <2>1
  <2> QED  BY <2>1, <2>2 DEF ClaimHolds
<1>5. \A any \in Roots : DOMAIN disk'[any] # {} => any \in Filled
  <2>1. root \in Filled
    BY DEF Filled
  <2>2. disk \in [Roots -> UNION {[S -> File] : S \in SUBSET RateIds}]
    BY DEF ServedInv, TypeOK, Tree
  <2> QED  BY <1>1, <2>1, <2>2 DEF ClaimsInv
<1> QED  BY <1>2, <1>4, <1>5 DEF ClaimsInv

LEMMA ClaimsNext ==
  ASSUME ServedInv, ClaimsInv, [Next]_vars
  PROVE  ClaimsInv'
<1>1. CASE UNCHANGED vars \/ StartEngine
  <2>1. /\ UNCHANGED <<disk, edits>>
        /\ \A q \in Requests : UNCHANGED <<req[q], todo[q], part[q], entries[q]>>
    BY <1>1 DEF vars, StartEngine
  <2> QED  BY <2>1, AllClaimsStay, NothingNew
<1>2. CASE Edit
  <2>1. PICK root \in Maintained : \E tables : ChangeTree(root, tables)
    BY <1>2 DEF Edit, EditTable, AnchorTable, AddTable, RemoveTable
  <2> QED  BY <2>1, ClaimsChange
<1>3. ASSUME NEW r \in Requests, Arrive(r) \/ Serve(r)  PROVE ClaimsInv'
  BY <1>3, ClaimsAside, ClaimsRead, ClaimsManifest DEF Serve
<1> QED  BY <1>1, <1>2, <1>3 DEF Next

LEMMA ClaimsInit == Init => ClaimsInv
<1> SUFFICES ASSUME Init PROVE ClaimsInv
  OBVIOUS
<1>1. Claims = {}
  BY DEF Init, Claims, EntryClaims, PartClaims, NoPart
<1>2. \A root \in Roots : DOMAIN disk[root] # {} => root \in Filled
  BY DEF Init, Filled
<1> QED  BY <1>1, <1>2 DEF ClaimsInv

-----------------------------------------------------------------------------
(* Before the first edit *)

LEMMA UneditedInit == Init => UneditedInv
BY DEF Init, UneditedInv

LEMMA UneditedNext ==
  ASSUME ServedInv, UneditedInv, [Next]_vars
  PROVE  UneditedInv'
<1>1. /\ edits \in Nat /\ used \in [Requests -> Tree]
      /\ seen \in [Requests -> SUBSET Tree]
  BY RateTablesAssumption DEF ServedInv, TypeOK
<1>2. CASE UNCHANGED vars \/ StartEngine
  BY <1>2 DEF vars, StartEngine, history, UneditedInv
<1>3. CASE Edit
  <2>1. edits' = edits + 1
    BY <1>3 DEF Edit, EditTable, AnchorTable, AddTable, RemoveTable, ChangeTree
  <2> QED  BY <1>1, <2>1 DEF UneditedInv
<1>4. ASSUME NEW r \in Requests, Arrive(r)  PROVE UneditedInv'
  <2>1. /\ UNCHANGED <<disk, edits, engine, used>>
        /\ seen' = [seen EXCEPT ![r] = {disk}]
    BY <1>4 DEF Arrive, world
  <2>2. \A q \in Requests : seen'[q] = seen[q] \/ seen'[q] = {disk}
    BY <1>1, <2>1
  <2> QED  BY <2>1, <2>2 DEF UneditedInv
<1>5. ASSUME NEW r \in Requests, EngineAnswers(r)  PROVE UneditedInv'
  <2>1. /\ UNCHANGED <<disk, edits, engine, seen>>
        /\ used' = [used EXCEPT ![r] = engine]
    BY <1>5 DEF EngineAnswers, world
  <2>2. \A q \in Requests : used'[q] = used[q] \/ used'[q] = engine
    BY <1>1, <2>1
  <2> QED  BY <2>1, <2>2 DEF UneditedInv
<1>6. ASSUME NEW r \in Requests, Serve(r), ~EngineAnswers(r)  PROVE UneditedInv'
  <2>1. UNCHANGED <<disk, edits, engine, used, seen>>
    BY <1>6 DEF Serve, Refuse, StartList, Glob, StartGet, AnswerEntries,
                AnswerCalculation, ReadText, ReadHash, ReadDeclared,
                ReadIsDeclared, ReadDrift, BuildManifest, world, history
  <2> QED  BY <2>1 DEF UneditedInv
<1> QED  BY <1>2, <1>3, <1>4, <1>5, <1>6 DEF Next

-----------------------------------------------------------------------------
(* What follows *)

\* The four parts hold together at every step of list_rates, get_rate,
\* build_manifest and wrap_response, whatever is edited meanwhile.
THEOREM Inductive == Spec => []IInv
<1>1. Init => QuietInv /\ ClaimsInv /\ UneditedInv
  BY QuietInit, ClaimsInit, UneditedInit
<1>2. ServedInv /\ QuietInv /\ ClaimsInv /\ UneditedInv /\ [Next]_vars
        => QuietInv' /\ ClaimsInv' /\ UneditedInv'
  BY QuietNext, ClaimsNext, UneditedNext
<1> QED  BY <1>1, <1>2, ServedHolds, PTL DEF Spec, IInv

\* list_rates and get_rate, left alone, give the directory, each table once and
\* in order, and report drift for exactly the tables that are stale.
THEOREM QuietAnswersAreExact == Spec => []QuietAnswerIsExact
<1>1. IInv => QuietAnswerIsExact
  <2> SUFFICES ASSUME QuietInv, NEW r \in Requests, pc[r] = "done",
                      req[r].op \in {"list", "get"}, reply[r].status = 200,
                      NEW tables \in RootsSeen(r), RootsSeen(r) = {tables}
               PROVE  /\ req[r].op = "list" =>
                           Entered(r) = DOMAIN tables /\ InDirectoryOrder(r)
                      /\ DriftIsStaleness(r, tables)
    BY DEF IInv, QuietAnswerIsExact
  <2>1. QuietSoFar(r) /\ OnTheWay(r)
    BY DEF QuietInv, OnTheWay
  <2>2. todo[r] = {}
    BY <2>1 DEF QuietSoFar
  <2> QED  BY <2>1, <2>2 DEF QuietSoFar, ListSoFar
<1> QED  BY <1>1, Inductive, PTL

\* Where the tables of a period are in one bundle, the digests that two answers
\* give of a table between two edits agree (list_rates, get_rate,
\* build_manifest).
THEOREM CitationsDoVerify == OneBundle => (Spec => []CitationsVerify)
<1> SUFFICES ASSUME OneBundle PROVE Spec => []CitationsVerify
  OBVIOUS
<1>1. IInv => CitationsVerify
  <2> SUFFICES ASSUME IInv, NEW r1 \in Requests, NEW r2 \in Requests,
                      NEW i \in DOMAIN entries[r1],
                      NEW j \in DOMAIN entries[r2],
                      entries[r1][i].uri = entries[r2][j].uri,
                      entries[r1][i].at = entries[r2][j].at
               PROVE  entries[r1][i].content_hash = entries[r2][j].content_hash
    BY DEF CitationsVerify
  <2> DEFINE e1 == entries[r1][i]
             e2 == entries[r2][j]
             c1 == Claim(r1, e1.uri, e1.at, e1.content_hash)
             c2 == Claim(r2, e2.uri, e2.at, e2.content_hash)
  <2>1. c1 \in Claims /\ c2 \in Claims
    BY DEF Claims, EntryClaims
  <2>2. /\ c1.root \in Filled /\ c1.root[1] = c1.uri.period
        /\ c2.root \in Filled /\ c2.root[1] = c2.uri.period
    BY <2>1 DEF IInv, ClaimsInv, ClaimHolds
  <2>3. c1.uri = c2.uri /\ c1.at = c2.at
    BY DEF Claim
  <2>4. c1.root = c2.root
    BY <2>2, <2>3 DEF OneBundle
  <2>5. c1.hash = c2.hash
    BY <2>1, <2>3, <2>4 DEF IInv, ClaimsInv
  <2> QED  BY <2>5 DEF Claim
<1> QED  BY <1>1, Inductive, PTL

\* build_manifest hashes the tree after the engine has answered: the disclaimer
\* is true of every figure until the tree is first edited, and after that of every
\* figure computed and cited from one and the same tree.
THEOREM FreshFiguresReflect == Spec => []FreshAnswersReflect
<1>1. ASSUME IInv, NEW r \in Requests, Calculated(r),
             edits = 0 \/ seen[r] = {used[r]}
      PROVE  FiguresRestOnCitations(r)
  <2> DEFINE root == RateTableRootFor(req[r])
  <2>1. seen[r] \subseteq {used[r]}
    BY <1>1 DEF IInv, UneditedInv
  <2>2. \A tables \in RootsSeen(r) : tables = used[r][root]
    BY <2>1 DEF RootsSeen
  <2>3. EntriesAreLive(r)
    BY <1>1 DEF IInv, ServedInv, Served
  <2> QED  BY <2>2, <2>3 DEF EntriesAreLive, Live, FiguresRestOnCitations
<1>2. IInv => FreshAnswersReflect
  BY <1>1 DEF FreshAnswersReflect
<1> QED  BY <1>2, Inductive, PTL
=============================================================================
