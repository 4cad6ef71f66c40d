------------------------ MODULE RateTablesInvariant ------------------------
(***************************************************************************)
(* The inductive invariant of the rate tables while they are served, in    *)
(* four parts: what was read (ServedInv), what an answer that no edit met  *)
(* holds so far (QuietInv), what is said of each table at each of the      *)
(* tree's edits (ClaimsInv), and that before the first of them there is    *)
(* one tree only (UneditedInv).  The later parts rest on the first.        *)
(***************************************************************************)
EXTENDS RateTables

\* A request has nothing before it arrives, and no reply before it is done; the
\* tree it meets is among those it has seen.
Phases(r) ==
  /\ pc[r] = "idle" => req[r] = NoRequest
  /\ pc[r] # "idle" => req[r] \in Kinds
  /\ pc[r] \in {"idle", "start", "glob"} =>
       entries[r] = <<>> /\ part[r] = NoPart /\ todo[r] = {}
  /\ pc[r] # "done" => reply[r] = NoReply
  /\ pc[r] \in {"start", "glob", "reading"} => disk \in seen[r]
  /\ pc[r] \in {"glob", "reading"} => RateTableRootFor(req[r]) \in Roots

\* What a rate route has still to read was there when it was found.
TodoWasThere(r) ==
  pc[r] = "reading" /\ req[r].op # "calc" =>
    \A id \in todo[r] : \E tables \in RootsSeen(r) : id \in DOMAIN tables

\* The digest of the entry being made is that of the table in turn.
PartIsLive(r) ==
  pc[r] = "reading" /\ part[r].step \in {"declared", "is_declared", "drift"} =>
    \A id \in todo[r] : InTurn(r, id) => Live(r, id, part[r].hash)

Served(r) ==
  /\ Phases(r) /\ TodoWasThere(r) /\ PartIsLive(r) /\ EntriesAreLive(r)
  /\ reply[r] = Bare500 => Cause(r)
  /\ Calculated(r) => Fits(r, reply[r].advisory)

ServedInv == TypeOK /\ \A r \in Requests : Served(r)

\* A rate route that is on the way to its answer, or has given it.
OnTheWay(r) ==
  /\ req[r].op \in {"list", "get"}
  /\ \/ pc[r] = "reading"
     \/ pc[r] = "done" /\ reply[r].status = 200

\* The directory falls into what was entered, in order, and what is to come.
ListSoFar(r, tables) ==
  /\ InDirectoryOrder(r)
  /\ Entered(r) \cup todo[r] = DOMAIN tables
  /\ \A a \in Entered(r), b \in todo[r] : a # b /\ Precedes(a, b)

\* list_rates reads a table a fourth time when it declares a hash.
DriftIsAsked(r, tables) ==
  part[r].step = "drift" =>
    \A id \in todo[r] : InTurn(r, id) =>
      DeclaredContentHash(tables[id]) # NoDigest

\* What is exact in the end is exact so far.
QuietSoFar(r) ==
  OnTheWay(r) =>
    /\ pc[r] = "done" => todo[r] = {}
    /\ \A tables \in RootsSeen(r) : RootsSeen(r) = {tables} =>
         /\ req[r].op = "list" => ListSoFar(r, tables)
         /\ DriftIsStaleness(r, tables)
         /\ DriftIsAsked(r, tables)

QuietInv == \A r \in Requests : QuietSoFar(r)

\* What r says, or is about to say, of a table: its digest at an edit.
Claim(r, uri, at, hash) ==
  [root |-> RateTableRootFor(req[r]), uri |-> uri, at |-> at, hash |-> hash]

EntryClaims(r) ==
  {Claim(r, entries[r][i].uri, entries[r][i].at, entries[r][i].content_hash) :
     i \in DOMAIN entries[r]}

PartClaims(r) ==
  IF part[r].step \in {"declared", "is_declared", "drift"}
  THEN {Claim(r, RateUri(req[r].period, id), part[r].at, part[r].hash) :
          id \in {i \in todo[r] : InTurn(r, i)}}
  ELSE {}

Claims == UNION {EntryClaims(r) \cup PartClaims(r) : r \in Requests}

\* The roots that have a table at some time.
Filled ==
  Maintained \cup
  {root \in Roots : \E tree \in Trees : DOMAIN tree[root] # {}}

\* A claim made since the last edit is true of the tree as it is.
ClaimHolds(c) ==
  /\ c.root \in Filled /\ c.root[1] = c.uri.period /\ c.at <= edits
  /\ c.at = edits =>
       c.uri.rate \in DOMAIN disk[c.root]
       /\ c.hash = CanonicalDigest(disk[c.root][c.uri.rate])

\* Two claims of one table at one edit are the same.
ClaimsInv ==
  /\ \A root \in Roots : DOMAIN disk[root] # {} => root \in Filled
  /\ \A c \in Claims : ClaimHolds(c)
  /\ \A c, d \in Claims :
       c.root = d.root /\ c.uri = d.uri /\ c.at = d.at => c.hash = d.hash

UneditedInv ==
  edits = 0 =>
    engine = disk /\ \A r \in Requests : used[r] = disk /\ seen[r] \subseteq {disk}

IInv == ServedInv /\ QuietInv /\ ClaimsInv /\ UneditedInv

\* A URI names no taxonomy, so it names a table only where the tables of a
\* period are in one bundle, as they are in the repository: hoffman_base is
\* ratified and holds a README.md only (rate_table_resolver.py:17-24).
OneBundle ==
  \A s, t \in Filled : s[1] = t[1] => s = t

\* Every table cited is one the engine computed with, and its digest is that of
\* the text the engine read.
FiguresRestOnCitations(r) ==
  LET tables == used[r][RateTableRootFor(req[r])]
  IN  \A i \in DOMAIN entries[r] :
        /\ entries[r][i].uri.rate \in DOMAIN tables
        /\ entries[r][i].content_hash = CanonicalDigest(tables[entries[r][i].uri.rate])

\* A calculator's figures rest on the tables its manifest cites as long as the
\* tree is the one that was deployed, and later for every answer during which the
\* tree was the one the engine had read. Any other answer may cite tables no
\* figure in it rests on.
FreshAnswersReflect ==
  \A r \in Requests :
    Calculated(r) /\ (edits = 0 \/ seen[r] = {used[r]}) => FiguresRestOnCitations(r)
=============================================================================
