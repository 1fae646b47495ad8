------------------------------- MODULE Crawl -------------------------------
(***************************************************************************)
(* Watcher.crawl (cmd/watcher.go): ask every known node for its            *)
(* neighbors, until no node is left to ask.  neighbors adds to the map     *)
(* that crawl is ranging over, and such an iteration may or may not come   *)
(* to what was added meanwhile.                                            *)
(*                                                                         *)
(* Path, which only the log shows, is left out.                            *)
(***************************************************************************)
EXTENDS Integers, FiniteSets

CONSTANTS
  Ids,         \* nodes of the mesh
  MaxCrawls    \* bound on the number of crawls

ASSUME CrawlAssumption == IsFiniteSet(Ids) /\ MaxCrawls \in Nat

VARIABLES
  nodes,    \* [Ids -> "unknown" | [dirty, New]]: wa.nodes
  cpc,      \* where crawl is
  range,    \* the entries that the inner loop may still come to
  more,
  crawls,   \* crawls started
  before,   \* history: what was known when this crawl started
  told,     \* history: the nodes that this crawl was told of
  asked     \* history: how often this crawl asked each node

crawlState == <<nodes, cpc, range, more, crawls, before, told, asked>>

Known    == {n \in Ids : nodes[n].known}
Absent   == [known |-> FALSE, dirty |-> FALSE, New |-> FALSE]

InitCrawl ==
  /\ nodes = [n \in Ids |-> Absent]
  /\ cpc = "idle"
  /\ range = {} /\ more = FALSE /\ crawls = 0
  /\ before = {} /\ told = {} /\ asked = [n \in Ids |-> 0]

\* crawl: everything known is dirty and old.
Crawl ==
  /\ cpc = "idle" /\ crawls < MaxCrawls
  /\ nodes' = [n \in Ids |-> [nodes[n] EXCEPT !.dirty = nodes[n].known, !.New = FALSE]]
  /\ cpc' = "local" /\ crawls' = crawls + 1
  /\ before' = Known /\ told' = {} /\ asked' = [n \in Ids |-> 0]
  /\ UNCHANGED <<range, more>>

\* neighbors: the unknown ones among found are added.  A request that fails, an
\* answer other than 200 and a body that does not parse find nothing.
neighbors(tbl, found) ==
  [n \in Ids |-> IF n \in found /\ ~tbl[n].known
                 THEN [known |-> TRUE, dirty |-> TRUE, New |-> TRUE] ELSE tbl[n]]

AskLocal ==
  /\ cpc = "local"
  /\ \E found \in SUBSET Ids : nodes' = neighbors(nodes, found) /\ told' = found
  /\ cpc' = "loop" /\ more' = TRUE
  /\ UNCHANGED <<range, crawls, before, asked>>

\* for more: one pass over the map starts.
Pass ==
  /\ cpc = "loop" /\ more
  /\ more' = FALSE /\ range' = Known /\ cpc' = "range"
  /\ UNCHANGED <<nodes, crawls, before, told, asked>>

\* Mutant: a node that does not answer stays dirty, to be asked again.
AskAgain(n) ==
  /\ cpc = "range" /\ n \in range /\ nodes[n].dirty
  /\ more' = TRUE
  /\ range' = range \ {n}
  /\ asked' = asked
  /\ UNCHANGED <<nodes, cpc, crawls, before, told>>

\* The range comes to a dirty node, which is asked.
Ask(n) ==
  /\ cpc = "range" /\ n \in range /\ nodes[n].dirty
  /\ more' = TRUE
  /\ \E found \in SUBSET Ids :
       LET tbl == neighbors(nodes, found)
           added == {k \in Ids : tbl[k].known} \ Known
       IN  /\ nodes' = [tbl EXCEPT ![n].dirty = FALSE]
           /\ \E seen \in SUBSET added : range' = (range \ {n}) \cup seen
           /\ told' = told \cup found
  /\ asked' = [asked EXCEPT ![n] = @ + 1]
  /\ UNCHANGED <<cpc, crawls, before>>

Skip(n) ==
  /\ cpc = "range" /\ n \in range /\ ~nodes[n].dirty
  /\ range' = range \ {n}
  /\ UNCHANGED <<nodes, cpc, more, crawls, before, told, asked>>

PassEnds ==
  /\ cpc = "range" /\ range = {}
  /\ cpc' = "loop"
  /\ UNCHANGED <<nodes, range, more, crawls, before, told, asked>>

\* No pass found a dirty node: crawl returns.
CrawlReturns ==
  /\ cpc = "loop" /\ ~more
  /\ cpc' = "idle"
  /\ UNCHANGED <<nodes, range, more, crawls, before, told, asked>>

Crawling == AskLocal \/ Pass \/ PassEnds \/ CrawlReturns \/ \E n \in Ids : Ask(n) \/ Skip(n)

NextCrawl == Crawl \/ Crawling

SpecCrawl == InitCrawl /\ [][NextCrawl]_crawlState

-----------------------------------------------------------------------------
CrawlTypeOK ==
  /\ nodes \in [Ids -> [known : BOOLEAN, dirty : BOOLEAN, New : BOOLEAN]]
  /\ cpc \in {"idle", "local", "loop", "range"}
  /\ range \subseteq Known /\ more \in BOOLEAN
  /\ \A n \in Ids : ~nodes[n].known => nodes[n] = Absent

\* "repeat until all nodes are !dirty; at the end, the set of nodes that are new
\* will be marked as New" (crawl): wherever the iteration went, a crawl that has ended has
\* asked every node in the table once, also those it learned of last, knows every node it
\* was told of, and marked exactly the new ones.
CrawlComplete ==
  cpc = "idle" /\ crawls > 0 =>
    /\ Known = before \cup told
    /\ \A n \in Known : asked[n] = 1 /\ ~nodes[n].dirty
    /\ {n \in Known : nodes[n].New} = Known \ before

\* And it comes to an end, though every answer may add nodes and so another pass.
CrawlEnds == []CrawlComplete /\ ((cpc # "idle") ~> (cpc = "idle"))
=============================================================================
