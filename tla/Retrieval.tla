----------------------------- MODULE Retrieval -----------------------------
(***************************************************************************)
(* The read path (internal/retrieval): a question is split into            *)
(* sub-queries, each searched by two legs whose ranks are fused; the       *)
(* candidates are pooled under reserved floors, reranked once, narrowed to *)
(* one per document and passage, and packed with what they are part of     *)
(* into one budget of bytes.                                               *)
(*                                                                         *)
(* No transaction spans a question: candidates, documents and neighbours   *)
(* are read by statements of their own, while documents are rerouted,      *)
(* processed again and deleted.  Documents are numbered in the order of    *)
(* their dates; a passage is <<document, index>>; a text is known by the   *)
(* revision of its document, 0 for none.                                   *)
(***************************************************************************)
EXTENDS Integers, Sequences, SequencesExt, FiniteSetsExt, TLC

CONSTANTS Corpus,        \* documents
          Content,       \* of each passage: its text without its spacing
          Bytes,         \* of each document: the length of its text
          Decomposed,    \* what the model may answer: a query per line
          Legs,          \* what a leg may return, best first
          VecCandidates, \* of either leg
          RRFK, RerankCandidates, MaxSubQueries, TopK,
          MinRelevanceScore,
          PoolFloorPerSubQuery, PoolFloorDenseOnly, AnswerContextBytes,
          Blank,         \* an empty line, an empty text
          MaxChanges     \* bound on changes to the corpus

ASSUME RetrievalAssumption ==
    /\ {VecCandidates, RRFK, RerankCandidates, MaxSubQueries, TopK} \subseteq Nat \ {0}
    /\ {PoolFloorPerSubQuery, PoolFloorDenseOnly, AnswerContextBytes, MaxChanges} \subseteq Nat
    /\ MinRelevanceScore \in Int
    /\ Corpus \subseteq Nat \ {0}

VARIABLES corpus,    \* of each document: its status, text and revisions
          placed,    \* document_placements: <<container, contained>>
          parent,    \* parent_doc_id: the first container, 0 for none
          query,     \* the question under way
          changes,
          touched    \* history: documents changed since it was asked

retrievalVars == <<corpus, placed, parent, query, changes, touched>>

Known == {d \in Corpus : corpus[d].status # "gone"}
Permuted(n) == {f \in [1..n -> 1..n] : \A i, j \in 1..n : f[i] = f[j] => i = j}

NotAsked == [at |-> "asked", subs |-> <<>>, groups |-> <<>>, ranked |-> <<>>,
             packets |-> <<>>, left |-> AnswerContextBytes, warnings |-> {}]

\* A corpus with the containment of `tree', some of it pending.
RetrievalInit(tree) ==
    /\ parent = tree.parent /\ placed = tree.placed
    /\ corpus = [d \in Corpus |->
          [status |-> IF d \in tree.pending THEN "PENDING" ELSE "COMPLETED",
           text |-> IF d \in tree.pending THEN tree.text ELSE 1, revision |-> 1]]
    /\ query = NotAsked /\ changes = 0 /\ touched = {}

-----------------------------------------------------------------------------
(* Preparation: decompose, dedupeQueries.                                  *)

DedupeQueries(lines) ==
    FoldLeft(LAMBDA out, q : IF q = Blank \/ Contains(out, q) \/ Len(out) = MaxSubQueries
                             THEN out ELSE Append(out, q), <<>>, lines)

-----------------------------------------------------------------------------
(* Fusion: a passage found by one leg or both, by reciprocal rank.         *)

First(s, n) == SubSeq(s, 1, Min({n, Len(s)}))
RankIn(leg, p) == IF Contains(leg, p) THEN CHOOSE i \in 1..Len(leg) : leg[i] = p ELSE 0

\* 1 / (k + rank), over a common denominator.
Shares == [rank \in 1..VecCandidates |->
              ProductSet({RRFK + i : i \in 1..VecCandidates} \ {RRFK + rank})]
Share(rank) == IF rank = 0 THEN 0 ELSE Shares[rank]
RRF(c) == Share(c.dense) + Share(c.lex)

Candidate(p, dense, lexical, sub) ==
    [passage |-> p, text |-> corpus[p[1]].text, dense |-> RankIn(dense, p),
     lex |-> RankIn(lexical, p), sub |-> sub]

\* Equal scores come in either order.
Fused(dense, lexical, sub) ==
    LET found == dense \o SelectSeq(lexical, LAMBDA p : ~Contains(dense, p))
        cs == [i \in DOMAIN found |-> Candidate(found[i], dense, lexical, sub)]
        before(a, b, tie) == \/ RRF(a) > RRF(b)
                             \/ RRF(a) = RRF(b) /\ tie = (a.dense < b.dense)
    IN {First(SortSeq(cs, LAMBDA a, b : before(a, b, tie)), RerankCandidates) : tie \in BOOLEAN}

-----------------------------------------------------------------------------
(* The pool: floors are reserved before the rest fills by score.           *)

TakeUpTo(pool, cs, limit) ==
    FoldLeft(LAMBDA got, c :
                 IF Len(got) >= limit \/ \E i \in 1..Len(got) : got[i].passage = c.passage
                 THEN got ELSE Append(got, c), pool, cs)

PerSubQuery(groups) ==
    IF Len(groups) = 1 THEN <<>>
    ELSE FoldLeft(LAMBDA got, g : TakeUpTo(got, First(g, PoolFloorPerSubQuery), RerankCandidates),
                  <<>>, groups)

DenseFloor(pool, cs) ==
    TakeUpTo(pool, cs, Min({RerankCandidates, Len(pool) + PoolFloorDenseOnly}))

DenseOnly(c) == c.dense > 0 /\ c.lex = 0
FloorsReserved(groups) ==
    DenseFloor(PerSubQuery(groups), SelectSeq(FlattenSeq(groups), DenseOnly))
\* Stable: of equal scores the earlier one first.
ByScore(cs) ==
    LET sorted == SortSeq([i \in DOMAIN cs |-> i], LAMBDA i, j :
                      RRF(cs[i]) > RRF(cs[j]) \/ (RRF(cs[i]) = RRF(cs[j]) /\ i < j))
    IN [i \in DOMAIN cs |-> cs[sorted[i]]]
PoolCandidates(groups) ==
    TakeUpTo(FloorsReserved(groups), ByScore(FlattenSeq(groups)), RerankCandidates)
Floored(groups) ==
    FloorsReserved(groups) # <<>> /\ Len(PoolCandidates(groups)) = RerankCandidates

-----------------------------------------------------------------------------
(* Selection, of a ranking without what is below the relevance floor: one  *)
(* match per document and per passage.                                     *)

Repeats(p, q) == Content[p] # Blank /\ Content[p] = Content[q]

\* Mutant: documents are told apart, what they say is not.
SelectDocuments(ranked) ==
    FoldLeft(LAMBDA got, r :
                 IF \/ Len(got) >= TopK
                    \/ \E i \in 1..Len(got) : got[i].passage[1] = r.passage[1]
                 THEN got ELSE Append(got, r), <<>>, ranked)

SelectPackets(ranked) ==
    FoldLeft(LAMBDA got, r :
                 IF \/ Len(got) >= TopK
                    \/ \E i \in 1..Len(got) :
                           \/ got[i].passage[1] = r.passage[1]
                           \/ Repeats(r.passage, got[i].passage)
                 THEN got ELSE Append(got, r), <<>>, ranked)

-----------------------------------------------------------------------------
(* Packets: what was matched, then what it is part of.                     *)

Packet(c) ==
    [doc |-> c.passage[1], passage |-> c.passage, match |-> c.text, parent |-> parent[c.passage[1]],
     has |-> corpus[c.passage[1]].text, text |-> 0, related |-> <<>>]

\* budgeter.take: the text, if it fits in what is left.
FitsBudget(d, left) == corpus[d].text = 0 \/ Bytes[d] <= left
Cost(d) == IF corpus[d].text = 0 THEN 0 ELSE Bytes[d]
Taken(d, left) == IF FitsBudget(d, left) THEN [text |-> corpus[d].text, left |-> left - Cost(d)]
                                    ELSE [text |-> 0, left |-> left]

\* neighbourSQL.
ContainersOf(M) == ({c \in Corpus : \E m \in M : <<c, m>> \in placed}
                       \union {parent[m] : m \in M}) \ {0}
ContainedIn(M) == {x \in Corpus : parent[x] \in M \/ \E m \in M : <<m, x>> \in placed}
RelationOf(M, x) == IF x \in ContainersOf(M) THEN "parent"
                  ELSE IF x \in ContainedIn(M) THEN "attachment" ELSE "sibling-attachment"
Neighbours(M) ==
    {x \in (ContainersOf(M) \union ContainedIn(M) \union ContainedIn(ContainersOf(M))) \ M :
        corpus[x].status = "COMPLETED"}

\* The first packet a neighbour relates to, 0 for none.
Owns(p, x, relation) ==
    CASE relation = "parent" -> p.parent = x
      [] relation = "attachment" -> parent[x] = p.doc
      [] OTHER -> p.parent # 0 /\ p.parent = parent[x]
OwnerOf(packets, x, relation) ==
    LET owners == {i \in 1..Len(packets) : Owns(packets[i], x, relation)}
    IN IF owners = {} THEN 0 ELSE Min(owners)

\* Every packet is offered its own text before any is offered a neighbour's.
Filled(packets, left) ==
    FoldLeft(LAMBDA acc, p :
                 LET t == Taken(p.doc, acc.left)
                 IN [packets |-> Append(acc.packets, [p EXCEPT !.text = t.text]),
                     left |-> t.left],
             [packets |-> <<>>, left |-> left], packets)

Attach(acc, x, relation) ==
    LET t == Taken(x, acc.left)
        i == OwnerOf(acc.packets, x, relation)
    IN IF i = 0 THEN acc
       ELSE [packets |-> [acc.packets EXCEPT ![i].related =
                             Append(@, [doc |-> x, relation |-> relation, has |-> corpus[x].text,
                                        text |-> t.text])],
             left |-> t.left]
InDateOrder == SetToSortSeq(Corpus, <)
Related(packets, left) ==
    LET M == {packets[i].doc : i \in DOMAIN packets} \intersect Known
        N == Neighbours(M)
        of(relation) == SelectSeq(InDateOrder, LAMBDA x : x \in N /\ RelationOf(M, x) = relation)
        attached(acc, relation) ==
            FoldLeft(LAMBDA a, x : Attach(a, x, relation), acc, of(relation))
    IN FoldLeft(attached, [packets |-> packets, left |-> left],
                <<"parent", "attachment", "sibling-attachment">>)

-----------------------------------------------------------------------------
(* The question.                                                           *)

Warned(w) == query.warnings \union w
When(condition, warning) == IF condition THEN {warning} ELSE {}

Decompose(lines) ==
    /\ query.at = "asked"
    /\ LET subs == DedupeQueries(lines)
       IN query' = [query EXCEPT !.at = "searching",
              !.subs = IF subs = <<>> THEN <<"the question">> ELSE subs,
              !.warnings = Warned(When(subs = <<>>, "decomposition_unavailable"))]
    /\ touched' = {}
    /\ UNCHANGED <<corpus, placed, parent, changes>>

\* The two legs return passages that are indexed now.
Fuse(dense, lexical) ==
    /\ query.at = "searching"
    /\ Len(query.groups) < Len(query.subs)
    /\ LET indexed(p) == corpus[p[1]].status = "COMPLETED"
           cut(leg) == First(SelectSeq(leg, indexed), VecCandidates)
       IN \E g \in Fused(cut(dense), cut(lexical), Len(query.groups) + 1) :
              query' = [query EXCEPT !.groups = Append(@, g),
                  !.warnings = Warned(When(/\ Len(cut(dense)) < VecCandidates
                                           /\ Len(g) < RerankCandidates, "dense_leg_underfill"))]
    /\ UNCHANGED <<corpus, placed, parent, changes, touched>>

\* The embedding endpoint or the database fails.
FailQuery ==
    /\ query.at \in {"searching", "selected", "loaded"}
    /\ query' = [NotAsked EXCEPT !.at = "failed"]
    /\ UNCHANGED <<corpus, placed, parent, changes, touched>>

Searched == query.at = "searching" /\ Len(query.groups) = Len(query.subs)

\* The candidates at or above the floor, in the order of the ranking, and whether
\* there were others.
Ranked(order, floored, w) ==
    LET pool == PoolCandidates(query.groups)
        ranked == [i \in DOMAIN order |-> pool[order[i]]]
    IN query' = [query EXCEPT !.at = "selected", !.groups = <<>>, !.ranked = ranked,
           !.warnings = Warned(w
               \union When(Floored(query.groups), "pool_floor_applied")
               \union When(floored /\ Len(SelectPackets(ranked)) < TopK,
                           "relevance_floor_applied"))]
PoolSize == Len(PoolCandidates(query.groups))

\* The answer may leave candidates out and name one twice; only its indexes are
\* checked.
Rerank ==
    /\ Searched /\ PoolSize > 0
    /\ \E n \in 0..PoolSize, floored \in BOOLEAN : \E order \in [1..n -> 1..PoolSize] :
          Ranked(order, floored, {})
    /\ UNCHANGED <<corpus, placed, parent, changes, touched>>

\* No reranker is asked, or it fails: the pool as it is, all scores zero.
Fallback ==
    /\ Searched
    /\ \E w \in {{}} \union (IF PoolSize = 0 THEN {} ELSE {{"reranker_unavailable"}}) :
          LET relevant == IF 0 < MinRelevanceScore THEN 0 ELSE PoolSize
          IN Ranked([i \in 1..relevant |-> i], relevant < PoolSize, w)
    /\ UNCHANGED <<corpus, placed, parent, changes, touched>>

LoadDocuments ==
    /\ query.at = "selected"
    /\ LET picked == SelectPackets(query.ranked)
           known == SelectSeq(picked, LAMBDA c : c.passage[1] \in Known)
           filled == Filled([i \in DOMAIN known |-> Packet(known[i])], AnswerContextBytes)
       IN query' = [query EXCEPT !.at = "loaded", !.ranked = <<>>,
              !.packets = filled.packets, !.left = filled.left]
    /\ UNCHANGED <<corpus, placed, parent, changes, touched>>

Omitted(e) == e.has # 0 /\ e.text = 0
LoadNeighbours ==
    /\ query.at = "loaded"
    /\ LET answer == Related(query.packets, query.left)
       IN query' = [query EXCEPT !.at = "answered", !.packets = answer.packets,
              !.left = answer.left,
              !.warnings = Warned(When(\E i \in DOMAIN answer.packets :
                  LET p == answer.packets[i]
                  IN Omitted(p) \/ \E j \in DOMAIN p.related : Omitted(p.related[j]),
                  "budget_truncated"))]
    /\ UNCHANGED <<corpus, placed, parent, changes, touched>>

-----------------------------------------------------------------------------
(* Meanwhile, in the corpus.                                               *)

Change(d, row) ==
    /\ changes < MaxChanges
    /\ changes' = changes + 1
    /\ corpus' = [corpus EXCEPT ![d] = row]
    /\ touched' = touched \union {d}
    /\ UNCHANGED query

Reroute(d) ==
    /\ corpus[d].status = "COMPLETED"
    /\ Change(d, [corpus[d] EXCEPT !.status = "PENDING", !.text = 0])
    /\ UNCHANGED <<placed, parent>>
SaveText(d) ==
    /\ corpus[d].status = "PENDING" /\ corpus[d].text = 0
    /\ Change(d, [corpus[d] EXCEPT !.text = @ + corpus[d].revision + 1,
                                   !.revision = @ + 1])
    /\ UNCHANGED <<placed, parent>>
Index(d) ==
    /\ corpus[d].status = "PENDING" /\ corpus[d].text # 0
    /\ Change(d, [corpus[d] EXCEPT !.status = "COMPLETED"])
    /\ UNCHANGED <<placed, parent>>
\* A document that contains nothing goes; what goes with a container is
\* modelled in Library.
DropDocument(d) ==
    /\ d \in Known /\ ContainedIn({d}) = {}
    /\ Change(d, [corpus[d] EXCEPT !.status = "gone", !.text = 0])
    /\ placed' = {e \in placed : e[2] # d}
    /\ parent' = [parent EXCEPT ![d] = 0]

RetrievalNext ==
    \/ \E lines \in Decomposed : Decompose(lines)
    \/ \E dense \in Legs \ {<<>>}, lexical \in Legs : Fuse(dense, lexical)
    \/ Rerank \/ Fallback \/ LoadDocuments \/ LoadNeighbours \/ FailQuery
    \/ \E d \in Corpus : Reroute(d) \/ SaveText(d) \/ Index(d) \/ DropDocument(d)

-----------------------------------------------------------------------------
(* Properties.                                                             *)

\* The pool is a fair window: within its bound and without repeats, it holds
\* the best of every sub-query and of what only the dense leg found wherever
\* the floors have room, and nothing outside it outscores what score alone
\* brought in.
PoolIsFair ==
    LET pool == PoolCandidates(query.groups)
        at(p) == {i \in DOMAIN pool : pool[i].passage = p}
        all == {query.groups[i][j] : <<i, j>> \in
                   {ij \in (DOMAIN query.groups) \X (1..RerankCandidates) :
                       ij[2] <= Len(query.groups[ij[1]])}}
        reserved == PoolFloorPerSubQuery * (IF Len(query.groups) = 1 THEN 0 ELSE Len(query.groups))
    IN Searched =>
       /\ Len(pool) <= RerankCandidates
       /\ \A c \in all : Cardinality(at(c.passage)) <= 1
       /\ Len(pool) < RerankCandidates => \A c \in all : at(c.passage) # {}
       /\ reserved <= RerankCandidates /\ Len(query.groups) > 1 =>
             \A i \in DOMAIN query.groups :
                 \A c \in ToSet(First(query.groups[i], PoolFloorPerSubQuery)) : at(c.passage) # {}
       /\ reserved + PoolFloorDenseOnly <= RerankCandidates =>
             LET only == {c.passage : c \in {d \in all : DenseOnly(d)}}
             IN Cardinality({p \in only : at(p) # {}})
                   >= Min({PoolFloorDenseOnly, Cardinality(only)})
       /\ \A c \in all : at(c.passage) = {} =>
             \A i \in DOMAIN pool : RRF(pool[i]) >= RRF(c) \/ i <= Len(FloorsReserved(query.groups))

Parts(p) == {p.doc} \union {p.related[j].doc : j \in DOMAIN p.related}
\* A document is in an answer once, as a match or as what one of them is part of,
\* and no two matches are the same passage, whatever other documents hold it
\* (selectPackets, buildPackets).
NothingTwice ==
    query.at \in {"loaded", "answered"} =>
        \A i, j \in DOMAIN query.packets : i # j =>
            /\ Parts(query.packets[i]) \intersect Parts(query.packets[j]) = {}
            /\ ~Repeats(query.packets[i].passage, query.packets[j].passage)

\* The pool is a fair window, and the answer keeps to its budget: what is left is
\* what the texts leave of it, and no match goes without its own text for the
\* sake of a neighbour's (budgeter: "every packet gets its matched text before
\* any packet gets a neighbour").  Nothing is in it twice (NothingTwice).
AnswerSound ==
    LET packets == query.packets
        shown(e) == IF e.text = 0 THEN 0 ELSE Bytes[e.doc]
        before(i) == MapThenSumSet(LAMBDA j : shown(packets[j]), 1..(i - 1))
        own(i) == shown(packets[i])
                  + MapThenSumSet(LAMBDA j : shown(packets[i].related[j]), DOMAIN packets[i].related)
    IN
    /\ PoolIsFair /\ NothingTwice
    /\ query.at \in {"loaded", "answered"} =>
       /\ query.left = AnswerContextBytes - MapThenSumSet(own, DOMAIN packets)
       /\ query.left >= 0
       /\ \A i \in DOMAIN packets : Omitted(packets[i]) =>
              before(i) + Bytes[packets[i].doc] > AnswerContextBytes

\* What is quoted of a matched document is of the revision that the packet cites:
\* "Returned candidate text is sliced from the owning normalized document", and
\* "the source hash and extraction hash identify the cited revision"
\* (docs/retrieval-design.md).
OneRevision ==
    query.at = "answered" =>
        \A i \in DOMAIN query.packets :
            query.packets[i].has # 0 => query.packets[i].match = query.packets[i].has

\* "parent_doc_id alone is insufficient: ... an attachment carried by two
\* emails has one parent ... and its second containment exists only as a
\* placement" (docs/retrieval-design.md): what is recorded to hold a matched
\* document, while nothing changed, is in the answer.
ContainersShown ==
    query.at = "answered" /\ touched = {} =>
        \A i \in DOMAIN query.packets :
            ContainersOf({query.packets[i].doc}) \subseteq
                UNION {Parts(query.packets[j]) : j \in DOMAIN query.packets}
=====
