------------------------------ MODULE Listings ------------------------------
(***************************************************************************)
(* The list endpoints, and a client that walks through the pages of one    *)
(* while the background processes add documents to its collection.         *)
(*                                                                         *)
(* A document is [id, at, owner, kind, tag]: at is what it is sorted by,   *)
(* tag its transaction hash or its token.  A request is                    *)
(* [owner, kinds, tag, from, to, sort, page, offset, limit]; what it does  *)
(* not give is "" (owner, tag, sort), {} or 0.  Addresses are lower-cased, *)
(* or made raw, in the request as in the document.                         *)
(* The rows and their total are two queries that run side by side.         *)
(***************************************************************************)
EXTENDS Integers, FiniteSets

CONSTANTS
    Docs,     \* bound: the documents that may ever be stored
    Requests  \* bound: the first requests of a walk

ListDocuments == [id: Nat, at: Nat, owner: STRING, kind: STRING, tag: STRING]

ListRequests ==
    [owner: STRING, kinds: SUBSET STRING, tag: STRING, from: Nat, to: Nat, sort: STRING,
     page: Nat, offset: Nat, limit: Nat]

\* A walk begins with the first page.
ASSUME ListAssumption ==
    /\ Docs \subseteq ListDocuments /\ IsFiniteSet(Docs)
    /\ Requests \subseteq ListRequests
    /\ \A r \in Requests : r.page <= 1 /\ r.offset = 0

Colls == {"events", "ton", "notifications", "contributions", "liquidity", "logs"}

VARIABLES
    coll,    \* the collection looked at
    stored,  \* its documents
    read,    \* notifications marked as read
    pc,      \* the client: "idle", "ask", "found", "counted", "both", "end"
    query,   \* its request
    total,   \* the total of the answer
    seen,    \* what the walk has shown so far
    start,   \* ghost: stored when the walk began
    torn     \* ghost: a document came between the two queries of a request

listVars == <<coll, stored, read, pc, query, total, seen, start, torn>>

\* PaginationQueryDto and PaginationQueryOffsetDto: what passes validation.
PageQuery(q)   == q.page >= 1 /\ q.limit <= 50
OffsetQuery(q) == q.offset >= 0 /\ q.limit <= 50

\* Mutant: pages counted from nought.
Skip_FromZero(q) == q.page * q.limit

\* PaginationQueryPipeTransform: skip stays 0 when there is no limit.
Skip(q) == IF q.limit # 0 /\ q.page # 0 THEN (q.page - 1) * q.limit ELSE 0

Listing(rows, skip, limit, order) ==
    [rows |-> rows, skip |-> skip, limit |-> limit, order |-> order]

Owned(q, d)  == q.owner # "" => d.owner = q.owner
OfKind(q, d) == q.kinds # {} => d.kind \in q.kinds
Tagged(q, d) == q.tag # "" => d.tag = q.tag

\* An end of the period that is 0 counts as not given.
Within(q, d) ==
    /\ q.from # 0 => q.from <= d.at
    /\ q.to # 0 => d.at <= q.to

Order(q) == IF q.sort = "" THEN "desc" ELSE q.sort

-----------------------------------------------------------------------------
(* The endpoints, over the documents S of their collection; before each,    *)
(* what its DTO lets through: a field it does not have is not given.        *)

Undated(q) == q.from = 0 /\ q.to = 0
Dated(q)   == q.from >= 0 /\ q.to >= 0

EventLogQuery(q) == PageQuery(q) /\ Undated(q)

EventLogs(q, S) ==
    Listing({d \in S : OfKind(q, d) /\ Tagged(q, d) /\ Owned(q, d)},
            (q.page - 1) * q.limit, q.limit, Order(q))

\* The order is fixed.
TonQuery(q) == PageQuery(q) /\ Undated(q) /\ q.sort = ""

TonTransactions(q, S) ==
    Listing({d \in S : Owned(q, d) /\ Tagged(q, d) /\ OfKind(q, d)},
            Skip(q), q.limit, "desc")

\* The owner is the session's wallet.
NotificationQuery(q) == OffsetQuery(q) /\ q.owner # "" /\ q.tag = "" /\ Undated(q)

Notifications(q, S) ==
    Listing({d \in S : Owned(q, d) /\ OfKind(q, d)}, q.offset, q.limit, Order(q))

ContributionQuery(q) == PageQuery(q) /\ Dated(q) /\ q.kinds = {} /\ q.tag = ""

Contributions(q, S) ==
    Listing({d \in S : Owned(q, d) /\ Within(q, d)},
            (q.page - 1) * q.limit, q.limit, Order(q))

LiquidityQuery(q) == PageQuery(q) /\ Dated(q)

LiquiditySupports(q, S) ==
    Listing({d \in S : Owned(q, d) /\ Tagged(q, d) /\ OfKind(q, d) /\ Within(q, d)},
            Skip(q), q.limit, Order(q))

\* The DTO checks neither page nor limit: without both, everything, and
\* in no order unless one is asked for.
LogQuery(q) == q.tag = "" /\ Undated(q)

TransactionLogs(q, S) ==
    LET rows == {d \in S : OfKind(q, d) /\ Owned(q, d)}
    IN  IF q.page # 0 /\ q.limit # 0
          THEN Listing(rows, (q.page - 1) * q.limit, q.limit, q.sort)
          ELSE Listing(rows, 0, 0, q.sort)

-----------------------------------------------------------------------------
(* MongoDB: find with skip, limit and sort.                                 *)

Before(d, e, order) ==
    \/ order = "desc" /\ d.at > e.at
    \/ order = "asc" /\ d.at < e.at

Peers(d, S, order) == {e \in S : ~Before(d, e, order) /\ ~Before(e, d, order)}

\* How many of the places a+1 .. a+n lie in the window.
InWindow(a, n, list) ==
    LET lo == IF a < list.skip THEN list.skip ELSE a
        hi == IF list.limit # 0 /\ list.skip + list.limit < a + n
                THEN list.skip + list.limit ELSE a + n
    IN  IF lo < hi THEN hi - lo ELSE 0

\* Documents that sort alike come in any order, and in another order for the
\* next page; a limit of 0 is none.
IsPage(page, list) ==
    /\ page \subseteq list.rows
    /\ \A d \in list.rows :
          LET peers == Peers(d, list.rows, list.order)
              first == Cardinality({e \in list.rows : Before(e, d, list.order)})
          IN  Cardinality(page \cap peers) = InWindow(first, Cardinality(peers), list)

-----------------------------------------------------------------------------
(* The collection and the client.                                           *)

Allowed(r) ==
    /\ coll = "events"        => EventLogQuery(r)
    /\ coll = "ton"           => TonQuery(r)
    /\ coll = "notifications" => NotificationQuery(r)
    /\ coll = "contributions" => ContributionQuery(r)
    /\ coll = "liquidity"     => LiquidityQuery(r)
    /\ coll = "logs"          => LogQuery(r)

Answer ==
    CASE coll = "events"        -> EventLogs(query, stored)
      [] coll = "ton"           -> TonTransactions(query, stored)
      [] coll = "notifications" -> Notifications(query, stored)
      [] coll = "contributions" -> Contributions(query, stored)
      [] coll = "liquidity"     -> LiquiditySupports(query, stored)
      [] coll = "logs"          -> TransactionLogs(query, stored)

ListInit ==
    /\ coll \in Colls
    /\ stored = {}
    /\ read = {}
    /\ pc = "idle"
    /\ query = CHOOSE r \in Requests : TRUE
    /\ total = 0
    /\ seen = {}
    /\ start = {}
    /\ torn = FALSE

\* A writer adds a document: nothing is ever removed, nor sorted anew.
Insert(d) ==
    /\ d \notin stored
    /\ stored' = stored \cup {d}
    /\ torn' = (torn \/ pc \in {"found", "counted"})
    /\ UNCHANGED <<coll, read, pc, query, total, seen, start>>

\* PUT /notifications/:id.  Between findById and the update the owner of a
\* notification does not change.
Mark(d, wallet, value) ==
    /\ coll = "notifications"
    /\ d \in stored
    /\ d.owner = wallet
    /\ read' = IF value THEN read \cup {d} ELSE read \ {d}
    /\ UNCHANGED <<coll, stored, pc, query, total, seen, start, torn>>

\* The first page.
Ask(r) ==
    /\ pc \in {"idle", "end"}
    /\ Allowed(r)
    /\ query' = r
    /\ pc' = "ask"
    /\ total' = 0
    /\ seen' = {}
    /\ start' = stored
    /\ torn' = FALSE
    /\ UNCHANGED <<coll, stored, read>>

\* The find and the count of one Promise.all.
Find ==
    /\ pc \in {"ask", "counted"}
    /\ \E page \in SUBSET Answer.rows :
          /\ IsPage(page, Answer)
          /\ seen' = seen \cup page
    /\ pc' = IF pc = "ask" THEN "found" ELSE "both"
    /\ UNCHANGED <<coll, stored, read, query, total, start, torn>>

Count ==
    /\ pc \in {"ask", "found"}
    /\ total' = Cardinality(Answer.rows)
    /\ pc' = IF pc = "ask" THEN "counted" ELSE "both"
    /\ UNCHANGED <<coll, stored, read, query, seen, start, torn>>

\* The client turns the page until it has had the total.
LastPage == Answer.limit = 0 \/ Answer.skip + Answer.limit >= total

Turn ==
    /\ pc = "both"
    /\ IF LastPage
         THEN pc' = "end" /\ UNCHANGED <<query, torn>>
         ELSE /\ pc' = "ask"
              /\ query' = [query EXCEPT !.page = @ + 1, !.offset = @ + query.limit]
              /\ torn' = FALSE
    /\ UNCHANGED <<coll, stored, read, total, seen, start>>

ListNext ==
    \/ \E d \in Docs : Insert(d)
    \/ \E d \in Docs, wallet \in {e.owner : e \in Docs}, value \in BOOLEAN :
          Mark(d, wallet, value)
    \/ \E r \in Requests : Ask(r)
    \/ Find
    \/ Count
    \/ Turn

ListSpec == ListInit /\ [][ListNext]_listVars

-----------------------------------------------------------------------------
(* Properties.                                                              *)

\* Reference: what the request asks for.
Wanted(d) ==
    /\ query.owner \in {"", d.owner}
    /\ query.tag \in {"", d.tag}
    /\ query.kinds = {} \/ d.kind \in query.kinds
    /\ d.at \in query.from..(IF query.to = 0 THEN d.at ELSE query.to)

\* A walk to the last page shows every document asked for that was there when
\* it began, whatever came in meanwhile, unless MongoDB may put the document
\* now before, now behind another that sorts alike, or something came between
\* the rows and the total of the last page; and it shows no other documents.
WalkComplete ==
    pc = "end" =>
        /\ \A d \in seen : Wanted(d)
        /\ ~torn => \A d \in start :
              Wanted(d) /\ Peers(d, Answer.rows, Answer.order) = {d} => d \in seen
=============================================================================
