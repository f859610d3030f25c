------------------------------ MODULE MCReads ------------------------------
(* The three groups of read endpoints, which share no state: a behaviour    *)
(* looks at one side of them.                                               *)
EXTENDS Listings, Statistics, TokenPrice, TLC

VARIABLE side

Document(id, at, owner, kind, tag) ==
    [id |-> id, at |-> at, owner |-> owner, kind |-> kind, tag |-> tag]

\* The last two sort alike.
MCDocs == {Document(1, 1, "a", "in", "x"), Document(2, 2, "a", "out", "x"),
           Document(3, 3, "b", "in", "y"), Document(4, 3, "a", "in", "y")}

Request(owner, kinds, tag, from, to, sort, page, limit) ==
    [owner |-> owner, kinds |-> kinds, tag |-> tag, from |-> from, to |-> to,
     sort |-> sort, page |-> page, offset |-> 0, limit |-> limit]

MCRequests ==
    {Request("", {}, "", 0, 0, "", 1, 2),
     Request("a", {"in", "out"}, "", 0, 0, "asc", 1, 1),
     Request("a", {}, "", 0, 0, "desc", 1, 2),
     Request("", {"in"}, "", 0, 0, "", 1, 0),       \* no limit
     Request("", {"in"}, "y", 0, 0, "", 0, 0),      \* no page either, for the log
     Request("a", {}, "", 2, 0, "", 1, 1),
     Request("a", {}, "x", 2, 4, "", 1, 1),
     Request("", {}, "", 2, 3, "asc", 1, 2)}

Item(kind, token, in, out) == [kind |-> kind, token |-> token, in |-> in, out |-> out]

MCItems ==
    {Item("EMint", "", 1, 3), Item("ERedeem", "", 4, 1),
     Item("MINT", "", 1, 3), Item("REDEEM", "", 2, 1), Item("wallet", "bnb", 1, 0),
     Item("contribution", "VNST", 2, 0), Item("IN", "VNST", 2, 0), Item("OUT", "VNST", 3, 0)}

MCSites ==
    {{"/stats", "/stats?network=BNB"}, {"/stats?network=BNB", "/stats?network=TON"},
     {"contributions", "liquidity"}}

\* Ends of months, one of a leap year, and a year and a day between.
MCMoments ==
    {Date(2023, 3, 31, 22), Date(2024, 2, 29, 23),
     Date(2024, 3, 1, 0), Date(2024, 3, 31, 5), Date(2024, 3, 31, 6)}

MCPriceAt == [t \in MCMoments |-> (t % 5) + 1]

MCInit ==
    /\ side \in {"lists", "stats", "prices"}
    /\ ListInit /\ (side # "lists" => coll = "events")
    /\ StatsInit /\ (side # "stats" => site = {"contributions", "liquidity"})
    /\ PriceInit

MCNext ==
    \/ side = "lists" /\ ListNext /\ UNCHANGED <<side, statsVars, priceVars>>
    \/ side = "stats" /\ StatsNext /\ UNCHANGED <<side, listVars, priceVars>>
    \/ side = "prices" /\ PriceNext /\ UNCHANGED <<side, listVars, statsVars>>

MCSpec == MCInit /\ [][MCNext]_<<side, listVars, statsVars, priceVars>>

Clients2 == Permutations(Clients)
=============================================================================
