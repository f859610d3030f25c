----------------------------- MODULE Statistics -----------------------------
(***************************************************************************)
(* GET /stats and the merchants' totals: aggregations over what the        *)
(* background processes store, behind the cache interceptor.               *)
(*                                                                         *)
(* A request looks its URL up in the cache; on a miss it runs its queries  *)
(* side by side, computes the answer from what each returned and caches    *)
(* it.  Several requests may do so at once.                                *)
(*                                                                         *)
(* A document is [kind, token, in, out]: an event or a TON transaction     *)
(* with its amounts, a wallet with its balance in in, a contribution or a  *)
(* liquidity support with its token and its amount in in.                  *)
(***************************************************************************)
EXTENDS Integers, FiniteSets, Functions

CONSTANTS
    Items,     \* bound: the documents that may be stored
    MaxItems,  \* bound: how many of them are
    Sites,     \* bound: the URLs asked for in one behaviour, a set of sets
    Clients,   \* bound: requests at a time
    Pool,      \* the operation pool of the contracts, not 0
    MaxMisses, \* bound: requests that miss the cache
    MaxFaults  \* bound: number of expiries of the cache and of failing queries

\* NetworkQueryDto: the network may be named or left out.
Urls == {"/stats", "/stats?network=BNB", "/stats?network=TON", "contributions", "liquidity"}

\* What a URL asks for; without a network it is BNB.
Route(url) ==
    CASE url \in {"/stats", "/stats?network=BNB"} -> "bnb"
      [] url = "/stats?network=TON"                -> "ton"
      [] OTHER                                     -> url

Documents == [kind: STRING, token: STRING, in: Nat, out: Nat]

ASSUME StatisticsAssumption ==
    /\ Items \subseteq Documents
    /\ Sites \subseteq SUBSET Urls
    /\ MaxItems \in Nat /\ MaxMisses \in Nat /\ Pool \in Nat \ {0} /\ MaxFaults \in Nat

VARIABLES
    site,     \* the URLs asked for
    items,    \* the documents stored
    cache,    \* for each key the entry kept, or none
    client,   \* for each client the request it has running
    last,     \* for each URL the entry shown last, to whomever
    misses,   \* requests that missed the cache so far
    faults,   \* expiries and failures so far
    overlap   \* ghost: URLs for which two requests ran their queries at once

statsVars == <<site, items, cache, client, last, misses, faults, overlap>>

None == [answer |-> "none"]
Idle == [url |-> "none"]

-----------------------------------------------------------------------------
(* The aggregations, over a set S of documents.                             *)

Of(kind, S) == {d \in S : d.kind = kind}
TotalIn(S)  == SumFunction([d \in S |-> d.in])
TotalOut(S) == SumFunction([d \in S |-> d.out])

\* Mutant: the aggregation lacks its $match.
GetAmount_Any(event, S) == [in |-> TotalIn(S), out |-> TotalOut(S)]

\* getAmountAggregation, for getAmountMinted and getAmountRedeemed.
GetAmount(event, S) == [in |-> TotalIn(Of(event, S)), out |-> TotalOut(Of(event, S))]

CountAllTxn(S) == Cardinality(Of("EMint", S) \cup Of("ERedeem", S))

CountHolders(network, S) ==
    Cardinality({d \in Of("wallet", S) : d.token = network /\ d.in > 0})

CountAllTransactions(S) == Cardinality(Of("MINT", S) \cup Of("REDEEM", S))

\* TonService.getStats: one aggregation.
TonStats(S) ==
    LET minted   == Of("MINT", S)
        redeemed == Of("REDEEM", S)
    IN  [minted |-> TotalOut(minted), redeemed |-> TotalIn(redeemed),
         totalVNST |-> TotalOut(minted) - TotalIn(redeemed),
         totalUSDT |-> TotalIn(minted) - TotalOut(redeemed)]

OfToken(t, S) == {d \in S : d.token = t}

GetTotalContributions(S) ==
    LET all == Of("contribution", S)
    IN  [t \in {d.token : d \in all} |-> TotalIn(OfToken(t, all))]

GetTotalLiquidity(S) ==
    LET all == Of("IN", S) \cup Of("OUT", S)
    IN  [t \in {d.token : d \in all} |->
            TotalIn(Of("OUT", OfToken(t, all))) - TotalIn(Of("IN", OfToken(t, all)))]

-----------------------------------------------------------------------------
(* The controllers.                                                         *)

\* The queries of each route's Promise.all, but for the operation pool.
Queries(route) ==
    CASE route = "bnb" -> {"minted", "redeemed", "transactions", "holders"}
      [] route = "ton" -> {"stats", "transactions", "holders"}
      [] OTHER         -> {"total"}

\* What each returns when the documents are S.
Result(route, part, S) ==
    CASE part = "minted"       -> GetAmount("EMint", S)
      [] part = "redeemed"     -> GetAmount("ERedeem", S)
      [] part = "transactions" -> IF route = "bnb" THEN CountAllTxn(S) ELSE CountAllTransactions(S)
      [] part = "holders"      -> CountHolders(route, S)
      [] part = "stats"        -> TonStats(S)
      [] part = "total"        -> IF route = "liquidity" THEN GetTotalLiquidity(S)
                                                          ELSE GetTotalContributions(S)

NotNegative(n) == IF n > 0 THEN n ELSE 0

\* The answer from what the queries returned; on TON the totals may well be
\* negative, for the poller records the newest swaps first.
StatsOf(route, got, pool) ==
    CASE route = "bnb" ->
           [minted |-> got["minted"].out, redeemed |-> got["redeemed"].in,
            totalVNST |-> NotNegative(got["minted"].out - got["redeemed"].in),
            totalUSDT |-> NotNegative(got["minted"].in - got["redeemed"].out),
            transactions |-> got["transactions"], holders |-> got["holders"],
            operationPool |-> pool]
      [] route = "ton" ->
           [minted |-> got["stats"].minted, redeemed |-> got["stats"].redeemed,
            totalVNST |-> got["stats"].totalVNST, totalUSDT |-> got["stats"].totalUSDT,
            transactions |-> got["transactions"], holders |-> got["holders"],
            operationPool |-> pool]
      [] OTHER -> got["total"]

StatsInit ==
    /\ site \in Sites
    /\ items = {}
    /\ cache = [url \in Urls |-> None]
    /\ client = [c \in Clients |-> Idle]
    /\ last = [url \in Urls |-> None]
    /\ misses = 0
    /\ faults = 0
    /\ overlap = {}

Fault == faults < MaxFaults /\ faults' = faults + 1

Kinds(route) ==
    CASE route = "bnb"           -> {"EMint", "ERedeem"}
      [] route = "ton"           -> {"MINT", "REDEEM"}
      [] route = "liquidity"     -> {"IN", "OUT"}
      [] route = "contributions" -> {"contribution"}

\* A background process stores a document (only those asked for are of interest).
Store(d) ==
    /\ d.kind \in {"wallet"} \cup UNION {Kinds(Route(url)) : url \in site}
    /\ d \notin items
    /\ Cardinality(items) < MaxItems
    /\ items' = items \cup {d}
    /\ UNCHANGED <<site, cache, client, last, misses, faults, overlap>>

\* Mutant: both networks share one @CacheKey.
Key_Shared(url) == IF url = "/stats?network=TON" THEN "/stats?network=BNB" ELSE url

\* CacheInterceptor keeps answers by their URL, the query string included, so
\* that a network that is named has another entry than the default.
Key(url) == url

\* An entry of the cache expires: 60 s, or 300 s for the merchants' totals.
Expire(url) ==
    /\ cache[url] # None
    /\ Fault
    /\ cache' = [cache EXCEPT ![url] = None]
    /\ UNCHANGED <<site, items, client, last, misses, overlap>>

Hit(url) ==
    /\ cache[Key(url)] # None
    /\ last' = [last EXCEPT ![url] = cache[Key(url)]]
    /\ UNCHANGED <<site, items, cache, client, misses, faults, overlap>>

Miss(c, url) ==
    /\ client[c] = Idle
    /\ cache[Key(url)] = None
    /\ misses < MaxMisses
    /\ misses' = misses + 1
    /\ client' = [client EXCEPT ![c] = [url |-> url, got |-> <<>>, since |-> items]]
    /\ overlap' = IF \E b \in Clients : client[b].url = url THEN overlap \cup {url} ELSE overlap
    /\ UNCHANGED <<site, items, cache, last, faults>>

\* The results so far with one more.
With(got, part, result) ==
    [p \in DOMAIN got \cup {part} |-> IF p = part THEN result ELSE got[p]]

Query(c, part) ==
    /\ client[c] # Idle
    /\ part \in Queries(Route(client[c].url)) \ DOMAIN client[c].got
    /\ client' = [client EXCEPT ![c].got =
                      With(@, part, Result(Route(client[c].url), part, items))]
    /\ UNCHANGED <<site, items, cache, last, misses, faults, overlap>>

\* A query throws, and with it the request; nothing is cached.
Fail(c) ==
    /\ client[c] # Idle
    /\ Fault
    /\ client' = [client EXCEPT ![c] = Idle]
    /\ UNCHANGED <<site, items, cache, last, misses, overlap>>

\* All queries are back: the answer is sent and kept.  On TON getOperationPool
\* catches its error and tells 0.
Reply(c) ==
    /\ client[c] # Idle
    /\ DOMAIN client[c].got = Queries(Route(client[c].url))
    /\ \E pool \in {0, Pool} :
          /\ \/ pool = Pool /\ UNCHANGED faults
             \/ pool # Pool /\ Route(client[c].url) = "ton" /\ Fault
          /\ LET url   == client[c].url
                 entry == [answer |-> StatsOf(Route(url), client[c].got, pool),
                           since |-> client[c].since]
             IN  /\ last' = [last EXCEPT ![url] = entry]
                 /\ cache' = [cache EXCEPT ![Key(url)] = entry]
    /\ client' = [client EXCEPT ![c] = Idle]
    /\ UNCHANGED <<site, items, misses, overlap>>

StatsNext ==
    \/ \E d \in Items : Store(d)
    \/ \E url \in site : Expire(url) \/ Hit(url)
    \/ \E c \in Clients, url \in site : Miss(c, url)
    \/ \E c \in Clients, part \in UNION {Queries(Route(url)) : url \in site} : Query(c, part)
    \/ \E c \in Clients : Reply(c) \/ Fail(c)

StatsSpec == StatsInit /\ [][StatsNext]_statsVars

-----------------------------------------------------------------------------
(* Properties.                                                              *)

\* Reference: what a document adds to the coins in circulation, or to a
\* token's total, and to the dollars that back them.
Coins ==
    [d \in Items |-> CASE d.kind \in {"EMint", "MINT"}       -> d.out
                       [] d.kind \in {"ERedeem", "REDEEM"}   -> -d.in
                       [] d.kind \in {"OUT", "contribution"} -> d.in
                       [] d.kind = "IN"                      -> -d.in
                       [] OTHER                              -> 0]
Dollars ==
    [d \in Items |-> CASE d.kind \in {"EMint", "MINT"}     -> d.in
                       [] d.kind \in {"ERedeem", "REDEEM"} -> -d.out
                       [] OTHER                            -> 0]

Gains(worth, S)  == SumFunction([d \in {e \in S : worth[e] > 0} |-> worth[d]])
Losses(worth, S) == SumFunction([d \in {e \in S : worth[e] < 0} |-> worth[d]])

Entries(route, S) == {d \in S : d.kind \in Kinds(route)}

Least(worth, B, N)    == Gains(worth, B) + Losses(worth, N)
Greatest(worth, B, N) == Gains(worth, N) + Losses(worth, B)

\* An answer between what the documents B and what the documents N make.
Between(route, answer, B, N) ==
    CASE route \in {"bnb", "ton"} ->
           /\ answer.minted \in Gains(Coins, B)..Gains(Coins, N)
           /\ answer.redeemed \in -Losses(Coins, B)..-Losses(Coins, N)
           /\ answer.transactions \in Cardinality(B)..Cardinality(N)
           /\ IF route = "bnb"
                THEN /\ answer.totalVNST \in NotNegative(Least(Coins, B, N))
                                             ..NotNegative(Greatest(Coins, B, N))
                     /\ answer.totalUSDT \in NotNegative(Least(Dollars, B, N))
                                             ..NotNegative(Greatest(Dollars, B, N))
                ELSE /\ answer.totalVNST \in Least(Coins, B, N)..Greatest(Coins, B, N)
                     /\ answer.totalUSDT \in Least(Dollars, B, N)..Greatest(Dollars, B, N)
      [] OTHER ->
           \A t \in DOMAIN answer :
               answer[t] \in Least(Coins, OfToken(t, B), OfToken(t, N))
                             ..Greatest(Coins, OfToken(t, B), OfToken(t, N))

\* The supply and the dollars behind it, and the merchants' totals by token, lie
\* between what the documents there at the start of the request make with all
\* losses since, and with all gains since, though they are put together from
\* queries of different moments and may come from the cache; what was minted,
\* what was redeemed and the number of transactions lie between what the two
\* sets of documents make.  (The holders are one count and the operation pool
\* one call, each of its own moment; neither is compared with the rest.)
StatsBracketed ==
    \A url \in Urls : last[url] # None =>
        Between(Route(url), last[url].answer,
                Entries(Route(url), last[url].since), Entries(Route(url), items))

NotBehind(answer, before) ==
    /\ before.minted <= answer.minted
    /\ before.redeemed <= answer.redeemed
    /\ before.transactions <= answer.transactions

\* Mints, redeems and transactions are only ever added, and the figures shown
\* at a URL never fall back, unless two requests for it computed them at the
\* same time: then the slower one may put older figures into the cache.  (Of
\* BNB's two URLs each goes by its own entry; one may show older figures than
\* the other.)
StatsForward ==
    [][\A url \in Urls :
          Route(url) \in {"bnb", "ton"} /\ url \notin overlap /\ last[url] # None
              => NotBehind(last'[url].answer, last[url].answer)]_statsVars
=============================================================================
