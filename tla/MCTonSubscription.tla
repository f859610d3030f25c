-------------------------- MODULE MCTonSubscription --------------------------
(* Seven transactions: three swaps of two owners, of which the second was   *)
(* sent after the third; two deals the parser does not read; and two        *)
(* transactions that are no deals.                                          *)
EXTENDS TonDeals, TLC

CONSTANTS alice, bob

Deal(type, in, out, owner, at) ==
    [type |-> type, inAmount |-> in, outAmount |-> out, fromAddress |-> owner, timestamp |-> at]

\* What really happened.
MCDeals == (1 :> Deal("MINT", 1, 25, alice, 1))
        @@ (3 :> Deal("REDEEM", 50, 2, bob, 4))
        @@ (4 :> Deal("MINT", 2, 50, alice, 3))
        @@ (5 :> Deal("MINT", 4, 90, bob, 5))
        @@ (7 :> Deal("REDEEM", 75, 3, bob, 7))

Message(deal, outs) ==
    [internal |-> TRUE, generic |-> TRUE, vm |-> TRUE, createdAt |-> deal.timestamp,
     body |-> <<"JETTON_NOTIFY", 0, deal.inAmount, deal.type, deal.fromAddress>>,
     outs |-> outs]

\* The excess of gas goes back before the jettons go out, or a text does.
Excess == <<"EXCESS", 0>>
Text   == <<>>
Pay(deal, amount, to) == <<PayOut[deal.type], 0, amount, "account", to>>

Paid(deal) == Message(deal, <<Excess, Pay(deal, deal.outAmount, deal.fromAddress)>>)

\* How the account's transactions show it.
MCHistory == [t \in Lts |->
    CASE t = 2 -> LET d == Deal("MINT", 3, 75, bob, 2) IN  \* refused: the jettons go back
                  Message(d, <<Excess, Pay(d, 3, bob)>>)
      [] t = 5 -> Message(MCDeals[5], <<Text, Pay(MCDeals[5], 90, bob)>>)
      [] t = 6 -> Message(Deal("REDEEM", 90, 4, alice, 6), <<Excess, Text>>) \* not answered
      [] t = 7 -> Message(MCDeals[7], <<Excess, Pay(MCDeals[7], 3, NoAddress)>>)
      [] OTHER -> Paid(MCDeals[t])]

Parsed == [t \in Lts |-> Parse(MCHistory[t])]
MCSwaps == {t \in Lts : Parsed[t] # None}
MCSentAt == [t \in MCSwaps |-> Parsed[t].timestamp]
MCOwner == [t \in MCSwaps |-> Parsed[t].fromAddress]
=============================================================================
