--------------------------- MODULE MCExchangeRates ---------------------------
(***************************************************************************)
(* Small instances of ExchangeRates: the two pairs between dollar and euro *)
(* at the rates of MOCK_RATES.                                             *)
(***************************************************************************)
EXTENDS ExchangeRates, TLC

USDEUR == <<"USD", "EUR">>
EURUSD == <<"EUR", "USD">>

MCPairs == {USDEUR, EURUSD}
MCRefreshes == <<USDEUR, EURUSD>>

(* MOCK_RATES, all of it: what the theorem on round trips needs of it.     *)
AllMockRates ==
    <<"NGN", "USD">> :> <<65, 100000>> @@ <<"USD", "NGN">> :> <<1540, 1>>
    @@ <<"NGN", "GHS">> :> <<75, 1000>> @@ <<"GHS", "NGN">> :> <<1333, 100>>
    @@ <<"USD", "GHS">> :> <<155, 10>> @@ <<"GHS", "USD">> :> <<645, 10000>>
    @@ USDEUR :> <<921, 1000>> @@ EURUSD :> <<1086, 1000>>
    @@ <<"USD", "GBP">> :> <<789, 1000>> @@ <<"GBP", "USD">> :> <<1268, 1000>>
    @@ <<"NGN", "EUR">> :> <<60, 100000>> @@ <<"EUR", "NGN">> :> <<1666, 1>>
    @@ <<"USD", "KES">> :> <<1295, 10>> @@ <<"KES", "USD">> :> <<77, 10000>>

MCMockRates == [pair \in MCPairs |-> AllMockRates[pair]]

ASSUME AllRatesAreBalanced == Balanced(AllMockRates)

RatesSymmetry == Permutations(Calls) \union Permutations(Processes)
=============================================================================
