----------------------------- MODULE MCProtocol -----------------------------
(* Instances of Protocol for TLC.                                          *)
EXTENDS Protocol

All == [analyses |-> {[name |-> "*", pin |-> {}]}, statuses |-> {"confirmed"}]
OneEMA == [analyses |-> {[name |-> "ema", pin |-> {EMAAlgorithm(2).hash}]},
           statuses |-> {"confirmed", "provisional"}]
Market == [analyses |-> {[name |-> "smc.market_state", pin |-> {}]}, statuses |-> {"confirmed"}]

MCPeriods == {1, 2}
MCFilters == {All, OneEMA}
MCMarketFilters == {All, Market}

=============================================================================
