---------------------------- MODULE MCMarketData ----------------------------
EXTENDS MarketData, TLC
=============================================================================
