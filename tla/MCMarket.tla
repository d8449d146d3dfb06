------------------------------ MODULE MCMarket ------------------------------
EXTENDS Market
=============================================================================
