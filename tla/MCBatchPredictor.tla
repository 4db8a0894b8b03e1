-------------------------- MODULE MCBatchPredictor --------------------------
EXTENDS BatchPredictor

MCOrder == <<"LSTM">>
=============================================================================
