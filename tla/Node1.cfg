SPECIFICATION FairSpec
CONSTANTS
    Txs = {t1, t2, t3}
    Clients = {c1, c2}
INVARIANTS TypeOK SentOnce InOrder
PROPERTY Served
CHECK_DEADLOCK FALSE
