SPECIFICATION FairSpec
CONSTANTS
    Workers = {w1, w2}
    Keys = {k1, k2}
    Intents = {i1, i2}
    Tokens = {t1, t2}
    NoRow = NoRow
    MaxCommits = 2
INVARIANTS TypeOK AtMostOneMutation ReceiptMeansMutated NoReceiptForRefused OneHolder
PROPERTIES ClaimsAreFinal ImplementsPromise EveryCallReturns
