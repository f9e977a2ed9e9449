----------------------------- MODULE Extraction -----------------------------
(***************************************************************************)
(* What is stored of a block.  ProcessBlock (processor_block_part1.go) and *)
(* ProcessBatch (processor_batch.go) each turn a block's logs and          *)
(* transactions into activities.  A log keeps its index; an activity found *)
(* in a transaction gets the next synthetic index from 20000 on; an empty  *)
(* block of the local chain gets mock transfers.  The table takes an       *)
(* activity only if its block has no row with that index yet, so a block   *)
(* processed again, by either path, changes nothing it already holds.      *)
(*                                                                         *)
(* The two paths differ: only ProcessBlock looks for known senders (a      *)
(* faucet), and the mocks are numbered differently.  The module follows    *)
(* one block; a restart may process it again by the other path.            *)
(***************************************************************************)
EXTENDS Integers, Sequences, FiniteSets

CONSTANTS
    MaxTxs,         \* bound: transactions of the block
    MaxLogs,        \* bound: logs of the block
    SyntheticBase,  \* first synthetic index (20000)
    MockBase,       \* first index of a mock transfer (99990)
    MockLast        \* index of ProcessBatch's mock transfer (99999)

ASSUME ExtractionAssumption ==
    /\ MaxTxs \in Nat /\ MaxLogs \in Nat
    /\ SyntheticBase \in Nat /\ MockBase > SyntheticBase + MaxTxs /\ MockLast > MockBase + 4

Transactions == [to : {"none", "account"}, value : {0, 1}, known : BOOLEAN]

VARIABLES
    txs,            \* transactions: recipient, value, whether the sender has a label
    logTx,          \* per log index: transaction of the log, 0 for none or without topics
    localChain,     \* the local chain, with the simulator on
    rows            \* rows of the block in the transfers table

extractVars == <<txs, logTx, localChain, rows>>

ExtractInit ==
    /\ txs \in UNION {[1..k -> Transactions] : k \in 0..MaxTxs}
    /\ logTx \in [0..(MaxLogs - 1) -> 0..Len(txs)]
    /\ localChain \in BOOLEAN
    /\ rows = {}

Activity(i, t, s) == [idx |-> i, tx |-> t, symbol |-> s]

\* ProcessLog gives an activity for every log with a topic.
LogActivities ==
    {Activity(i, logTx[i], "token") : i \in {i \in DOMAIN logTx : logTx[i] # 0}}

HasRealLogs(t) == \E i \in DOMAIN logTx : logTx[i] = t

\* Value sent by a transaction whose logs did not tell of it.
IsEthTransfer(t) == txs[t].value > 0 /\ ~HasRealLogs(t) /\ txs[t].to # "none"

\* The detectors of ProcessBlock, in order.
BlockDetects(t) ==
    IF txs[t].known THEN "faucet"
    ELSE IF txs[t].to = "none" THEN "EVM"
    ELSE IF IsEthTransfer(t) THEN "ETH"
    ELSE "nothing"

\* Mutant of BatchDetects: value is an activity of its own even when logs told of it.
BatchDetectsAllValue(t) ==
    IF txs[t].to = "none" THEN "EVM"
    ELSE IF txs[t].value > 0 THEN "ETH"
    ELSE "nothing"

\* processBatchTransactions.
BatchDetects(t) ==
    IF txs[t].to = "none" THEN "EVM"
    ELSE IF IsEthTransfer(t) THEN "ETH"
    ELSE "nothing"

\* Mutant of SyntheticIndex: a deployment does not use up its index.
SyntheticIndexSkipsDeploys(t, detected) ==
    SyntheticBase + Cardinality({u \in 1..(t - 1) : detected[u] \notin {"nothing", "EVM"}})

\* syntheticIdx counts the activities found before.
SyntheticIndex(t, detected) ==
    SyntheticBase + Cardinality({u \in 1..(t - 1) : detected[u] # "nothing"})

TxActivities(detected) ==
    {Activity(SyntheticIndex(t, detected), t, detected[t]) :
        t \in {t \in DOMAIN txs : detected[t] # "nothing"}}

\* The logs are turned into activities first, then the transactions in their order.
Precedes(a, b) ==
    IF a.symbol = "token" THEN b.symbol # "token" ELSE b.symbol # "token" /\ a.tx < b.tx

\* processAnvilSyntheticNoDB makes two to five mock transfers.
BlockActivities(mocks) ==
    LET real == LogActivities \cup TxActivities([t \in DOMAIN txs |-> BlockDetects(t)]) IN
    IF real = {} /\ localChain
    THEN {Activity(MockBase + m - 1, 0, "mock") : m \in 1..mocks}
    ELSE real

\* processBatchSynthetic makes one.
BatchActivities ==
    LET real == LogActivities \cup TxActivities([t \in DOMAIN txs |-> BatchDetects(t)]) IN
    IF real = {} /\ localChain THEN {Activity(MockLast, 0, "mock")} ELSE real

\* INSERT ... ON CONFLICT (block_number, log_index) DO NOTHING, in order: the first with
\* an index gets it, if no row has it.
Insert(activities) ==
    rows' = rows \cup {a \in activities :
              /\ \A r \in rows : r.idx # a.idx
              /\ \A b \in activities : b.idx = a.idx => ~Precedes(b, a)}

ProcessBlock(mocks) ==
    /\ Insert(BlockActivities(mocks))
    /\ UNCHANGED <<txs, logTx, localChain>>

ProcessBatch ==
    /\ Insert(BatchActivities)
    /\ UNCHANGED <<txs, logTx, localChain>>

ExtractNext == ProcessBatch \/ \E mocks \in 2..5 : ProcessBlock(mocks)

ExtractSpec == ExtractInit /\ [][ExtractNext]_extractVars

(***************************************************************************)
(* Properties                                                              *)
(***************************************************************************)
ExtractTypeOK ==
    /\ txs \in Seq(Transactions)
    /\ logTx \in [0..(MaxLogs - 1) -> 0..MaxTxs]
    /\ localChain \in BOOLEAN
    /\ \A r \in rows : r.idx \in 0..MockLast /\ r.tx \in 0..Len(txs)

\* A stored block is stored completely: every activity that one of the two paths finds in
\* it has a row, none of them dropped by the table because another one of the block took
\* its index first, unless the block has so many logs that they reach the synthetic
\* indices.
StoredCompletely ==
    (rows # {} /\ \A i \in DOMAIN logTx : i >= SyntheticBase => logTx[i] = 0)
        => \/ BatchActivities \subseteq rows
           \/ \E mocks \in 2..5 : BlockActivities(mocks) \subseteq rows

\* Processing a stored block again, by either path, adds no row, if none of its senders is
\* a known one and it has no mock transfers: with a known sender the paths number the
\* transactions behind it differently, and the table keeps a mixture of the two.
ReprocessingIdempotent ==
    [][(rows # {} /\ (\A t \in DOMAIN txs : ~txs[t].known)
                  /\ (\A r \in rows : r.symbol # "mock")) => rows' = rows]_extractVars

=============================================================================
