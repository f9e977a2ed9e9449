------------------------------ MODULE Traffic -------------------------------
(***************************************************************************)
(* The two traffic generators of a local chain.  The emulator              *)
(* (internal/emulator) numbers its transactions with a NonceManager: it    *)
(* takes a number first, asks for the gas price next and sends last, and   *)
(* each of these calls may fail.  The simulator (pro_simulator.go) keeps a *)
(* counter per account and moves it after a send that worked.  With their  *)
(* default keys both send from the same account.                           *)
(*                                                                         *)
(* The node is external: it takes each number once, keeps numbers that are *)
(* ahead of the account in its pool, and mines those that follow without a *)
(* gap.  An answer may be lost after the transaction was taken.            *)
(***************************************************************************)
EXTENDS Integers, FiniteSets

CONSTANTS
    MaxNonce,       \* bound: numbers in use
    SyncEvery       \* GetNextNonce asks the node at every multiple of it (50)

ASSUME TrafficAssumption == MaxNonce \in Nat /\ SyncEvery \in Nat \ {0}

Nonces == 0..MaxNonce
NoNonce == MaxNonce + 1

VARIABLES
    mined,          \* the node: the account's next number by its mined transactions
    mempool,        \* the node: numbers taken and not mined
    emulator,       \* step of Emulator.Start / sendTransfer
    nonce,          \* the number it holds
    pendingNonce,   \* NonceManager.pendingNonce
    awaiting,       \* numbers whose receipt a goroutine waits for
    simulator,      \* ProSimulator: "off", or "on" with its loop running
    simNonce,       \* simAccount.nonce
    leaked          \* history: numbers given up before anything was sent

trafficVars == <<mined, mempool, emulator, nonce, pendingNonce, awaiting, simulator, simNonce,
                 leaked>>

\* The answer of PendingNonceAt: behind the transactions that follow without a gap.
PendingNonceAt ==
    CHOOSE n \in mined..NoNonce :
        /\ n \notin mempool
        /\ \A k \in mined..(n - 1) : k \in mempool

\* NewEmulator reads the account's number; the simulator reads it in Start.
TrafficInit ==
    /\ mined = 0
    /\ mempool = {}
    /\ emulator = "funding"
    /\ nonce = NoNonce
    /\ pendingNonce = 0
    /\ awaiting = {}
    /\ simulator = "off"
    /\ simNonce = 0
    /\ leaked = {}

(***************************************************************************)
(* The node                                                                *)
(***************************************************************************)
Mine ==
    /\ mined' = PendingNonceAt
    /\ mined' # mined
    /\ mempool' = mempool \ (0..(mined' - 1))
    /\ UNCHANGED <<emulator, nonce, pendingNonce, awaiting, simulator, simNonce, leaked>>

\* SendTransaction with number n and its answer: "low" below the account's number,
\* "known" or another error for a number it has, an error or success otherwise.
Answers(n, answer) ==
    \/ answer = "low" /\ n < mined /\ UNCHANGED mempool
    \/ answer = "known" /\ n \in mempool /\ UNCHANGED mempool
    \/ answer = "error" /\ n >= mined
       /\ \/ UNCHANGED mempool
          \/ mempool' = mempool \cup {n}
    \/ answer = "ok" /\ n >= mined /\ n \notin mempool /\ mempool' = mempool \cup {n}

(***************************************************************************)
(* NonceManager                                                            *)
(***************************************************************************)
\* GetNextNonce: at a multiple of SyncEvery the node is asked (in vain if ~asked), and
\* the counter follows it upwards only.
NextNonce(asked) ==
    IF asked /\ pendingNonce % SyncEvery = 0 /\ PendingNonceAt > pendingNonce
    THEN PendingNonceAt ELSE pendingNonce

\* Mutant of RollbackNonce: a failed number is not given back.
RollbackNothing(n) == UNCHANGED pendingNonce

RollbackNonce(n) == pendingNonce' = IF n < pendingNonce THEN n ELSE pendingNonce

\* ResyncNonce, which leaves the counter alone when the node does not answer.
ResyncNonce == pendingNonce' \in {PendingNonceAt, pendingNonce}

(***************************************************************************)
(* Emulator: deployContract and sendTransfer share the taking of a number. *)
(***************************************************************************)
GetNextNonce(asked) ==
    /\ emulator \in {"funding", "idle"}
    /\ NextNonce(asked) \in Nonces
    /\ nonce' = NextNonce(asked)
    /\ pendingNonce' = NextNonce(asked) + 1
    /\ emulator' = IF emulator = "funding" THEN "deploying" ELSE "transferring"
    /\ UNCHANGED <<mined, mempool, awaiting, simulator, simNonce, leaked>>

\* The gas price, the random source or the signature fails: the number is lost.
GiveUpBeforeSend ==
    /\ emulator \in {"deploying", "transferring"}
    /\ leaked' = leaked \cup {nonce}
    /\ emulator' = IF emulator = "deploying" THEN "ended" ELSE "idle"
    /\ nonce' = NoNonce
    /\ UNCHANGED <<mined, mempool, pendingNonce, awaiting, simulator, simNonce>>

\* A failed deployment resyncs the counter and ends Start; one that was sent waits.
DeployContract(answer) ==
    /\ emulator = "deploying"
    /\ Answers(nonce, answer)
    /\ \/ /\ answer = "ok"
          /\ emulator' = "receipt"
          /\ UNCHANGED <<nonce, pendingNonce>>
       \/ /\ answer # "ok"
          /\ emulator' = "ended"
          /\ nonce' = NoNonce
          /\ ResyncNonce
    /\ UNCHANGED <<mined, awaiting, simulator, simNonce, leaked>>

\* The receipt of the deployment; a timeout or the context ends Start.
DeployReceipt(found) ==
    /\ emulator = "receipt"
    /\ found => nonce < mined
    /\ emulator' = IF found THEN "idle" ELSE "ended"
    /\ nonce' = NoNonce
    /\ UNCHANGED <<mined, mempool, pendingNonce, awaiting, simulator, simNonce, leaked>>

\* A number that is too low or known means the counter is wrong: resync.  Any other
\* error gives the number back, even if the node has taken the transaction.
SendTransfer(answer) ==
    /\ emulator = "transferring"
    /\ Answers(nonce, answer)
    /\ \/ /\ answer = "ok"
          /\ awaiting' = awaiting \cup {nonce}
          /\ UNCHANGED pendingNonce
       \/ /\ answer \in {"low", "known"}
          /\ ResyncNonce
          /\ UNCHANGED awaiting
       \/ /\ answer = "error"
          /\ RollbackNonce(nonce)
          /\ UNCHANGED awaiting
    /\ emulator' = "idle"
    /\ nonce' = NoNonce
    /\ UNCHANGED <<mined, simulator, simNonce, leaked>>

\* waitForReceipt in its goroutine: the receipt is there, or 30 s are over.
WaitForReceipt(n, found) ==
    /\ n \in awaiting
    /\ found => n < mined
    /\ awaiting' = awaiting \ {n}
    /\ UNCHANGED <<mined, mempool, emulator, nonce, pendingNonce, simulator, simNonce,
                   leaked>>

EmulatorStops ==
    /\ emulator \in {"idle", "receipt"}
    /\ emulator' = "ended"
    /\ nonce' = NoNonce
    /\ UNCHANGED <<mined, mempool, pendingNonce, awaiting, simulator, simNonce, leaked>>

(***************************************************************************)
(* ProSimulator                                                            *)
(***************************************************************************)
\* Start reads the number by mined transactions; without an answer it stays 0.
StartSimulator(answered) ==
    /\ simulator = "off"
    /\ simulator' = "on"
    /\ simNonce' = IF answered THEN mined ELSE simNonce
    /\ UNCHANGED <<mined, mempool, emulator, nonce, pendingNonce, awaiting, leaked>>

\* executeChaosAction, under the account's lock: a send that worked moves the counter
\* and mines (the Mine step); "nonce too low" reads the number again, if the node
\* answers; any other error leaves everything for the next tick.
ExecuteChaosAction(answer, answered) ==
    /\ simulator = "on"
    /\ simNonce \in Nonces
    /\ Answers(simNonce, answer)
    /\ simNonce' = IF answer = "ok" THEN simNonce + 1
                   ELSE IF answer = "low" /\ answered THEN mined ELSE simNonce
    /\ UNCHANGED <<mined, emulator, nonce, pendingNonce, awaiting, simulator, leaked>>

StopSimulator ==
    /\ simulator = "on"
    /\ simulator' = "stopped"
    /\ UNCHANGED <<mined, mempool, emulator, nonce, pendingNonce, awaiting, simNonce, leaked>>

TrafficNext ==
    \/ Mine
    \/ GiveUpBeforeSend \/ EmulatorStops \/ StopSimulator
    \/ \E b \in BOOLEAN : GetNextNonce(b) \/ DeployReceipt(b) \/ StartSimulator(b)
    \/ \E n \in Nonces, b \in BOOLEAN : WaitForReceipt(n, b)
    \/ \E answer \in {"ok", "low", "known", "error"} :
          \/ DeployContract(answer) \/ SendTransfer(answer)
          \/ \E b \in BOOLEAN : ExecuteChaosAction(answer, b)

TrafficSpec == TrafficInit /\ [][TrafficNext]_trafficVars

(***************************************************************************)
(* Properties                                                              *)
(***************************************************************************)
TrafficTypeOK ==
    /\ mined \in 0..NoNonce
    /\ mempool \in SUBSET Nonces
    /\ emulator \in {"funding", "deploying", "receipt", "idle", "transferring", "ended"}
    /\ nonce \in Nonces \cup {NoNonce}
    /\ pendingNonce \in 0..NoNonce
    /\ awaiting \in SUBSET Nonces
    /\ simulator \in {"off", "on", "stopped"}
    /\ simNonce \in 0..NoNonce
    /\ leaked \in SUBSET Nonces

\* A number below the emulator's counter that the node does not have keeps every later
\* transfer out of the chain.  While the emulator works, the only such numbers are the
\* one it is sending and those given up between GetNextNonce and SendTransaction:
\* lost answers, the second sender and the resyncs leave no other gap.
GapsAreAbandoned ==
    emulator # "ended" =>
        (mined..(pendingNonce - 1)) \ mempool \subseteq leaked \cup {nonce}

=============================================================================
