--------------------------- MODULE MempoolProofs ---------------------------
(***************************************************************************)
(* What holds of the mempool for every set of transactions and every       *)
(* interleaving of update with bitcoind and the broadcasters.              *)
(*                                                                         *)
(* The invariant adds to the properties what update relies on between two  *)
(* lock sections: only update removes, so its snapshot and its removal     *)
(* list stay inside txstore.                                               *)
(***************************************************************************)
EXTENDS Mempool, FiniteSetTheorems, SequenceTheorems, TLAPS

SnapshotInv ==
    /\ pc \in {"txids", "remove"} => old \subseteq txstore
    /\ pc = "remove" => gone \subseteq old
    /\ pc # "remove" => gone = {}

IInv == TypeOK /\ HistoryOnce /\ EdgesLive /\ NoPanic /\ SnapshotInv

-----------------------------------------------------------------------------
(* push_front_capped keeps a sequence of transactions within the cap.      *)
LEMMA RecentCapped ==
    ASSUME TypeOK, NEW S \in SUBSET Txs, NEW s \in SetToSeqs(S)
    PROVE  push_front_capped(s) \in Seq(Txs) /\ Len(push_front_capped(s)) <= config.recentSize
PROOF
<1>1. s \in Seq(Txs)
  <2>1. PICK n : s \in [1..n -> S] /\ n = Cardinality(S)
    BY DEF SetToSeqs
  <2>2. IsFiniteSet(S)
    BY MempoolAssumption, FS_Subset
  <2>3. n \in Nat
    BY <2>1, <2>2, FS_CardinalityType
  <2> QED
    BY <2>1, <2>3, SeqDef
<1>2. recent \in Seq(Txs) /\ s \o recent \in Seq(Txs) /\ Len(s \o recent) \in Nat
  BY <1>1 DEF TypeOK
<1>5. config.recentSize \in Nat
  BY ConfigAssumption DEF TypeOK, ConfigAssumption
<1> DEFINE k == IF Len(s \o recent) < config.recentSize THEN Len(s \o recent) ELSE config.recentSize
<1>3. k \in 0..Len(s \o recent) /\ k <= config.recentSize
  BY <1>2, <1>5
<1>4. SubSeq(s \o recent, 1, k) \in Seq(Txs) /\ Len(SubSeq(s \o recent, 1, k)) = k
  <2> HIDE DEF k
  <2> QED BY <1>2, <1>3, SubSeqProperties
<1> QED BY <1>3, <1>4 DEF push_front_capped

(* Mempool::add keeps the invariant, for any batch of transactions.        *)
LEMMA AddKeeps ==
    ASSUME IInv, NEW S \in SUBSET Txs, Add(S)
    PROVE  /\ txstore' \subseteq Txs /\ feeinfo' \subseteq Txs
           /\ history' \in [Txs -> Nat] /\ edges' \in [Spent -> Txs \cup {NoTx}]
           /\ recent' \in Seq(Txs) /\ Len(recent') <= config.recentSize
           /\ HistoryOnce' /\ EdgesLive'
           /\ txstore \subseteq txstore'
PROOF
<1> USE DEF IInv
<1>1. Processed(S) \subseteq S /\ Processed(S) \cap txstore = {}
  BY DEF Processed, Fresh
<1>2. recent' \in Seq(Txs) /\ Len(recent') <= config.recentSize
  <2>1. Processed(S) \in SUBSET Txs
    BY <1>1
  <2> QED BY <2>1, RecentCapped DEF Add
<1>3. txstore' \subseteq Txs /\ feeinfo' \subseteq Txs /\ txstore \subseteq txstore'
  BY <1>1 DEF Add, TypeOK
<1>4. history' \in [Txs -> Nat]
  BY <1>1 DEF Add, TypeOK
<1>5. HistoryOnce'
  BY <1>1 DEF Add, TypeOK, HistoryOnce
<1>6. edges' \in [Spent -> Txs \cup {NoTx}] /\ EdgesLive'
  <2> SUFFICES ASSUME NEW o \in Spent
               PROVE  /\ edges'[o] \in Txs \cup {NoTx}
                      /\ edges'[o] # NoTx => edges'[o] \in feeinfo' /\ o \in Prevouts[edges'[o]]
    BY DEF Add, EdgesLive
  <2>1. CASE \E tx \in Processed(S) : o \in Prevouts[tx]
    <3>1. edges'[o] = CHOOSE tx \in Processed(S) : o \in Prevouts[tx]
      BY <2>1 DEF Add
    <3>2. edges'[o] \in Processed(S) /\ o \in Prevouts[edges'[o]]
      BY <2>1, <3>1
    <3> QED BY <3>2, <1>1 DEF Add
  <2>2. CASE ~ \E tx \in Processed(S) : o \in Prevouts[tx]
    <3>1. edges'[o] = edges[o]
      BY <2>2 DEF Add
    <3> QED BY <3>1 DEF Add, TypeOK, EdgesLive
  <2> QED BY <2>1, <2>2
<1> QED BY <1>2, <1>3, <1>4, <1>5, <1>6

LEMMA IInvInit == Init => IInv
PROOF
<1> SUFFICES ASSUME Init PROVE IInv
  OBVIOUS
<1>1. recent \in Seq(Txs) /\ Len(recent) = 0 /\ config \in Configs /\ 0 <= config.recentSize
  BY ConfigAssumption DEF Init, ConfigAssumption
<1>2. history \in [Txs -> Nat] /\ edges \in [Spent -> Txs \cup {NoTx}]
  BY DEF Init
<1>3. /\ pool \subseteq Txs /\ mined \subseteq Txs /\ faults \in 0..MaxFaults
      /\ indexed \subseteq Txs /\ Len(recent) <= config.recentSize
  BY <1>1, MempoolAssumption DEF Init
<1>4. TypeOK
  BY <1>1, <1>2, <1>3 DEF Init, TypeOK
<1> QED
  BY <1>4, MempoolAssumption DEF Init, IInv, HistoryOnce, EdgesLive, NoPanic, SnapshotInv

(* One step per action.                                                    *)
LEMMA IInvStep == IInv /\ [Next]_vars => IInv'
PROOF
<1> SUFFICES ASSUME IInv, [Next]_vars PROVE IInv'
  OBVIOUS
<1> USE MempoolAssumption DEF IInv, daemon, mempool, local
<1>1. CASE Accept \/ Mine \/ Evict \/ Disconnect
  <2>1. pool' \subseteq Txs /\ mined' \subseteq Txs /\ faults' \in 0..MaxFaults
    <3>1. CASE Accept
      BY <3>1 DEF Accept, Enter, TypeOK
    <3>2. CASE Mine
      BY <3>2 DEF Mine, TypeOK
    <3>3. CASE Evict
      BY <3>3 DEF Evict, TypeOK
    <3>4. CASE Disconnect
      BY <3>4 DEF Disconnect, TypeOK
    <3> QED BY <1>1, <3>1, <3>2, <3>3, <3>4
  <2>2. UNCHANGED <<config, indexed, mempool, backlog, expired, pc, serving, local, pending>>
    BY <1>1 DEF Accept, Mine, Evict, Disconnect
  <2> QED BY <2>1, <2>2 DEF TypeOK, HistoryOnce, EdgesLive, NoPanic, SnapshotInv
<1>2. CASE IndexChain
  BY <1>2 DEF IndexChain, TypeOK, HistoryOnce, EdgesLive, NoPanic, SnapshotInv
<1>3. CASE Snapshot
  BY <1>3 DEF Snapshot, TypeOK, HistoryOnce, EdgesLive, NoPanic, SnapshotInv
<1>4. CASE GetTxids
  BY <1>4 DEF GetTxids, ToRemove, TypeOK, HistoryOnce, EdgesLive, NoPanic, SnapshotInv
<1>5. CASE RpcError
  BY <1>5 DEF RpcError, Abandon, AfterError, TypeOK, HistoryOnce, EdgesLive, NoPanic, SnapshotInv
<1>6. CASE RemoveGone
  <2>1. gone \subseteq txstore
    BY <1>6 DEF RemoveGone, SnapshotInv
  <2>2. NoPanic' /\ SnapshotInv'
    BY <1>6, <2>1 DEF RemoveGone, NoPanic, SnapshotInv
  <2>3. HistoryOnce'
    BY <1>6, <2>1 DEF RemoveGone, HistoryOnce, TypeOK
  <2>4. \A o \in Spent : edges'[o] = IF edges[o] \in gone THEN NoTx ELSE edges[o]
    BY <1>6, <2>1 DEF RemoveGone, EdgesWithout
  <2>5. EdgesLive'
    BY <1>6, <2>1, <2>4 DEF RemoveGone, EdgesLive, TypeOK
  <2>6. edges' \in [Spent -> Txs \cup {NoTx}]
    BY <1>6, <2>1 DEF RemoveGone, EdgesWithout, TypeOK
  <2>7. config' = config /\ history' \in [Txs -> Nat] /\ recent' \in Seq(Txs) /\ Len(recent') <= config.recentSize
    BY <1>6, <2>1 DEF RemoveGone, TypeOK
  <2>8. TypeOK'
    BY <1>6, <2>1, <2>6, <2>7 DEF RemoveGone, TypeOK
  <2> QED BY <2>2, <2>3, <2>5, <2>8
<1>7. CASE Fetch
  BY <1>7 DEF Fetch, Abandon, AfterError, TypeOK, HistoryOnce, EdgesLive, NoPanic, SnapshotInv
<1>8. CASE AddFetched
  <2>1. want \in SUBSET Txs /\ Add(want)
    BY <1>8 DEF AddFetched, TypeOK
  <2>2. backlog' \subseteq Txs /\ expired' \in BOOLEAN
    BY <1>8, <2>1, AddKeeps DEF AddFetched, StatsAfter, TypeOK
  <2>3. TypeOK'
    BY <1>8, <2>1, <2>2, AddKeeps DEF AddFetched, TypeOK
  <2> QED BY <1>8, <2>1, <2>3, AddKeeps DEF AddFetched, NoPanic, SnapshotInv
<1>9. CASE Expire
  BY <1>9 DEF Expire, TypeOK, HistoryOnce, EdgesLive, NoPanic, SnapshotInv
<1>10. CASE Broadcast
  <2>1. pool' \subseteq Txs /\ pending' \subseteq Txs
    BY <1>10 DEF Broadcast, Enter, TypeOK
  <2> QED BY <1>10, <2>1 DEF Broadcast, TypeOK, HistoryOnce, EdgesLive, NoPanic, SnapshotInv
<1>11. CASE AddByTxid
  <2>1. PICK tx \in pending : /\ pending' = pending \ {tx}
                              /\ Add({tx}) \/ UNCHANGED mempool
    BY <1>11 DEF AddByTxid
  <2>2. UNCHANGED <<config, pool, mined, faults, indexed, backlog, expired, pc, serving, old, gone, want>>
    BY <1>11 DEF AddByTxid
  <2>3. CASE Add({tx})
    <3>1. {tx} \in SUBSET Txs
      BY <2>1 DEF TypeOK
    <3> HIDE DEF mempool
    <3>2. TypeOK'
      BY <2>1, <2>2, <2>3, <3>1, AddKeeps DEF TypeOK
    <3>3. SnapshotInv' /\ NoPanic'
      BY <2>2, <2>3, <3>1, AddKeeps DEF SnapshotInv, NoPanic
    <3> QED BY <2>3, <3>1, <3>2, <3>3, AddKeeps
  <2>4. CASE UNCHANGED mempool
    BY <2>1, <2>2, <2>4 DEF TypeOK, HistoryOnce, EdgesLive, NoPanic, SnapshotInv
  <2> QED BY <2>1, <2>3, <2>4
<1>12. CASE UNCHANGED vars
  BY <1>12 DEF vars, TypeOK, HistoryOnce, EdgesLive, NoPanic, SnapshotInv
<1> QED
  BY <1>1, <1>2, <1>3, <1>4, <1>5, <1>6, <1>7, <1>8, <1>9, <1>10, <1>11, <1>12
  DEF Next, UpdateStep

LEMMA IInvAlways == Spec => []IInv
BY IInvInit, IInvStep, PTL DEF Spec

(* The variables of the mempool keep their types.                          *)
THEOREM TypeCorrect == Spec => []TypeOK
PROOF
<1>1. IInv => TypeOK
  BY DEF IInv
<1> QED BY <1>1, IInvAlways, PTL

(* The test in phase 1 of Mempool::add is enough for update and the        *)
(* broadcasters never to index one transaction twice.                      *)
THEOREM HistoryOnceAlways == Spec => []HistoryOnce
PROOF
<1>1. IInv => HistoryOnce
  BY DEF IInv
<1> QED BY <1>1, IInvAlways, PTL

(* lookup_spend answers with indexed transactions only.                    *)
THEOREM EdgesLiveAlways == Spec => []EdgesLive
PROOF
<1>1. IInv => EdgesLive
  BY DEF IInv
<1> QED BY <1>1, IInvAlways, PTL

(* Mempool::remove never panics.                                           *)
THEOREM RemoveNeverPanics == Spec => []NoPanic
PROOF
<1>1. IInv => NoPanic
  BY DEF IInv
<1> QED BY <1>1, IInvAlways, PTL

(* An update never removes a transaction that arrived after its snapshot.  *)
THEOREM NewcomersAlwaysStay == Spec => NewcomersStay
PROOF
<1>1. IInv /\ [Next]_vars => [txstore \ txstore' \subseteq old]_vars
  <2> SUFFICES ASSUME IInv, Next PROVE txstore \ txstore' \subseteq old
    OBVIOUS
  <2> USE DEF IInv, daemon, mempool, local
  <2>1. CASE RemoveGone
    BY <2>1 DEF RemoveGone, SnapshotInv
  <2>2. CASE AddFetched
    BY <2>2 DEF AddFetched, Add
  <2>3. CASE AddByTxid
    BY <2>3 DEF AddByTxid, Add
  <2>4. CASE UNCHANGED txstore
    BY <2>4
  <2> QED
    BY <2>1, <2>2, <2>3, <2>4 DEF Next, UpdateStep, Accept, Mine, Evict, Disconnect, IndexChain,
       Snapshot, GetTxids, RpcError, Fetch, Expire, Broadcast
<1> QED BY <1>1, IInvAlways, PTL DEF Spec, NewcomersStay

-----------------------------------------------------------------------------
(* Without broadcasters the mempool only changes by what update listed at  *)
(* one moment of bitcoind's pool, whose transactions are compatible with   *)
(* each other and with the best chain.                                     *)
PollingInv ==
    /\ pending = {}
    /\ Compatible(pool \cup mined) /\ Compatible(txstore)
    /\ pc = "txids" => old = txstore
    /\ pc = "remove" => Compatible((txstore \ gone) \cup want)
    /\ pc \in {"fetch", "add"} => Compatible(txstore \cup want)
    /\ SpendsRecorded

LEMMA PollingInit == Init => PollingInv
BY MempoolAssumption DEF Init, PollingInv, Compatible, SpendsRecorded

(* What update adds conflicts with nothing that is stored, so the later    *)
(* insert of a spend edge never overwrites one.                            *)
LEMMA AddRecords ==
    ASSUME IInv, PollingInv, NEW S \in SUBSET Txs, Add(S), Compatible(txstore \cup S)
    PROVE  SpendsRecorded'
<1> SUFFICES ASSUME NEW tx \in feeinfo', NEW o \in Prevouts[tx] PROVE edges'[o] = tx
  BY DEF SpendsRecorded
<1>1. Processed(S) \subseteq S /\ Processed(S) \cap txstore = {} /\ feeinfo \subseteq txstore
  BY DEF Processed, Fresh, IInv, HistoryOnce
<1>2. feeinfo' = feeinfo \cup Processed(S) /\ tx \in Txs
  BY <1>1 DEF Add, IInv, TypeOK
<1>3. o \in Spent
  BY <1>2 DEF Spent
<1>4. /\ (\E u \in Processed(S) : o \in Prevouts[u]) =>
            edges'[o] = CHOOSE u \in Processed(S) : o \in Prevouts[u]
      /\ ~(\E u \in Processed(S) : o \in Prevouts[u]) => edges'[o] = edges[o]
  BY <1>3 DEF Add
<1>5. \A u \in Processed(S) : o \in Prevouts[u] => u = tx
  BY <1>1, <1>2 DEF Compatible
<1>6. CASE tx \in Processed(S)
  BY <1>4, <1>5, <1>6
<1>7. CASE tx \notin Processed(S)
  BY <1>2, <1>4, <1>5, <1>7 DEF PollingInv, SpendsRecorded
<1> QED BY <1>6, <1>7

LEMMA PollingStep ==
    ASSUME ~config.mayBroadcast, IInv, PollingInv, [Next]_vars
    PROVE  PollingInv'
<1> USE MempoolAssumption DEF daemon, mempool, local
<1>0. TypeOK /\ SnapshotInv /\ HistoryOnce
  BY DEF IInv
<1>1. CASE Accept \/ Mine \/ Evict \/ Disconnect
  <2>1. Compatible(pool' \cup mined')
    <3>1. CASE Accept
      <4>1. PICK tx \in Txs : MayEnter(tx) /\ Enter(tx)
        BY <3>1 DEF Accept
      <4>2. /\ Conflicts(tx) \cap pool' = {} /\ Conflicts(tx) \cap mined = {}
            /\ pool' \subseteq pool \cup {tx} /\ pool' \subseteq Txs
        BY <1>0, <4>1 DEF MayEnter, Enter, Replaced, WithDescendants, Conflicts, TypeOK
      <4>3. \A u \in pool' \cup mined : u # tx => Prevouts[u] \cap Prevouts[tx] = {}
        BY <1>0, <4>2 DEF Conflicts, TypeOK
      <4>4. mined' = mined
        BY <3>1 DEF Accept
      <4> QED BY <4>2, <4>3, <4>4 DEF PollingInv, Compatible
    <3>2. CASE Mine
      BY <3>2 DEF Mine, PollingInv, Compatible
    <3>3. CASE Evict
      BY <3>3 DEF Evict, PollingInv, Compatible
    <3>4. CASE Disconnect
      BY <3>4 DEF Disconnect, PollingInv, Compatible
    <3> QED BY <1>1, <3>1, <3>2, <3>3, <3>4
  <2>2. UNCHANGED <<indexed, mempool, pc, local, pending>>
    BY <1>1 DEF Accept, Mine, Evict, Disconnect
  <2> QED BY <2>1, <2>2 DEF PollingInv, SpendsRecorded
<1>2. CASE IndexChain \/ Snapshot \/ Expire
  BY <1>2 DEF IndexChain, Snapshot, Expire, PollingInv, SpendsRecorded
<1>3. CASE GetTxids
  <2>1. (txstore \ gone') \cup want' = pool
    BY <1>3 DEF GetTxids, ToRemove, PollingInv
  <2>2. Compatible(pool)
    BY DEF PollingInv, Compatible
  <2>3. pc' = "remove" /\ UNCHANGED <<pool, mined, txstore, feeinfo, edges, pending>>
    BY <1>3 DEF GetTxids
  <2> QED BY <2>1, <2>2, <2>3 DEF PollingInv, SpendsRecorded
<1>4. CASE RpcError
  BY <1>4 DEF RpcError, Abandon, AfterError, PollingInv, SpendsRecorded
<1>5. CASE RemoveGone
  <2>1. /\ pc = "remove" /\ pc' = "fetch" /\ txstore' = txstore \ gone /\ feeinfo' = feeinfo \ gone
        /\ edges' = EdgesWithout(gone)
        /\ UNCHANGED <<pool, mined, want, pending>>
    BY <1>0, <1>5 DEF RemoveGone, SnapshotInv
  <2>2. SpendsRecorded'
    <3> SUFFICES ASSUME NEW tx \in feeinfo', NEW o \in Prevouts[tx] PROVE edges'[o] = tx
      BY DEF SpendsRecorded
    <3>1. tx \in feeinfo /\ tx \notin gone /\ tx \in Txs
      BY <1>0, <2>1 DEF TypeOK
    <3>2. o \in Spent /\ edges[o] = tx
      BY <3>1 DEF Spent, PollingInv, SpendsRecorded
    <3> QED BY <2>1, <3>1, <3>2 DEF EdgesWithout
  <2>3. Compatible(txstore') /\ Compatible(txstore' \cup want')
    BY <2>1 DEF PollingInv, Compatible
  <2> QED BY <2>1, <2>2, <2>3 DEF PollingInv
<1>6. CASE Fetch
  <2>1. /\ pc = "fetch" /\ pc' \in {"add", "start", "snapshot"} /\ want' \subseteq want
        /\ UNCHANGED <<pool, mined, txstore, feeinfo, edges, pending>>
    BY <1>6 DEF Fetch, Abandon, AfterError
  <2> QED BY <2>1 DEF PollingInv, Compatible, SpendsRecorded
<1>7. CASE AddFetched
  <2>1. want \in SUBSET Txs /\ Add(want) /\ Compatible(txstore \cup want)
    BY <1>0, <1>7 DEF AddFetched, TypeOK, PollingInv
  <2>2. SpendsRecorded'
    BY <2>1, AddRecords
  <2>3. txstore' = txstore \cup want /\ pc' = "start" /\ UNCHANGED <<pool, mined, pending>>
    BY <1>7 DEF AddFetched, Add
  <2> QED BY <2>1, <2>2, <2>3 DEF PollingInv
<1>8. CASE Broadcast \/ AddByTxid
  BY <1>8 DEF Broadcast, AddByTxid, PollingInv
<1>9. CASE UNCHANGED vars
  BY <1>9 DEF vars, PollingInv, SpendsRecorded
<1> QED
  BY <1>1, <1>2, <1>3, <1>4, <1>5, <1>6, <1>7, <1>8, <1>9 DEF Next, UpdateStep

(* No step changes how the server and bitcoind were started.               *)
LEMMA ConfigKept == [Next]_vars => config' = config
BY DEF Next, UpdateStep, vars, Accept, Mine, Evict, Disconnect, IndexChain, Snapshot, GetTxids, RpcError,
   RemoveGone, Fetch, AddFetched, Expire, Broadcast, AddByTxid

(* Where no client broadcasts through the server, every input of an        *)
(* indexed transaction is recorded as spent by it, whatever replacements,  *)
(* evictions, blocks and reorganisations come between the moment update    *)
(* lists bitcoind's pool and the moment it adds what it downloaded.        *)
THEOREM PollingRecordsSpends == Spec => []PollingSpendsRecorded
<1> DEFINE Inv == ~config.mayBroadcast => PollingInv
<1>1. IInv /\ Inv /\ [Next]_vars => Inv'
  <2>1. [Next]_vars => config' = config
    BY ConfigKept
  <2> QED BY <2>1, PollingStep
<1>2. Init => Inv
  BY PollingInit
<1>3. Inv => PollingSpendsRecorded
  BY DEF PollingInv, PollingSpendsRecorded
<1> HIDE DEF Inv
<1> QED BY <1>1, <1>2, <1>3, IInvAlways, PTL DEF Spec
=============================================================================
