--------------------------- MODULE DepositProofs ---------------------------
(***************************************************************************)
(* What the gateway may be trusted with, for every choice of transactions, *)
(* accounts, heights and failures: the asset transfers it issues are       *)
(* backed by deposits deep enough in the coin's chain, none is issued      *)
(* against change, and none is issued a second time, unless an answer was  *)
(* lost.                                                                   *)
(***************************************************************************)
EXTENDS Deposit, FiniteSetTheorems, WellFoundedInduction, TLAPS

Events == [kind : {"AM", "XFER"}, out : Outs, id : Nat \ {0}]
Structures == [out : Outs, coin_confirmed : BOOLEAN, internal : BOOLEAN, asset : Nat,
               pending : {0, 1}, confirmed : {0, 1}]
Transactions == [known : Nat, vouts : Seq(Nat), am : {0, 1}, xfer : Nat]
Looks == [block : Int, isconfirmed : BOOLEAN]
Labels == {"top", "block", "blocks", "tx", "decode", "retry", "assets", "record"}
Loops == [at : Labels, block : Nat, initdone : BOOLEAN, tip : Nat, blocks : Seq(Looks),
          flag : {0, 1}, txs : SUBSET Txids, isconfirmed : BOOLEAN, tries : SUBSET Outs,
          list : SUBSET Nat, next : {"top", "blocks"}, txid : Nat]

(* A block's number is no more than that of the last confirmed one.        *)
DeepBlock(b) == b <= height - MinConf

(* What the gateways sent.                                                 *)
Backed(e) == e.kind = "XFER" /\ Out(e.out).acct \in Mine =>
               DeepBlock(BlockOf[e.out[1]]) /\ ~Out(e.out).change
WorldFine ==
  /\ setting \in Settings /\ height \in Nat /\ height <= MaxHeight
  /\ nxt \in Seq(Events) /\ mempool \in SUBSET Events /\ IsFiniteSet(mempool)
  /\ seen \in Nat /\ seen <= Len(nxt)
  /\ \A e \in mempool : Backed(e)
  /\ \A k \in 1..Len(nxt) : Backed(nxt[k])

(* A structure says of its output what is so: change is marked as such,    *)
(* and confirmed is what is deep enough.                                   *)
Honest(x) == /\ x.internal = Out(x.out).change
             /\ x.coin_confirmed => DeepBlock(BlockOf[x.out[1]])
XpsFine == xps \in Seq(Structures) /\ \A i \in 1..Len(xps) : Honest(xps[i])

(* A transaction's array has a place for each of its outputs, or none.     *)
Placed(tx, t) ==
  /\ t.vouts # <<>> => Len(t.vouts) = Len(Outputs[tx])
  /\ t.known \in {0, Len(Outputs[tx])} /\ t.known <= Len(t.vouts)
  /\ \A v \in 1..Len(t.vouts) : t.vouts[v] \in 1..Len(xps)
TpsFine == tps \in [Txids -> Transactions] /\ \A tx \in Txids : Placed(tx, tps[tx])

(* What the scan takes for confirmed is deep enough.                       *)
LoopGood(l) ==
  /\ l \in Loops
  /\ \A k \in 1..Len(l.blocks) : l.blocks[k].isconfirmed => DeepBlock(l.blocks[k].block)
  /\ l.isconfirmed => \A tx \in l.txs : DeepBlock(BlockOf[tx])
  /\ l.at = "decode" => l.txs # {}
  /\ l.at = "record" => l.list # {}
  /\ \A i \in l.list : i \in 1..Len(xps)
LoopFine == LoopGood(loop) /\ retry \subseteq Outs

DepositInv == WorldFine /\ XpsFine /\ TpsFine /\ LoopFine
-----------------------------------------------------------------------------
(* Outputs                                                                 *)

(* The outputs of a setting are pairs of a transaction and a place in it.  *)
LEMMA OutsOf ==
  ASSUME setting \in Settings
  PROVE  /\ Txids \subseteq DOMAIN Outputs
         /\ \A tx \in Txids : BlockOf[tx] \in Nat /\ Len(Outputs[tx]) \in Nat
         /\ \A tx \in Txids : \A v \in 1..Len(Outputs[tx]) : <<tx, v>> \in Outs
         /\ \A o \in Outs : /\ o = <<o[1], o[2]>> /\ o[1] \in Txids
                            /\ o[2] \in 1..Len(Outputs[o[1]])
         /\ \A o \in Outs : Out(o) \in [acct : Accounts, value : Nat \ {0}, change : BOOLEAN]
  <1>1. Txids \subseteq DOMAIN Outputs
    BY DepositAssumption DEF Txids, BlockOf
  <1>2. \A tx \in Txids : BlockOf[tx] \in Nat
    BY DepositAssumption DEF Txids, BlockOf, Range
  <1>3. \A tx \in Txids :
          Outputs[tx] \in Seq([acct : Accounts, value : Nat \ {0}, change : BOOLEAN])
    BY <1>1, DepositAssumption
  <1>4. \A tx \in Txids : Len(Outputs[tx]) \in Nat /\ DOMAIN Outputs[tx] = 1..Len(Outputs[tx])
    BY <1>3
  <1>5. ASSUME NEW tx \in Txids, NEW v \in 1..Len(Outputs[tx]) PROVE <<tx, v>> \in Outs
    BY <1>4 DEF Outs
  <1>6. ASSUME NEW o \in Outs
        PROVE  o = <<o[1], o[2]>> /\ o[1] \in Txids /\ o[2] \in 1..Len(Outputs[o[1]])
    <2>1. PICK tx \in Txids : o \in {<<tx, v>> : v \in DOMAIN Outputs[tx]}
      BY DEF Outs
    <2>2. PICK v \in DOMAIN Outputs[tx] : o = <<tx, v>>
      BY <2>1
    <2> QED BY <2>2, <1>4
  <1>7. ASSUME NEW o \in Outs
        PROVE  Out(o) \in [acct : Accounts, value : Nat \ {0}, change : BOOLEAN]
    <2> DEFINE Record == [acct : Accounts, value : Nat \ {0}, change : BOOLEAN]
    <2>1. \A tx \in Txids : Outputs[tx] \in Seq(Record)
      BY <1>3
    <2> HIDE DEF Record
    <2>2. \A tx \in Txids : \A v \in 1..Len(Outputs[tx]) : Outputs[tx][v] \in Record
      BY <2>1
    <2>3. Out(o) \in Record
      BY <2>2, <1>6 DEF Out
    <2> QED BY <2>3 DEF Record
  <1> QED BY <1>1, <1>2, <1>4, <1>5, <1>6, <1>7

(* Only the setting decides what the outputs are.                          *)
LEMMA OutsKept ==
  ASSUME setting' = setting
  PROVE  /\ Txids' = Txids /\ BlockOf' = BlockOf /\ Outs' = Outs /\ Events' = Events
         /\ Structures' = Structures /\ (hasDaemon <=> hasDaemon')
  <1>1. Txids' = Txids /\ BlockOf' = BlockOf
    BY DEF Txids, BlockOf
  <1>2. Outs' = Outs
    BY <1>1 DEF Outs
  <1> QED BY <1>1, <1>2 DEF Events, Structures, hasDaemon

(* What is deep enough stays so while the coin's chain grows.              *)
LEMMA DeepKept ==
  ASSUME setting \in Settings, setting' = setting, height \in Nat, height' \in Nat,
         height' >= height
  PROVE  /\ \A b \in Int : DeepBlock(b) => DeepBlock(b)'
         /\ \A e \in Events : Backed(e) => Backed(e)'
         /\ \A x \in Structures : Honest(x) => Honest(x)'
  <1>1. \A b \in Int : DeepBlock(b) => DeepBlock(b)'
    BY DepositAssumption DEF DeepBlock
  <1>2. \A o \in Outs : BlockOf[o[1]] \in Int
    BY OutsOf
  <1>3. BlockOf' = BlockOf
    BY OutsKept
  <1>4. ASSUME NEW e \in Events, Backed(e) PROVE Backed(e)'
    BY <1>1, <1>2, <1>3, <1>4 DEF Backed, Events, Out
  <1>5. ASSUME NEW x \in Structures, Honest(x) PROVE Honest(x)'
    BY <1>1, <1>2, <1>3, <1>5 DEF Honest, Structures, Out
  <1> QED BY <1>1, <1>4, <1>5

-----------------------------------------------------------------------------
(* Steps that leave a part alone                                           *)

LEMMA WorldKept ==
  ASSUME WorldFine, UNCHANGED <<setting, height, nxt, mempool>>,
         seen' \in Nat, seen' <= Len(nxt)
  PROVE  WorldFine'
  <1>1. Events' = Events /\ BlockOf' = BlockOf
    BY OutsKept
  <1>2. \A e : Backed(e) => Backed(e)'
    BY <1>1 DEF Backed, Out, DeepBlock
  <1> QED BY <1>1, <1>2 DEF WorldFine

LEMMA XpsKept ==
  ASSUME WorldFine, XpsFine, UNCHANGED <<setting, xps>>, height' \in Nat, height' >= height
  PROVE  XpsFine'
  <1>1. Structures' = Structures
    BY OutsKept
  <1>2. \A x \in Structures : Honest(x) => Honest(x)'
    BY DeepKept DEF WorldFine
  <1>3. \A i \in 1..Len(xps) : xps[i] \in Structures
    BY DEF XpsFine
  <1> QED BY <1>1, <1>2, <1>3 DEF XpsFine

LEMMA TpsKept ==
  ASSUME TpsFine, UNCHANGED <<setting, tps>>, Len(xps) \in Nat, Len(xps') \in Nat,
         Len(xps') >= Len(xps)
  PROVE  TpsFine'
  <1>1. Txids' = Txids
    BY OutsKept
  <1>2. \A tx \in Txids : Placed(tx, tps[tx]) => Placed(tx, tps[tx])'
    BY DEF Placed, TpsFine, Transactions
  <1> QED BY <1>1, <1>2 DEF TpsFine, Transactions

LEMMA LoopKept ==
  ASSUME WorldFine, LoopFine, UNCHANGED <<setting, loop>>, retry' \subseteq Outs,
         height' \in Nat, height' >= height, Len(xps) \in Nat, Len(xps') \in Nat, Len(xps') >= Len(xps)
  PROVE  LoopFine'
  <1>1. Txids' = Txids /\ Outs' = Outs /\ BlockOf' = BlockOf
    BY OutsKept
  <1>2. \A b \in Int : DeepBlock(b) => DeepBlock(b)'
    BY DeepKept DEF WorldFine
  <1>3. Loops' = Loops
    BY <1>1 DEF Loops, Looks, Labels
  <1>4. \A tx \in Txids : BlockOf[tx] \in Int
    BY OutsOf DEF WorldFine
  <1>5. /\ loop.txs \subseteq Txids /\ loop.blocks \in Seq(Looks) /\ loop.list \subseteq Nat
    BY DEF LoopFine, LoopGood, Loops
  <1>6. \A k \in 1..Len(loop.blocks) : loop.blocks[k].block \in Int
    <2>1. \A k \in 1..Len(loop.blocks) : loop.blocks[k] \in Looks
      BY <1>5
    <2> QED BY <2>1 DEF Looks
  <1> HIDE DEF Loops
  <1> QED BY <1>1, <1>2, <1>3, <1>4, <1>5, <1>6 DEF LoopFine, LoopGood
LEMMA DepositInit == Init => DepositInv
  <1> SUFFICES ASSUME Init PROVE DepositInv
    OBVIOUS
  <1>1. setting \in Settings /\ height = StartHeight /\ nxt = <<>> /\ mempool = {} /\ seen = 0
    BY DEF Init
  <1>2. WorldFine
    BY <1>1, FS_EmptySet, DepositAssumption DEF WorldFine
  <1>3. XpsFine
    BY DEF Init, XpsFine
  <1>4. TpsFine
    <2>1. \A tx \in Txids : Len(Outputs[tx]) \in Nat
      BY <1>1, OutsOf
    <2> QED BY <2>1 DEF Init, TpsFine, NoTx, Transactions, Placed
  <1>5. LoopFine
    <2>1. loop \in Loops
      BY DepositAssumption DEF Init, AtTop, Loops, Labels
    <2> QED BY <2>1 DEF Init, AtTop, LoopFine, LoopGood
  <1> QED BY <1>2, <1>3, <1>4, <1>5 DEF DepositInv

(* What is sent is numbered.                                               *)
LEMMA FreshEvent ==
  ASSUME WorldFine, NEW o \in Outs, NEW kind \in {"AM", "XFER"}
  PROVE  /\ Fresh(kind, o) \in Events
         /\ Fresh(kind, o).kind = kind /\ Fresh(kind, o).out = o
         /\ IsFiniteSet(Issued(kind, o)) /\ Cardinality(Issued(kind, o)) \in Nat
  <1>1. nxt \in Surjection(1..Len(nxt), Range(nxt))
    BY DEF WorldFine, Surjection, Range
  <1>2. IsFiniteSet(1..Len(nxt))
    BY FS_Interval DEF WorldFine
  <1>3. IsFiniteSet(Range(nxt) \cup mempool)
    BY <1>1, <1>2, FS_Surjection, FS_Union DEF WorldFine
  <1>4. IsFiniteSet(Issued(kind, o))
    BY <1>3, FS_Subset DEF Issued
  <1>5. Cardinality(Issued(kind, o)) \in Nat
    BY <1>4, FS_CardinalityType
  <1> QED BY <1>4, <1>5 DEF Fresh, Events

-----------------------------------------------------------------------------
(* The messages and transfers of the NXT chain                             *)

(* Marks on a structure leave what it says of its output alone.            *)
LEMMA XpsMarked ==
  ASSUME XpsFine, UNCHANGED <<setting, height>>,
         xps' \in [1..Len(xps) -> Structures],
         \A i \in 1..Len(xps) :
           /\ xps'[i].out = xps[i].out /\ xps'[i].internal = xps[i].internal
           /\ xps'[i].coin_confirmed = xps[i].coin_confirmed
  PROVE  XpsFine' /\ Len(xps') = Len(xps)
  <1>1. Structures' = Structures /\ BlockOf' = BlockOf
    BY OutsKept
  <1>2. Len(xps) \in Nat /\ \A i \in 1..Len(xps) : Honest(xps[i])
    BY DEF XpsFine
  <1> HIDE DEF Structures
  <1>3. xps' \in Seq(Structures) /\ Len(xps') = Len(xps)
    BY <1>2
  <1>4. \A i \in 1..Len(xps) : Honest(xps[i])'
    BY <1>1, <1>2 DEF Honest, Out, DeepBlock
  <1> QED BY <1>1, <1>3, <1>4 DEF XpsFine

LEMMA TpsMarked ==
  ASSUME TpsFine, UNCHANGED setting, Len(xps) \in Nat, Len(xps') = Len(xps),
         tps' \in [Txids -> Transactions],
         \A tx \in Txids : tps'[tx].vouts = tps[tx].vouts /\ tps'[tx].known = tps[tx].known
  PROVE  TpsFine'
  <1>1. Txids' = Txids
    BY OutsKept
  <1>2. \A tx \in Txids : Placed(tx, tps[tx])
    BY DEF TpsFine
  <1>3. \A tx \in Txids : Placed(tx, tps[tx])'
    BY <1>2 DEF Placed
  <1> HIDE DEF Transactions
  <1>4. Transactions' = Transactions
    BY DEF Transactions
  <1> QED BY <1>1, <1>3, <1>4 DEF TpsFine

(* An output a transaction knows has a structure.                          *)
LEMMA PlaceOf ==
  ASSUME XpsFine, TpsFine, NEW tx \in Txids, NEW v \in 1..Len(tps[tx].vouts)
  PROVE  tps[tx].vouts[v] \in 1..Len(xps) /\ xps[tps[tx].vouts[v]] \in Structures
  <1>1. tps[tx].vouts[v] \in 1..Len(xps)
    BY DEF TpsFine, Placed
  <1> HIDE DEF Structures
  <1> QED BY <1>1 DEF XpsFine

LEMMA TransactionOf ==
  ASSUME TpsFine, NEW tx \in Txids
  PROVE  /\ tps[tx].known \in Nat /\ tps[tx].vouts \in Seq(Nat) /\ tps[tx].am \in {0, 1}
         /\ tps[tx].xfer \in Nat /\ tps[tx].known <= Len(tps[tx].vouts)
         /\ DOMAIN tps[tx].vouts = 1..Len(tps[tx].vouts)
  BY DEF TpsFine, Placed, Transactions

LEMMA DecodeStep ==
  ASSUME DepositInv, NEW o \in Outs, DecodeDepositConfirmed(o), UNCHANGED <<setting, height>>
  PROVE  XpsFine' /\ TpsFine' /\ Len(xps') = Len(xps) /\ retry' \subseteq Outs
  <1> USE DEF DepositInv
  <1> DEFINE tp == tps[o[1]]
             i == tp.vouts[o[2]]
  <1>1. o[1] \in Txids /\ o[2] \in Nat \ {0} /\ retry \subseteq Outs /\ Len(xps) \in Nat
    <2>1. o[1] \in Txids /\ o[2] \in 1..Len(Outputs[o[1]]) /\ Len(Outputs[o[1]]) \in Nat
      BY OutsOf DEF WorldFine
    <2> QED BY <2>1 DEF LoopFine, XpsFine
  <1>2. /\ tp.known \in Nat /\ tp.vouts \in Seq(Nat) /\ tp.xfer \in Nat
        /\ DOMAIN tp.vouts = 1..Len(tp.vouts)
    BY <1>1, TransactionOf
  <1>3. ASSUME tps' = [tps EXCEPT ![o[1]].am = 1], UNCHANGED xps
        PROVE  XpsFine' /\ TpsFine' /\ Len(xps') = Len(xps)
    <2>1. tps' \in [Txids -> Transactions]
      BY <1>3 DEF TpsFine, Transactions
    <2>2. \A tx \in Txids : tps'[tx].vouts = tps[tx].vouts /\ tps'[tx].known = tps[tx].known
      BY <1>3 DEF TpsFine, Transactions
    <2> QED BY <1>1, <1>3, <2>1, <2>2, TpsMarked, XpsKept DEF WorldFine
  <1>4. ASSUME o[2] \in DOMAIN tp.vouts, SetPending(o, i)
        PROVE  XpsFine' /\ TpsFine' /\ Len(xps') = Len(xps)
    <2>1. i \in 1..Len(xps) /\ xps[i] \in Structures
      BY <1>1, <1>2, <1>4, PlaceOf
    <2>2. xps \in [1..Len(xps) -> Structures]
      <3> HIDE DEF Structures
      <3> QED BY DEF XpsFine
    <2> HIDE DEF i, tp
    <2>3. /\ xps' = [xps EXCEPT ![i].confirmed = 1, ![i].pending = 1]
          /\ tps' = [tps EXCEPT ![o[1]].xfer = xps[i].asset, ![o[1]].am = 1]
      BY <1>4 DEF SetPending
    <2>4. xps' \in [1..Len(xps) -> Structures]
      BY <2>1, <2>2, <2>3 DEF Structures
    <2>5. \A j \in 1..Len(xps) :
            /\ xps'[j].out = xps[j].out /\ xps'[j].internal = xps[j].internal
            /\ xps'[j].coin_confirmed = xps[j].coin_confirmed
      BY <2>1, <2>2, <2>3 DEF Structures
    <2>6. XpsFine' /\ Len(xps') = Len(xps)
      BY <2>4, <2>5, XpsMarked
    <2>7. xps[i].asset \in Nat
      BY <2>1 DEF Structures
    <2>8. tps' \in [Txids -> Transactions]
      BY <2>3, <2>7 DEF TpsFine, Transactions
    <2>9. \A tx \in Txids : tps'[tx].vouts = tps[tx].vouts /\ tps'[tx].known = tps[tx].known
      BY <2>3 DEF TpsFine, Transactions
    <2> QED BY <1>1, <2>6, <2>8, <2>9, TpsMarked
  <1>5. retry' \subseteq Outs
    BY <1>1 DEF DecodeDepositConfirmed
  <1> QED BY <1>3, <1>4, <1>5 DEF DecodeDepositConfirmed
LEMMA AssetStep ==
  ASSUME DepositInv, NEW o \in Outs, NEW id \in Nat, AssetEvent(o, id),
         UNCHANGED <<setting, height>>
  PROVE  XpsFine' /\ TpsFine' /\ Len(xps') = Len(xps) /\ retry' \subseteq Outs
  <1> USE DEF DepositInv
  <1> DEFINE tp == tps[o[1]]
             i == tp.vouts[o[2]]
  <1>1. o[1] \in Txids /\ o[2] \in Nat \ {0} /\ retry \subseteq Outs /\ Len(xps) \in Nat
    <2>1. o[1] \in Txids /\ o[2] \in 1..Len(Outputs[o[1]]) /\ Len(Outputs[o[1]]) \in Nat
      BY OutsOf DEF WorldFine
    <2> QED BY <2>1 DEF LoopFine, XpsFine
  <1>2. /\ tp.known \in Nat /\ tp.vouts \in Seq(Nat) /\ tp.known <= Len(tp.vouts)
    BY <1>1, TransactionOf
  <1>3. XpsFine' /\ Len(xps') = Len(xps)
    <2>1. CASE UNCHANGED xps
      BY <2>1, XpsKept DEF WorldFine
    <2>2. CASE o[2] <= tp.known /\ xps' = [xps EXCEPT ![i].asset = id]
      <3>1. i \in 1..Len(xps)
        <4>1. o[2] \in 1..Len(tp.vouts)
          BY <1>1, <1>2, <2>2
        <4> QED BY <1>1, <4>1, PlaceOf
      <3>2. xps \in [1..Len(xps) -> Structures]
        <4> HIDE DEF Structures
        <4> QED BY DEF XpsFine
      <3> HIDE DEF i, tp
      <3>3. xps' \in [1..Len(xps) -> Structures]
        BY <3>1, <3>2, <2>2 DEF Structures
      <3>4. \A j \in 1..Len(xps) :
              /\ xps'[j].out = xps[j].out /\ xps'[j].internal = xps[j].internal
              /\ xps'[j].coin_confirmed = xps[j].coin_confirmed
        BY <3>1, <3>2, <2>2 DEF Structures
      <3> QED BY <3>3, <3>4, XpsMarked
    <2> QED BY <2>1, <2>2 DEF AssetEvent
  <1>4. TpsFine'
    <2>1. tps' = [tps EXCEPT ![o[1]].xfer = id]
      BY DEF AssetEvent
    <2>2. tps' \in [Txids -> Transactions]
      BY <2>1 DEF TpsFine, Transactions
    <2>3. \A tx \in Txids : tps'[tx].vouts = tps[tx].vouts /\ tps'[tx].known = tps[tx].known
      BY <2>1 DEF TpsFine, Transactions
    <2> QED BY <1>1, <1>3, <2>2, <2>3, TpsMarked
  <1> QED BY <1>1, <1>3, <1>4 DEF AssetEvent

LEMMA HandleStep == ASSUME DepositInv, HandleEvent PROVE DepositInv'
  <1> USE DEF DepositInv
  <1> DEFINE e == nxt[seen + 1]
  <1>1. e \in Events /\ seen + 1 \in 1..Len(nxt)
    <2> HIDE DEF Events
    <2> QED BY DEF HandleEvent, WorldFine
  <1>2. e.out \in Outs /\ e.id \in Nat
    BY <1>1 DEF Events
  <1>3. UNCHANGED <<setting, height, nxt, mempool, loop>>
    BY DEF HandleEvent, world
  <1>4. seen' \in Nat /\ seen' <= Len(nxt)
    BY <1>1 DEF HandleEvent, WorldFine
  <1>5. DecodeDepositConfirmed(e.out) \/ AssetEvent(e.out, e.id)
    BY DEF HandleEvent
  <1> HIDE DEF e
  <1>6. XpsFine' /\ TpsFine' /\ Len(xps') = Len(xps) /\ retry' \subseteq Outs
    BY <1>2, <1>3, <1>5, DecodeStep, AssetStep
  <1>7. WorldFine'
    BY <1>3, <1>4, WorldKept
  <1>8. LoopFine'
    BY <1>3, <1>6, LoopKept DEF WorldFine, XpsFine
  <1> QED BY <1>6, <1>7, <1>8

LEMMA EndHistoryStep == ASSUME DepositInv, EndHistory PROVE DepositInv'
  <1> USE DEF DepositInv
  <1>1. UNCHANGED <<setting, height, nxt, mempool, seen, loop, retry, xps, tps>>
    BY DEF EndHistory, world, memory
  <1>2. seen' \in Nat /\ seen' <= Len(nxt) /\ height' \in Nat /\ height' >= height
        /\ Len(xps) \in Nat /\ Len(xps') = Len(xps)
    BY <1>1 DEF WorldFine, XpsFine
  <1> QED BY <1>1, <1>2, WorldKept, XpsKept, TpsKept, LoopKept, OutsKept DEF LoopFine
-----------------------------------------------------------------------------
(* Steps of the loop that leave the gateway's memory alone                 *)

LEMMA LoopOnly ==
  ASSUME DepositInv, UNCHANGED <<world, seen, memory>>, NEW l, loop' = l, LoopGood(l)
  PROVE  DepositInv'
  <1> USE DEF DepositInv
  <1>1. UNCHANGED <<setting, height, nxt, mempool, tps, xps, retry>>
    BY DEF world, memory
  <1>2. seen' \in Nat /\ seen' <= Len(nxt) /\ height' \in Nat /\ height' >= height
        /\ Len(xps) \in Nat /\ Len(xps') = Len(xps)
    BY <1>1 DEF WorldFine, XpsFine
  <1>3. WorldFine' /\ XpsFine' /\ TpsFine'
    BY <1>1, <1>2, WorldKept, XpsKept, TpsKept
  <1>4. Txids' = Txids /\ Outs' = Outs /\ BlockOf' = BlockOf
    BY <1>1, OutsKept
  <1>5. Loops' = Loops
    BY <1>4 DEF Loops, Looks, Labels
  <1> HIDE DEF Loops
  <1>6. LoopFine'
    BY <1>1, <1>2, <1>4, <1>5 DEF LoopFine, LoopGood, DeepBlock
  <1> QED BY <1>3, <1>6

(* The loop starts over.                                                   *)
LEMMA TopGood ==
  ASSUME NEW b \in Nat, NEW initdone \in BOOLEAN
  PROVE  LoopGood(AtTop(b, initdone))
  BY DEF LoopGood, AtTop, Loops, Labels

LEMMA LoopTypes ==
  ASSUME LoopFine
  PROVE  /\ loop.at \in Labels /\ loop.block \in Nat /\ loop.initdone \in BOOLEAN
         /\ loop.tip \in Nat /\ loop.blocks \in Seq(Looks) /\ loop.flag \in {0, 1}
         /\ loop.txs \subseteq Txids /\ loop.isconfirmed \in BOOLEAN
         /\ loop.tries \subseteq Outs /\ loop.list \subseteq Nat
         /\ loop.next \in {"top", "blocks"} /\ loop.txid \in Nat
  BY DEF LoopFine, LoopGood, Loops

LEMMA ConstantTypes == {MinConf, FirstBlock, StartHeight, MaxHeight} \subseteq Nat
  BY DepositAssumption

LEMMA ListTypes == XpsFine => ConfirmedDeposits \subseteq 1..Len(xps)
  BY DEF XpsFine, ConfirmedDeposits

LEMMA HistoryStep == ASSUME DepositInv, History PROVE DepositInv'
  <1> USE DEF DepositInv
  <1> DEFINE look == Look(loop.block, TRUE)
             l == [loop EXCEPT !.at = "block", !.tip = height, !.blocks = <<look>>]
  <1>1. CASE loop.block <= height - MinConf - 1 /\ loop' = l
    <2>1. look \in Looks /\ DeepBlock(look.block)
      BY <1>1, LoopTypes, ConstantTypes DEF Look, Looks, DeepBlock, WorldFine
    <2> HIDE DEF look
    <2>2. l \in Loops
      <3>1. <<look>> \in Seq(Looks) /\ height \in Nat
        BY <2>1 DEF WorldFine
      <3> HIDE DEF Looks
      <3> QED BY <3>1 DEF LoopFine, LoopGood, Loops, Labels
    <2>3. /\ l.at = "block" /\ l.blocks = <<look>> /\ l.isconfirmed = loop.isconfirmed
          /\ l.txs = loop.txs /\ l.list = loop.list
      BY DEF LoopFine, LoopGood, Loops
    <2> HIDE DEF l
    <2>4. LoopGood(l)
      BY <2>1, <2>2, <2>3 DEF LoopGood, LoopFine
    <2> QED BY <1>1, <2>4, LoopOnly DEF History
  <1>2. CASE loop' = AtTop(loop.block, TRUE)
    BY <1>2, TopGood, LoopTypes, LoopOnly DEF History
  <1> QED BY <1>1, <1>2 DEF History

LEMMA NewNXTBlockStep == ASSUME DepositInv, NewNXTBlock PROVE DepositInv'
  <1> USE DEF DepositInv
  <1>1. PICK where \in {"assets", "blocks"} :
          loop' = [loop EXCEPT !.at = where, !.next = "blocks",
                     !.list = IF where = "assets" THEN ConfirmedDeposits ELSE {}]
    BY DEF NewNXTBlock
  <1> DEFINE list == IF where = "assets" THEN ConfirmedDeposits ELSE {}
             l == [loop EXCEPT !.at = where, !.next = "blocks", !.list = list]
  <1>2. \A i \in list : i \in 1..Len(xps)
    BY ListTypes
  <1>3. list \subseteq Nat
    BY <1>2 DEF XpsFine
  <1> HIDE DEF list
  <1>4. l \in Loops
    BY <1>3 DEF LoopFine, LoopGood, Loops, Labels
  <1>5. /\ l.at = where /\ l.blocks = loop.blocks /\ l.isconfirmed = loop.isconfirmed
        /\ l.txs = loop.txs /\ l.list = list
    BY DEF LoopFine, LoopGood, Loops
  <1>6. loop' = l
    BY <1>1 DEF list
  <1> HIDE DEF l
  <1>7. LoopGood(l)
    BY <1>2, <1>4, <1>5 DEF LoopGood, LoopFine
  <1> QED BY <1>6, <1>7, LoopOnly DEF NewNXTBlock

LEMMA RealTimeStep == ASSUME DepositInv, RealTime PROVE DepositInv'
  <1> USE DEF DepositInv
  <1> DEFINE now == Look(loop.block, FALSE)
             old == Look(loop.block - MinConf, TRUE)
             l == [loop EXCEPT !.at = "block", !.tip = height, !.blocks = <<now, old>>]
  <1>1. CASE loop.block <= height /\ loop' = l
    <2>1. now \in Looks /\ ~now.isconfirmed /\ old \in Looks /\ DeepBlock(old.block)
      BY <1>1, LoopTypes, ConstantTypes DEF Look, Looks, DeepBlock, WorldFine
    <2> HIDE DEF now, old
    <2>2. l \in Loops
      <3>1. <<now, old>> \in Seq(Looks) /\ height \in Nat
        BY <2>1 DEF WorldFine
      <3> HIDE DEF Looks
      <3> QED BY <3>1 DEF LoopFine, LoopGood, Loops, Labels
    <2>3. /\ l.at = "block" /\ l.blocks = <<now, old>> /\ l.isconfirmed = loop.isconfirmed
          /\ l.txs = loop.txs /\ l.list = loop.list
      BY DEF LoopFine, LoopGood, Loops
    <2> HIDE DEF l
    <2>4. LoopGood(l)
      BY <2>1, <2>2, <2>3 DEF LoopGood, LoopFine
    <2> QED BY <1>1, <2>4, LoopOnly DEF RealTime
  <1>2. CASE loop' = AtTop(loop.block, TRUE)
    BY <1>2, TopGood, LoopTypes, LoopOnly DEF RealTime
  <1> QED BY <1>1, <1>2 DEF RealTime
(* The loop goes on to where it may stand.                                 *)
LEMMA LoopNew ==
  ASSUME UNCHANGED <<setting, height>>, Len(xps) \in Nat, Len(xps') \in Nat,
         Len(xps') >= Len(xps), retry' \subseteq Outs, NEW l, loop' = l, LoopGood(l)
  PROVE  LoopFine'
  <1>1. Txids' = Txids /\ Outs' = Outs /\ BlockOf' = BlockOf
    BY OutsKept
  <1>2. Loops' = Loops
    BY <1>1 DEF Loops, Looks, Labels
  <1>3. \A i \in 1..Len(xps) : i \in 1..Len(xps')
    OBVIOUS
  <1> HIDE DEF Loops
  <1> QED BY <1>1, <1>2, <1>3 DEF LoopFine, LoopGood, DeepBlock

LEMMA OpenBlockStep == ASSUME DepositInv, OpenBlock PROVE DepositInv'
  <1> USE DEF DepositInv
  <1> DEFINE look == Head(loop.blocks)
             txs == BlockTxs(look.block)
             l == [loop EXCEPT !.at = "tx", !.blocks = Tail(loop.blocks),
                     !.isconfirmed = look.isconfirmed, !.txs = txs]
             f == [loop EXCEPT !.blocks = <<>>, !.flag = 0]
  <1>1. loop.blocks \in Seq(Looks) /\ loop.blocks # <<>>
    BY LoopTypes DEF OpenBlock
  <1>2. CASE loop' = l
    <2>1. look \in Looks /\ (look.isconfirmed => DeepBlock(look.block))
      <3>1. 1 \in 1..Len(loop.blocks) /\ look = loop.blocks[1] /\ look \in Looks
        <4> HIDE DEF Looks
        <4> QED BY <1>1
      <3> HIDE DEF look
      <3> QED BY <3>1 DEF LoopFine, LoopGood
    <2>2. /\ Tail(loop.blocks) \in Seq(Looks)
          /\ \A k \in 1..Len(Tail(loop.blocks)) :
               Tail(loop.blocks)[k].isconfirmed => DeepBlock(Tail(loop.blocks)[k].block)
      <3>1. /\ Tail(loop.blocks) \in Seq(Looks)
            /\ \A k \in 1..Len(Tail(loop.blocks)) :
                 k + 1 \in 1..Len(loop.blocks) /\ Tail(loop.blocks)[k] = loop.blocks[k + 1]
        <4> HIDE DEF Looks
        <4> QED BY <1>1
      <3> QED BY <3>1 DEF LoopFine, LoopGood
    <2>3. txs \subseteq Txids /\ \A tx \in txs : BlockOf[tx] = look.block
      BY DEF BlockTxs
    <2>4. look.isconfirmed \in BOOLEAN
      BY <2>1 DEF Looks
    <2> HIDE DEF look, txs
    <2>5. l \in Loops
      <3> HIDE DEF Looks
      <3> QED BY <2>2, <2>3, <2>4 DEF LoopFine, LoopGood, Loops, Labels
    <2>6. /\ l.at = "tx" /\ l.blocks = Tail(loop.blocks) /\ l.isconfirmed = look.isconfirmed
          /\ l.txs = txs /\ l.list = loop.list
      BY DEF LoopFine, LoopGood, Loops
    <2> HIDE DEF l
    <2>7. LoopGood(l)
      BY <2>1, <2>2, <2>3, <2>5, <2>6 DEF LoopGood, LoopFine
    <2>8. loop' = l
      BY <1>2
    <2> QED BY <2>7, <2>8, LoopOnly DEF OpenBlock
  <1>3. CASE loop' = f
    <2>1. f \in Loops
      <3>1. <<>> \in Seq(Looks)
        OBVIOUS
      <3> HIDE DEF Looks
      <3> QED BY <3>1 DEF LoopFine, LoopGood, Loops, Labels
    <2>2. /\ f.at = loop.at /\ f.blocks = <<>> /\ f.isconfirmed = loop.isconfirmed
          /\ f.txs = loop.txs /\ f.list = loop.list
      BY DEF LoopFine, LoopGood, Loops
    <2> HIDE DEF f
    <2>3. LoopGood(f)
      BY <2>1, <2>2 DEF LoopGood, LoopFine
    <2> QED BY <1>3, <2>3, LoopOnly DEF OpenBlock
  <1> QED BY <1>2, <1>3 DEF OpenBlock

(* The loop only goes to another place.                                    *)
LEMMA LoopMoved ==
  ASSUME LoopFine, NEW at \in Labels, at = "decode" => loop.txs # {},
         at = "record" => loop.list # {}
  PROVE  LoopGood([loop EXCEPT !.at = at])
  <1> DEFINE l == [loop EXCEPT !.at = at]
  <1>1. l \in Loops
    BY DEF LoopFine, LoopGood, Loops
  <1>2. /\ l.at = at /\ l.blocks = loop.blocks /\ l.isconfirmed = loop.isconfirmed
        /\ l.txs = loop.txs /\ l.list = loop.list
    BY DEF LoopFine, LoopGood, Loops
  <1> HIDE DEF l
  <1>3. LoopGood(l)
    BY <1>1, <1>2 DEF LoopGood, LoopFine
  <1> QED BY <1>3 DEF l

LEMMA CloseBlockStep == ASSUME DepositInv, CloseBlock PROVE DepositInv'
  <1>1. LoopGood([loop EXCEPT !.at = "block"])
    BY LoopMoved DEF Labels, DepositInv
  <1> QED BY <1>1, LoopOnly DEF CloseBlock

LEMMA EndAssetsStep == ASSUME DepositInv, EndAssets PROVE DepositInv'
  <1>1. loop.next \in {"top", "blocks"}
    BY LoopTypes DEF DepositInv
  <1>2. LoopGood([loop EXCEPT !.at = loop.next])
    BY <1>1, LoopMoved DEF Labels, DepositInv
  <1> QED BY <1>2, LoopOnly DEF EndAssets

LEMMA EndBlocksStep == ASSUME DepositInv, EndBlocks PROVE DepositInv'
  <1> USE DEF DepositInv
  <1> DEFINE l == [loop EXCEPT !.at = "retry", !.tries = retry]
  <1>1. CASE loop' = l
    <2>1. l \in Loops
      BY DEF LoopFine, LoopGood, Loops, Labels
    <2>2. /\ l.at = "retry" /\ l.blocks = loop.blocks /\ l.isconfirmed = loop.isconfirmed
          /\ l.txs = loop.txs /\ l.list = loop.list
      BY DEF LoopFine, LoopGood, Loops
    <2> HIDE DEF l
    <2>3. LoopGood(l)
      BY <2>1, <2>2 DEF LoopGood, LoopFine
    <2> QED BY <1>1, <2>3, LoopOnly DEF EndBlocks
  <1>2. CASE loop' = AtTop(loop.block + loop.flag, FALSE)
    <2>1. loop.block + loop.flag \in Nat
      BY LoopTypes
    <2> QED BY <1>2, <2>1, TopGood, LoopOnly DEF EndBlocks
  <1> QED BY <1>1, <1>2 DEF EndBlocks

LEMMA EndRetriesStep == ASSUME DepositInv, EndRetries PROVE DepositInv'
  <1> USE DEF DepositInv
  <1> DEFINE top == AtTop(loop.block + loop.flag, TRUE)
             l == [top EXCEPT !.at = "assets", !.list = ConfirmedDeposits]
  <1>1. loop.block + loop.flag \in Nat
    BY LoopTypes
  <1>2. LoopGood(top)
    BY <1>1, TopGood
  <1>3. CASE loop' = l
    <2>1. ConfirmedDeposits \subseteq Nat /\ \A i \in ConfirmedDeposits : i \in 1..Len(xps)
      BY ListTypes DEF XpsFine
    <2> HIDE DEF top
    <2>2. l \in Loops
      BY <1>2, <2>1 DEF LoopGood, Loops, Labels
    <2>3. /\ l.at = "assets" /\ l.blocks = top.blocks /\ l.isconfirmed = top.isconfirmed
          /\ l.txs = top.txs /\ l.list = ConfirmedDeposits
      BY <1>2 DEF LoopGood, Loops
    <2> HIDE DEF l
    <2>4. LoopGood(l)
      BY <1>2, <2>1, <2>2, <2>3 DEF LoopGood
    <2> QED BY <1>3, <2>4, LoopOnly DEF EndRetries
  <1>4. CASE loop' = top
    BY <1>2, <1>4, LoopOnly DEF EndRetries
  <1> QED BY <1>3, <1>4 DEF EndRetries
-----------------------------------------------------------------------------
(* Steps of the loop that change the structures or the transactions        *)

(* The structure transfer_assets is at is the first one left.              *)
LEMMA CurrentListed == ASSUME LoopFine, loop.list # {} PROVE Current \in loop.list
  <1>1. loop.list \subseteq Nat
    BY LoopTypes
  <1> DEFINE R == OpToRel(<, Nat)
  <1>2. IsWellFoundedOn(R, Nat) /\ R = {ss \in Nat \X Nat : ss[1] < ss[2]}
    BY NatLessThanWellFounded DEF OpToRel
  <1> HIDE DEF R
  <1>3. PICK i \in loop.list : \A j \in loop.list : <<j, i>> \notin R
    BY <1>1, <1>2, WFMin
  <1>4. ASSUME NEW j \in loop.list PROVE i <= j
    <2>1. i \in Nat /\ j \in Nat /\ <<j, i>> \notin R
      BY <1>1, <1>3
    <2> QED BY <1>2, <2>1
  <1> QED BY <1>4 DEF Current

LEMMA ForgetOutputsStep == ASSUME DepositInv, ForgetOutputs PROVE DepositInv'
  <1> USE DEF DepositInv
  <1>1. /\ UNCHANGED <<setting, height, nxt, mempool, seen, xps, retry>>
        /\ loop.txs # {} /\ tps' = [tps EXCEPT ![Tx].known = 0]
    BY DEF ForgetOutputs, world
  <1>2. Tx \in loop.txs
    BY <1>1 DEF Tx
  <1>3. Tx \in Txids
    BY <1>2, LoopTypes
  <1>4. LoopGood([loop EXCEPT !.at = "decode"])
    BY <1>1, LoopMoved DEF Labels
  <1>5. /\ seen' \in Nat /\ seen' <= Len(nxt) /\ height' \in Nat /\ height' >= height
        /\ Len(xps) \in Nat /\ Len(xps') = Len(xps) /\ retry' \subseteq Outs
    BY <1>1 DEF WorldFine, XpsFine, LoopFine
  <1>6. WorldFine' /\ XpsFine' /\ LoopFine'
    BY <1>1, <1>4, <1>5, WorldKept, XpsKept, LoopNew DEF ForgetOutputs
  <1>7. TpsFine'
    <2>1. tps' \in [Txids -> Transactions]
      BY <1>1, <1>3 DEF TpsFine, Transactions
    <2>2. \A tx \in Txids : /\ tps'[tx].vouts = tps[tx].vouts
                            /\ tps'[tx].known \in {0, tps[tx].known}
      BY <1>1 DEF TpsFine, Transactions
    <2>3. \A tx \in Txids : Placed(tx, tps[tx]) /\ Len(tps[tx].vouts) \in Nat
      BY DEF TpsFine, Transactions
    <2>4. \A tx \in Txids : Placed(tx, tps[tx])'
      BY <1>1, <2>2, <2>3 DEF Placed
    <2>5. Txids' = Txids /\ Transactions' = Transactions
      BY <1>1, OutsKept DEF Transactions
    <2> HIDE DEF Transactions
    <2> QED BY <2>1, <2>4, <2>5 DEF TpsFine
  <1> QED BY <1>6, <1>7

LEMMA RetryOneStep == ASSUME DepositInv, RetryOne PROVE DepositInv'
  <1> USE DEF DepositInv
  <1> DEFINE o == CHOOSE t \in loop.tries : TRUE
             l == [loop EXCEPT !.tries = loop.tries \ {o}]
  <1>1. /\ UNCHANGED <<setting, height, nxt, mempool, seen>>
        /\ loop.tries # {} /\ DecodeDepositConfirmed(o) /\ loop' = l
    BY DEF RetryOne, world
  <1>2. o \in Outs
    BY <1>1, LoopTypes
  <1> HIDE DEF o
  <1>3. /\ XpsFine' /\ TpsFine' /\ Len(xps') = Len(xps) /\ retry' \subseteq Outs
        /\ Len(xps) \in Nat /\ seen' \in Nat /\ seen' <= Len(nxt)
    BY <1>1, <1>2, DecodeStep DEF WorldFine, XpsFine
  <1>4. l \in Loops
    BY DEF LoopFine, LoopGood, Loops
  <1>5. /\ l.at = loop.at /\ l.blocks = loop.blocks /\ l.isconfirmed = loop.isconfirmed
        /\ l.txs = loop.txs /\ l.list = loop.list
    BY DEF LoopFine, LoopGood, Loops
  <1> HIDE DEF l
  <1>6. LoopGood(l)
    BY <1>4, <1>5 DEF LoopGood, LoopFine
  <1> QED BY <1>1, <1>3, <1>6, WorldKept, LoopNew

(* The structure at hand is one there is, and tells of an output.          *)
LEMMA CurrentStructure ==
  ASSUME DepositInv, loop.list # {}
  PROVE  /\ Current \in 1..Len(xps) /\ xps[Current] \in Structures /\ Honest(xps[Current])
         /\ Deposited \in Outs
  <1>1. Current \in 1..Len(xps)
    BY CurrentListed DEF DepositInv, LoopFine, LoopGood
  <1>2. xps[Current] \in Structures /\ Honest(xps[Current])
    <2> HIDE DEF Structures
    <2> QED BY <1>1 DEF DepositInv, XpsFine
  <1> QED BY <1>1, <1>2 DEF Deposited, Structures

(* What is transferred is deep enough and no change.                       *)
LEMMA TransferFine ==
  ASSUME DepositInv, loop.list # {}, MayTransfer
  PROVE  /\ Fresh("XFER", Deposited) \in Events
         /\ Backed(Fresh("XFER", Deposited))
  <1>1. Deposited \in Outs /\ Honest(xps[Current])
    BY CurrentStructure
  <1>2. DeepBlock(BlockOf[Deposited[1]]) /\ ~Out(Deposited).change
    BY <1>1 DEF MayTransfer, Honest, Deposited
  <1>3. /\ Fresh("XFER", Deposited) \in Events
        /\ Fresh("XFER", Deposited).out = Deposited
    BY <1>1, FreshEvent DEF DepositInv
  <1> HIDE DEF Deposited
  <1> QED BY <1>2, <1>3 DEF Backed

(* New events that are backed may be sent.                                 *)
LEMMA WorldSent ==
  ASSUME WorldFine, UNCHANGED <<setting, height, nxt, seen>>,
         NEW sent \in SUBSET Events, IsFiniteSet(sent), mempool' = mempool \cup sent,
         \A e \in sent : Backed(e)
  PROVE  WorldFine'
  <1>1. Events' = Events /\ BlockOf' = BlockOf
    BY OutsKept
  <1>2. \A e : Backed(e) => Backed(e)'
    BY <1>1 DEF Backed, Out, DeepBlock
  <1>3. IsFiniteSet(mempool')
    BY FS_Union DEF WorldFine
  <1> QED BY <1>1, <1>2, <1>3 DEF WorldFine
LEMMA IssueTransferStep == ASSUME DepositInv, IssueTransfer PROVE DepositInv'
  <1> USE DEF DepositInv
  <1> DEFINE e == Fresh("XFER", Deposited)
  <1>1. /\ UNCHANGED <<setting, height, nxt, seen, tps, xps, retry>>
        /\ loop.list # {} /\ MayTransfer
    BY DEF IssueTransfer, memory
  <1>2. e \in Events /\ Backed(e)
    BY <1>1, TransferFine
  <1>3. e.id \in Nat
    BY <1>2 DEF Events
  <1> HIDE DEF e
  <1>4. /\ seen' \in Nat /\ seen' <= Len(nxt) /\ height' \in Nat /\ height' >= height
        /\ Len(xps) \in Nat /\ Len(xps') = Len(xps) /\ retry' \subseteq Outs
    BY <1>1 DEF WorldFine, XpsFine, LoopFine
  <1>5. WorldFine'
    <2>1. CASE mempool' = mempool \cup {e}
      <3>1. IsFiniteSet({e})
        BY FS_Singleton
      <3> QED BY <1>1, <1>2, <2>1, <3>1, WorldSent
    <2>2. CASE UNCHANGED mempool
      BY <1>1, <1>4, <2>2, WorldKept
    <2> QED BY <2>1, <2>2 DEF IssueTransfer, e
  <1>6. PICK id \in {e.id, 0} : loop' = [loop EXCEPT !.at = "record", !.txid = id]
    BY DEF IssueTransfer, e
  <1> DEFINE l == [loop EXCEPT !.at = "record", !.txid = id]
  <1>7. l \in Loops
    <2>1. id \in Nat
      BY <1>3
    <2> QED BY <2>1 DEF LoopFine, LoopGood, Loops, Labels
  <1>8. /\ l.at = "record" /\ l.blocks = loop.blocks /\ l.isconfirmed = loop.isconfirmed
        /\ l.txs = loop.txs /\ l.list = loop.list
    BY DEF LoopFine, LoopGood, Loops
  <1>9. loop' = l
    BY <1>6
  <1> HIDE DEF l
  <1>10. LoopGood(l)
    BY <1>1, <1>7, <1>8 DEF LoopGood, LoopFine
  <1> QED BY <1>1, <1>4, <1>5, <1>9, <1>10, XpsKept, TpsKept, LoopNew

(* The rest of the list.                                                   *)
LEMMA ListGood ==
  ASSUME LoopFine, NEW l, l \in Loops, l.at = "assets", l.blocks = loop.blocks,
         l.isconfirmed = loop.isconfirmed, l.txs = loop.txs, l.list \subseteq loop.list
  PROVE  LoopGood(l)
  BY DEF LoopGood, LoopFine

LEMMA RecordTransferStep == ASSUME DepositInv, RecordTransfer PROVE DepositInv'
  <1> USE DEF DepositInv
  <1> DEFINE c == Current
             tx == Deposited[1]
             l == [loop EXCEPT !.at = "assets", !.list = loop.list \ {c}, !.txid = 0]
  <1>1. /\ UNCHANGED <<setting, height, nxt, mempool, seen, retry>>
        /\ loop.at = "record" /\ loop.list # {} /\ loop.txid \in Nat
    BY LoopTypes DEF RecordTransfer, world, At, LoopFine, LoopGood
  <1>2. c \in 1..Len(xps) /\ xps[c] \in Structures /\ tx \in Txids
    <2>1. Deposited \in Outs
      BY <1>1, CurrentStructure
    <2> QED BY <1>1, <2>1, CurrentStructure, OutsOf DEF WorldFine
  <1>3. xps \in [1..Len(xps) -> Structures]
    <2> HIDE DEF Structures
    <2> QED BY DEF XpsFine
  <1>4. PICK pending \in {xps[c].pending, 1} :
          xps' = [xps EXCEPT ![c].asset = loop.txid, ![c].pending = pending]
    BY <1>2, <1>3 DEF RecordTransfer, Structures
  <1>5. tps' = [tps EXCEPT ![tx].xfer = loop.txid] /\ loop' = l
    BY DEF RecordTransfer
  <1> HIDE DEF c, tx
  <1>6. xps' \in [1..Len(xps) -> Structures]
    BY <1>1, <1>2, <1>3, <1>4 DEF Structures
  <1>7. \A i \in 1..Len(xps) :
          /\ xps'[i].out = xps[i].out /\ xps'[i].internal = xps[i].internal
          /\ xps'[i].coin_confirmed = xps[i].coin_confirmed
    BY <1>2, <1>3, <1>4 DEF Structures
  <1>8. XpsFine' /\ Len(xps') = Len(xps)
    BY <1>1, <1>6, <1>7, XpsMarked
  <1>9. TpsFine'
    <2>1. tps' \in [Txids -> Transactions]
      BY <1>1, <1>2, <1>5 DEF TpsFine, Transactions
    <2>2. \A t \in Txids : tps'[t].vouts = tps[t].vouts /\ tps'[t].known = tps[t].known
      BY <1>2, <1>5 DEF TpsFine, Transactions
    <2> QED BY <1>1, <1>8, <2>1, <2>2, TpsMarked DEF XpsFine
  <1>10. l \in Loops
    BY DEF LoopFine, LoopGood, Loops, Labels
  <1>11. /\ l.at = "assets" /\ l.blocks = loop.blocks /\ l.isconfirmed = loop.isconfirmed
         /\ l.txs = loop.txs /\ l.list \subseteq loop.list
    BY DEF LoopFine, LoopGood, Loops
  <1> HIDE DEF l
  <1>12. LoopFine'
    BY <1>1, <1>5, <1>8, <1>10, <1>11, ListGood, LoopNew DEF XpsFine, LoopFine
  <1>13. WorldFine'
    BY <1>1, WorldKept DEF WorldFine
  <1> QED BY <1>8, <1>9, <1>12, <1>13

LEMMA NoTransferStep == ASSUME DepositInv, NoTransfer PROVE DepositInv'
  <1> USE DEF DepositInv
  <1> DEFINE c == Current
             l == [loop EXCEPT !.list = loop.list \ {c}]
  <1>1. /\ UNCHANGED <<setting, height, nxt, mempool, seen, tps, retry>>
        /\ loop.at = "assets" /\ loop.list # {} /\ loop' = l
    BY DEF NoTransfer, world, At
  <1>2. c \in 1..Len(xps)
    BY <1>1, CurrentStructure
  <1>3. XpsFine' /\ Len(xps') = Len(xps)
    <2>1. CASE UNCHANGED xps
      BY <1>1, <2>1, XpsKept DEF WorldFine
    <2>2. CASE xps' = [xps EXCEPT ![c].confirmed = 1]
      <3>1. xps \in [1..Len(xps) -> Structures]
        <4> HIDE DEF Structures
        <4> QED BY DEF XpsFine
      <3> HIDE DEF c
      <3>2. xps' \in [1..Len(xps) -> Structures]
        BY <1>2, <2>2, <3>1 DEF Structures
      <3>3. \A i \in 1..Len(xps) :
              /\ xps'[i].out = xps[i].out /\ xps'[i].internal = xps[i].internal
              /\ xps'[i].coin_confirmed = xps[i].coin_confirmed
        BY <1>2, <2>2, <3>1 DEF Structures
      <3> QED BY <1>1, <3>2, <3>3, XpsMarked
    <2> QED BY <2>1, <2>2 DEF NoTransfer
  <1> HIDE DEF c
  <1>4. l \in Loops
    BY DEF LoopFine, LoopGood, Loops, Labels
  <1>5. /\ l.at = "assets" /\ l.blocks = loop.blocks /\ l.isconfirmed = loop.isconfirmed
        /\ l.txs = loop.txs /\ l.list \subseteq loop.list
    BY <1>1 DEF LoopFine, LoopGood, Loops
  <1> HIDE DEF l
  <1>6. WorldFine' /\ TpsFine' /\ LoopFine'
    BY <1>1, <1>3, <1>4, <1>5, ListGood, LoopNew, WorldKept, TpsKept
       DEF XpsFine, LoopFine, WorldFine
  <1> QED BY <1>3, <1>6
(* The transactions of the block at hand are those of an open block.       *)
LEMMA Announcements ==
  ASSUME DepositInv, NEW tx \in Txids
  PROVE  /\ Announced(tx) \subseteq Events /\ IsFiniteSet(Announced(tx))
         /\ \A e \in Announced(tx) : Backed(e) /\ e.kind = "AM"
  <1> DEFINE W == {w \in DOMAIN Outputs[tx] : Outputs[tx][w].acct \in Mine}
             S == {Fresh("AM", <<tx, v>>) : v \in W}
             f == [v \in W |-> Fresh("AM", <<tx, v>>)]
  <1>1. Len(Outputs[tx]) \in Nat /\ DOMAIN Outputs[tx] = 1..Len(Outputs[tx])
    <2>1. Outputs[tx] \in Seq([acct : Accounts, value : Nat \ {0}, change : BOOLEAN])
      BY OutsOf, DepositAssumption DEF DepositInv, WorldFine
    <2> QED BY <2>1
  <1>2. IsFiniteSet(W)
    <2>1. W \in SUBSET (1..Len(Outputs[tx]))
      BY <1>1
    <2>2. IsFiniteSet(1..Len(Outputs[tx]))
      BY <1>1, FS_Interval
    <2> HIDE DEF W
    <2> QED BY <2>1, <2>2, FS_Subset
  <1>3. \A v \in W : <<tx, v>> \in Outs
    BY <1>1, OutsOf DEF DepositInv, WorldFine
  <1>4. \A v \in W : /\ Fresh("AM", <<tx, v>>) \in Events
                     /\ Fresh("AM", <<tx, v>>).kind = "AM"
    BY <1>3, FreshEvent DEF DepositInv
  <1> HIDE DEF W
  <1>5. f \in Surjection(W, S)
    BY DEF Surjection
  <1>6. IsFiniteSet(S)
    <2> HIDE DEF f, S
    <2> QED BY <1>2, <1>5, FS_Surjection
  <1>7. S \subseteq Events /\ \A e \in S : Backed(e) /\ e.kind = "AM"
    BY <1>4 DEF Backed
  <1>8. Announced(tx) \in {S, {}}
    BY DEF Announced, W
  <1> HIDE DEF S
  <1> QED BY <1>6, <1>7, <1>8, FS_EmptySet

(* What is decoded of a transaction is honest about its outputs.           *)
LEMMA CreditedFine ==
  ASSUME DepositInv, NEW tx \in loop.txs, NEW v \in 1..Len(Outputs[tx])
  PROVE  Credited(tx, v) \in Structures /\ Honest(Credited(tx, v))
  <1>1. tx \in Txids /\ loop.isconfirmed \in BOOLEAN
    BY LoopTypes DEF DepositInv
  <1>2. <<tx, v>> \in Outs
    BY <1>1, OutsOf DEF DepositInv, WorldFine
  <1>3. Out(<<tx, v>>).change \in BOOLEAN
    BY <1>2, OutsOf DEF DepositInv, WorldFine
  <1>4. Outputs[tx][v] = Out(<<tx, v>>)
    BY DEF Out
  <1>5. Credited(tx, v) \in Structures
    BY <1>1, <1>2, <1>3, <1>4 DEF Credited, Structures
  <1>6. loop.isconfirmed => DeepBlock(BlockOf[tx])
    BY DEF DepositInv, LoopFine, LoopGood
  <1> QED BY <1>4, <1>5, <1>6 DEF Credited, Honest

LEMMA DecodeTxStep == ASSUME DepositInv, DecodeTx PROVE DepositInv'
  <1> USE DEF DepositInv
  <1> DEFINE tx == Tx
             n == Len(Outputs[tx])
             old == tps[tx].vouts
             place == IF old # <<>> /\ ~xps[old[1]].coin_confirmed
                        THEN old ELSE [v \in 1..n |-> Len(xps) + v]
             l == [loop EXCEPT !.at = "tx", !.txs = loop.txs \ {tx}]
  <1>1. /\ UNCHANGED <<setting, height, nxt, seen, retry>> /\ loop.at = "decode" /\ loop' = l
    BY DEF DecodeTx, At
  <1>2. tx \in loop.txs /\ tx \in Txids
    <2>1. loop.txs # {}
      BY <1>1 DEF LoopFine, LoopGood
    <2> QED BY <2>1, LoopTypes DEF Tx
  <1>3. n \in Nat /\ Len(xps) \in Nat
    BY <1>2, OutsOf DEF WorldFine, XpsFine
  <1>4. l \in Loops
    BY DEF LoopFine, LoopGood, Loops, Labels
  <1>5. /\ l.at = "tx" /\ l.blocks = loop.blocks /\ l.isconfirmed = loop.isconfirmed
        /\ l.txs \subseteq loop.txs /\ l.list = loop.list
    BY DEF LoopFine, LoopGood, Loops
  <1>6. LoopGood(l)
    <2> HIDE DEF l
    <2> QED BY <1>4, <1>5 DEF LoopGood, LoopFine
  <1>7. CASE UNCHANGED <<xps, tps, mempool>>
    <2> HIDE DEF l
    <2>1. retry' \subseteq Outs /\ seen' \in Nat /\ seen' <= Len(nxt) /\ height' \in Nat
          /\ height' >= height
      BY <1>1 DEF LoopFine, WorldFine
    <2> QED BY <1>1, <1>3, <1>6, <1>7, <2>1, WorldKept, XpsKept, TpsKept, LoopNew
  <1>8. CASE /\ xps' = [i \in DOMAIN xps \cup Range(place) |->
                          IF i \in Range(place)
                            THEN Credited(tx, CHOOSE v \in 1..n : place[v] = i)
                            ELSE xps[i]]
             /\ tps' = [tps EXCEPT ![tx].known = n, ![tx].vouts = place]
             /\ \E sent \in SUBSET Announced(tx) : mempool' = mempool \cup sent
    <2>1. /\ place \in [1..n -> Nat]
          /\ \/ \A v \in 1..n : place[v] \in 1..Len(xps)
             \/ place = [v \in 1..n |-> Len(xps) + v]
      <3>1. CASE place = old /\ old # <<>>
        <4>1. old \in Seq(Nat) /\ Len(old) = n /\ \A v \in 1..n : old[v] \in 1..Len(xps)
          BY <1>2, <3>1, TransactionOf DEF TpsFine, Placed
        <4> HIDE DEF place, old, n
        <4> QED BY <1>3, <3>1, <4>1
      <3>2. CASE place = [v \in 1..n |-> Len(xps) + v]
        BY <1>3, <3>2
      <3> QED BY <3>1, <3>2
    <2>2. Range(place) = {place[v] : v \in 1..n}
      <3> HIDE DEF place
      <3> QED BY <2>1 DEF Range
    <2> HIDE DEF place, old
    <2>3. PICK m \in Nat : /\ m >= Len(xps) /\ DOMAIN xps \cup Range(place) = 1..m
                           /\ \A v \in 1..n : place[v] \in 1..m
      <3>1. DOMAIN xps = 1..Len(xps)
        BY DEF XpsFine
      <3>2. CASE \A v \in 1..n : place[v] \in 1..Len(xps)
        BY <1>3, <2>2, <3>1, <3>2
      <3>3. CASE place = [v \in 1..n |-> Len(xps) + v]
        <4>1. Range(place) = (Len(xps) + 1)..(Len(xps) + n)
          <5>1. ASSUME NEW i \in (Len(xps) + 1)..(Len(xps) + n) PROVE i \in Range(place)
            <6>1. i - Len(xps) \in 1..n /\ place[i - Len(xps)] = i
              BY <1>3, <3>3
            <6> QED BY <2>2, <6>1
          <5>2. ASSUME NEW v \in 1..n PROVE place[v] \in (Len(xps) + 1)..(Len(xps) + n)
            BY <1>3, <3>3
          <5> QED BY <2>2, <5>1, <5>2
        <4>2. 1..Len(xps) \cup Range(place) = 1..(Len(xps) + n)
          BY <1>3, <4>1
        <4>3. \A v \in 1..n : place[v] \in 1..(Len(xps) + n)
          BY <1>3, <3>3
        <4>4. Len(xps) + n \in Nat /\ Len(xps) + n >= Len(xps)
          BY <1>3
        <4> QED BY <3>1, <4>2, <4>3, <4>4
      <3> QED BY <2>1, <3>2, <3>3
    <2>4. xps' \in [1..m -> Structures] /\ \A i \in 1..m : Honest(xps'[i])
      <3> HIDE DEF Structures
      <3>1. DOMAIN xps' = 1..m /\ xps' = [i \in 1..m |-> xps'[i]]
        BY <1>8, <2>3
      <3>2. ASSUME NEW i \in 1..m PROVE xps'[i] \in Structures /\ Honest(xps'[i])
        <4>1. CASE i \in Range(place)
          <5> DEFINE v == CHOOSE v \in 1..n : place[v] = i
          <5>1. v \in 1..n
            BY <2>2, <4>1
          <5>2. xps'[i] = Credited(tx, v)
            BY <1>8, <2>3, <4>1
          <5> HIDE DEF v
          <5> QED BY <1>2, <5>1, <5>2, CreditedFine
        <4>2. CASE i \notin Range(place)
          <5>1. i \in 1..Len(xps) /\ xps'[i] = xps[i]
            BY <1>8, <2>3, <4>2 DEF XpsFine
          <5> QED BY <5>1 DEF XpsFine
        <4> QED BY <4>1, <4>2
      <3> QED BY <3>1, <3>2
    <2>5. XpsFine' /\ Len(xps') = m
      <3>1. Structures' = Structures /\ BlockOf' = BlockOf
        BY <1>1, OutsKept
      <3> HIDE DEF Structures
      <3>2. xps' \in Seq(Structures) /\ Len(xps') = m
        BY <2>4
      <3> QED BY <1>1, <2>4, <3>1, <3>2 DEF XpsFine, Honest, Out, DeepBlock
    <2>6. TpsFine'
      <3>1. place \in Seq(Nat) /\ Len(place) = n
        BY <1>3, <2>1
      <3>2. tps' \in [Txids -> Transactions]
        BY <1>2, <1>3, <1>8, <3>1 DEF TpsFine, Transactions
      <3>3. tps'[tx].known = n /\ tps'[tx].vouts = place
        BY <1>2, <1>8 DEF TpsFine, Transactions
      <3>4. \A t \in Txids : t # tx => tps'[t] = tps[t]
        BY <1>8 DEF TpsFine
      <3> HIDE DEF tx, n
      <3>5. ASSUME NEW t \in Txids PROVE Placed(t, tps[t])'
        <4>1. CASE t = tx
          BY <1>3, <2>3, <2>5, <3>1, <3>3, <4>1 DEF Placed, n
        <4>2. CASE t # tx
          <5>1. Placed(t, tps[t]) /\ Len(tps[t].vouts) \in Nat
            BY DEF TpsFine, Transactions
          <5>2. \A i \in 1..Len(xps) : i \in 1..Len(xps')
            BY <1>3, <2>3, <2>5
          <5> QED BY <3>4, <4>2, <5>1, <5>2 DEF Placed
        <4> QED BY <4>1, <4>2
      <3>6. Txids' = Txids /\ Transactions' = Transactions
        BY <1>1, OutsKept DEF Transactions
      <3> HIDE DEF Transactions
      <3> QED BY <3>2, <3>5, <3>6 DEF TpsFine
    <2>7. WorldFine'
      <3>1. PICK sent \in SUBSET Announced(tx) : mempool' = mempool \cup sent
        BY <1>8
      <3> HIDE DEF tx
      <3>2. sent \in SUBSET Events /\ IsFiniteSet(sent) /\ \A e \in sent : Backed(e)
        BY <1>2, Announcements, FS_Subset
      <3> QED BY <1>1, <3>1, <3>2, WorldSent
    <2>8. LoopFine'
      <3> HIDE DEF l
      <3>1. retry' \subseteq Outs
        BY <1>1 DEF LoopFine
      <3> QED BY <1>1, <1>3, <1>6, <2>3, <2>5, <3>1, LoopNew
    <2> QED BY <2>5, <2>6, <2>7, <2>8
  <1> QED BY <1>7, <1>8 DEF DecodeTx
-----------------------------------------------------------------------------
(* The world around the gateway                                            *)

LEMMA CoinBlockStep == ASSUME DepositInv, CoinBlock PROVE DepositInv'
  <1> USE DEF DepositInv
  <1>1. /\ UNCHANGED <<setting, nxt, mempool, seen, tps, xps, retry, loop>>
        /\ height < MaxHeight /\ height' = height + 1
    BY DEF CoinBlock, memory
  <1>2. /\ setting \in Settings /\ height' \in Nat /\ height' >= height /\ height' <= MaxHeight
        /\ Len(xps) \in Nat /\ Len(xps') = Len(xps) /\ retry' \subseteq Outs
    BY <1>1, ConstantTypes DEF WorldFine, XpsFine, LoopFine
  <1>3. WorldFine'
    <2>1. \A e \in Events : Backed(e) => Backed(e)'
      BY <1>1, <1>2, DeepKept DEF WorldFine
    <2>2. \A k \in 1..Len(nxt) : nxt[k] \in Events
      <3> HIDE DEF Events
      <3> QED BY DEF WorldFine
    <2>3. Events' = Events
      BY <1>1, OutsKept
    <2> QED BY <1>1, <1>2, <2>1, <2>2, <2>3 DEF WorldFine
  <1> QED BY <1>1, <1>2, <1>3, XpsKept, TpsKept, LoopKept

LEMMA NXTBlockStep == ASSUME DepositInv, NXTBlock PROVE DepositInv'
  <1> USE DEF DepositInv
  <1>1. UNCHANGED <<setting, height, seen, tps, xps, retry, loop>>
    BY DEF NXTBlock, memory
  <1>2. PICK e \in mempool : nxt' = Append(nxt, e) /\ mempool' = mempool \ {e}
    BY DEF NXTBlock
  <1>3. /\ height' \in Nat /\ height' >= height
        /\ Len(xps) \in Nat /\ Len(xps') = Len(xps) /\ retry' \subseteq Outs
    BY <1>1 DEF WorldFine, XpsFine, LoopFine
  <1>4. WorldFine'
    <2>1. Events' = Events /\ BlockOf' = BlockOf
      BY <1>1, OutsKept
    <2>2. \A x : Backed(x) => Backed(x)'
      BY <1>1, <2>1 DEF Backed, Out, DeepBlock
    <2>3. /\ nxt' \in Seq(Events) /\ Len(nxt') = Len(nxt) + 1 /\ seen <= Len(nxt')
          /\ \A k \in 1..Len(nxt') : nxt'[k] \in {nxt[j] : j \in 1..Len(nxt)} \cup {e}
      <3> HIDE DEF Events
      <3> QED BY <1>2 DEF WorldFine
    <2>4. IsFiniteSet(mempool')
      BY <1>2, FS_Subset DEF WorldFine
    <2>5. \A k \in 1..Len(nxt') : Backed(nxt'[k])
      BY <2>3 DEF WorldFine
    <2> QED BY <1>1, <1>2, <2>1, <2>2, <2>3, <2>4, <2>5 DEF WorldFine
  <1> QED BY <1>1, <1>3, <1>4, XpsKept, TpsKept, LoopKept

LEMMA OtherGatewayStep == ASSUME DepositInv, OtherGateway PROVE DepositInv'
  <1> USE DEF DepositInv
  <1>1. UNCHANGED <<setting, height, nxt, seen, tps, xps, retry, loop>>
    BY DEF OtherGateway, memory
  <1>2. PICK o \in Outs, kind \in {"AM", "XFER"} :
          Out(o).acct \notin Mine /\ mempool' = mempool \cup {Fresh(kind, o)}
    BY DEF OtherGateway
  <1>3. Fresh(kind, o) \in Events /\ Fresh(kind, o).out = o
    BY FreshEvent
  <1>4. Backed(Fresh(kind, o)) /\ IsFiniteSet({Fresh(kind, o)})
    BY <1>2, <1>3, FS_Singleton DEF Backed
  <1>5. WorldFine'
    BY <1>1, <1>2, <1>3, <1>4, WorldSent
  <1>6. /\ height' \in Nat /\ height' >= height
        /\ Len(xps) \in Nat /\ Len(xps') = Len(xps) /\ retry' \subseteq Outs
    BY <1>1 DEF WorldFine, XpsFine, LoopFine
  <1> QED BY <1>1, <1>5, <1>6, XpsKept, TpsKept, LoopKept

LEMMA RestartStep == ASSUME DepositInv, Restart PROVE DepositInv'
  <1> USE DEF DepositInv
  <1>1. /\ UNCHANGED <<setting, height, nxt, mempool>>
        /\ seen' = 0 /\ xps' = <<>> /\ retry' = {} /\ tps' = [tx \in Txids |-> NoTx]
        /\ loop' = AtTop(FirstBlock, FALSE)
    BY DEF Restart
  <1>2. WorldFine'
    <2>1. seen' \in Nat /\ seen' <= Len(nxt)
      BY <1>1 DEF WorldFine
    <2> QED BY <1>1, <2>1, WorldKept
  <1>3. XpsFine'
    BY <1>1 DEF XpsFine
  <1>4. TpsFine'
    <2>1. Txids' = Txids
      BY <1>1, OutsKept
    <2>2. \A tx \in Txids : Len(Outputs[tx]) \in Nat
      BY OutsOf DEF WorldFine
    <2> QED BY <1>1, <2>1, <2>2 DEF TpsFine, NoTx, Transactions, Placed
  <1>5. LoopFine'
    <2>1. FirstBlock \in Nat
      BY ConstantTypes
    <2>2. loop' \in Loops'
      BY <1>1, <2>1 DEF AtTop, Loops, Labels
    <2> QED BY <1>1, <2>2 DEF AtTop, LoopFine, LoopGood
  <1> QED BY <1>2, <1>3, <1>4, <1>5

LEMMA StutterStep == ASSUME DepositInv, UNCHANGED vars PROVE DepositInv'
  <1>1. UNCHANGED <<setting, height, nxt, mempool, seen, tps, xps, retry, loop>>
    BY DEF vars, world, memory
  <1>2. /\ height' \in Nat /\ height' >= height /\ seen' \in Nat /\ seen' <= Len(nxt)
        /\ Len(xps) \in Nat /\ Len(xps') = Len(xps) /\ retry' \subseteq Outs
    BY <1>1 DEF DepositInv, WorldFine, XpsFine, LoopFine
  <1> QED BY <1>1, <1>2, WorldKept, XpsKept, TpsKept, LoopKept DEF DepositInv

LEMMA DepositStep == DepositInv /\ [Next]_vars => DepositInv'
  <1> SUFFICES ASSUME DepositInv, [Next]_vars PROVE DepositInv'
    OBVIOUS
  <1>1. CASE Scan
    BY <1>1, HistoryStep, NewNXTBlockStep, RealTimeStep, OpenBlockStep, CloseBlockStep,
       ForgetOutputsStep, DecodeTxStep, EndBlocksStep, RetryOneStep, EndRetriesStep DEF Scan
  <1>2. CASE Assets
    BY <1>2, IssueTransferStep, RecordTransferStep, NoTransferStep, EndAssetsStep DEF Assets
  <1>3. CASE NXTThread
    BY <1>3, HandleStep, EndHistoryStep DEF NXTThread
  <1>4. CASE World
    BY <1>4, CoinBlockStep, NXTBlockStep, OtherGatewayStep, RestartStep DEF World
  <1>5. CASE UNCHANGED vars
    BY <1>5, StutterStep
  <1> QED BY <1>1, <1>2, <1>3, <1>4, <1>5 DEF Next

-----------------------------------------------------------------------------
(* What the invariant means                                                *)

LEMMA InvBacks == DepositInv => TransferBacked
  <1> SUFFICES ASSUME DepositInv, NEW o \in Outs, Out(o).acct \in Mine,
                      NEW e \in Issued("XFER", o)
               PROVE  Deep(o) /\ ~Out(o).change
    BY DEF TransferBacked
  <1>1. e.kind = "XFER" /\ e.out = o /\ e \in Range(nxt) \cup mempool
    BY DEF Issued
  <1>2. Range(nxt) = {nxt[k] : k \in 1..Len(nxt)}
    BY DEF DepositInv, WorldFine, Range
  <1>3. Backed(e)
    BY <1>1, <1>2 DEF DepositInv, WorldFine
  <1> QED BY <1>1, <1>3 DEF Backed, DeepBlock, Deep

LEMMA InvTypes == DepositInv => TypeOK
  <1> SUFFICES ASSUME DepositInv PROVE TypeOK
    OBVIOUS
  <1> USE DEF DepositInv
  <1>1. height \in 0..MaxHeight /\ seen \in 0..Len(nxt)
    BY ConstantTypes DEF WorldFine
  <1>2. DOMAIN xps = 1..Len(xps)
    BY DEF XpsFine
  <1>3. ASSUME NEW tx \in Txids
        PROVE  /\ tps[tx].known \in {0, Len(Outputs[tx])}
               /\ Range(tps[tx].vouts) \subseteq DOMAIN xps
               /\ tps[tx].known <= Len(tps[tx].vouts)
    <2>1. Placed(tx, tps[tx])
      BY DEF TpsFine
    <2>2. DOMAIN tps[tx].vouts = 1..Len(tps[tx].vouts)
      BY TransactionOf
    <2> QED BY <1>2, <2>1, <2>2 DEF Placed, Range
  <1>4. \A i \in 1..Len(xps) : xps[i].out \in Outs
    <2>1. \A i \in 1..Len(xps) : xps[i] \in Structures
      <3> HIDE DEF Structures
      <3> QED BY DEF XpsFine
    <2> QED BY <2>1 DEF Structures
  <1>5. loop.list \subseteq DOMAIN xps
    BY <1>2 DEF LoopFine, LoopGood
  <1> QED BY <1>1, <1>2, <1>3, <1>4, <1>5 DEF TypeOK

(* For all transactions, accounts, heights and confirmations, whatever     *)
(* fails, is lost or restarted: an asset transfer of this gateway is of an *)
(* output deep enough in the coin's chain, and never of change.            *)
THEOREM TransfersAlwaysBacked == Spec => [](TypeOK /\ TransferBacked)
  <1>1. Init => DepositInv
    BY DepositInit
  <1>2. DepositInv /\ [Next]_vars => DepositInv'
    BY DepositStep
  <1>3. DepositInv => TypeOK /\ TransferBacked
    BY InvBacks, InvTypes
  <1> QED BY <1>1, <1>2, <1>3, PTL DEF Spec
-----------------------------------------------------------------------------
(* No deposit is transferred twice                                         *)

(* The transfers of an output, and how many of them may have been taken    *)
(* for failures: none of another gateway's.                                *)
Paid(o) == Cardinality(Issued("XFER", o))
Allowed(o) == IF Out(o).acct \in Mine THEN setting.lostReplies ELSE 0

(* A transaction is settled when it is linked to a transfer, will be when  *)
(* the NXT thread has read the history again, or the answer to a transfer  *)
(* of it is at hand; and is not while a failure is about to be noted.      *)
Linked == {tx \in Txids : tps[tx].xfer # 0}
Coming ==
  IF historical THEN {}
  ELSE {tx \in Txids : \E k \in (seen + 1)..Len(nxt) :
                         nxt[k].kind = "XFER" /\ nxt[k].out[1] = tx}
Answered == IF loop.at = "record" /\ loop.txid # 0 THEN {Deposited[1]} ELSE {}
Unanswered == IF loop.at = "record" /\ loop.txid = 0 THEN {Deposited[1]} ELSE {}
Settled == (Linked \cup Coming \cup Answered) \ Unanswered

(* The last transfer there may be of an output settles its transaction.    *)
OnceInv ==
  \A o \in Outs :
    /\ Paid(o) <= 1 + Allowed(o)
    /\ Out(o).acct \in Mine /\ Paid(o) > Allowed(o) => o[1] \in Settled

LEMMA AllowedTypes ==
  ASSUME WorldFine, NEW o \in Outs
  PROVE  /\ Paid(o) \in Nat /\ Allowed(o) \in Nat /\ Allowed(o) <= setting.lostReplies
         /\ IsFiniteSet(Issued("XFER", o)) /\ setting.lostReplies \in Nat
  <1>1. setting.lostReplies \in Nat
    BY DepositAssumption DEF WorldFine
  <1> QED BY <1>1, FreshEvent DEF Paid, Allowed

LEMMA OnceInit == Init => OnceInv
  <1> SUFFICES ASSUME Init, NEW o \in Outs PROVE Paid(o) <= 1 + Allowed(o) /\ Paid(o) = 0
                                                 /\ Allowed(o) \in Nat
    BY DEF OnceInv
  <1>1. Issued("XFER", o) = {}
    BY DEF Init, Issued, Range
  <1>2. Paid(o) = 0
    BY <1>1, FS_EmptySet DEF Paid
  <1>3. Allowed(o) \in Nat
    BY DepositInit, AllowedTypes DEF DepositInv
  <1> QED BY <1>2, <1>3

(* What is issued stays as it is, and what is settled stays so.            *)
LEMMA OnceKept ==
  ASSUME OnceInv, UNCHANGED setting, Settled \subseteq Settled',
         \A o \in Outs : Issued("XFER", o)' = Issued("XFER", o)
  PROVE  OnceInv'
  <1>1. Outs' = Outs
    BY OutsKept
  <1>2. \A o \in Outs : Paid(o)' = Paid(o) /\ Allowed(o)' = Allowed(o)
    BY DEF Paid, Allowed, Out
  <1> QED BY <1>1, <1>2 DEF OnceInv, Out

(* Steps that await no answer and leave the NXT chain alone.               *)
LEMMA QuietStep ==
  ASSUME OnceInv, UNCHANGED <<setting, nxt, seen, historical>>,
         loop.at # "record", loop'.at # "record",
         \A o \in Outs : Issued("XFER", o)' = Issued("XFER", o),
         Linked \subseteq Linked'
  PROVE  OnceInv'
  <1>1. Coming' = Coming
    BY OutsKept DEF Coming
  <1>2. Settled \subseteq Settled'
    BY <1>1 DEF Settled, Answered, Unanswered
  <1> QED BY <1>2, OnceKept

LEMMA IssuedKept ==
  ASSUME UNCHANGED <<nxt, mempool>>
  PROVE  \A o \in Outs : Issued("XFER", o)' = Issued("XFER", o)
  BY DEF Issued, Range

LEMMA LinkedKept == ASSUME UNCHANGED <<setting, tps>> PROVE Linked' = Linked
  BY OutsKept DEF Linked
(* No message and no transfer of the chain takes a link away.              *)
LEMMA DecodeLinks ==
  ASSUME DepositInv, NEW o \in Outs, DecodeDepositConfirmed(o), UNCHANGED setting
  PROVE  Linked \subseteq Linked'
  <1> DEFINE i == tps[o[1]].vouts[o[2]]
  <1>1. o[1] \in Txids /\ Txids' = Txids
    BY OutsOf, OutsKept DEF DepositInv, WorldFine
  <1>2. CASE tps' = [tps EXCEPT ![o[1]].am = 1]
    BY <1>1, <1>2 DEF Linked, DepositInv, TpsFine, Transactions
  <1>3. CASE xps[i].asset # 0 /\ SetPending(o, i)
    <2> HIDE DEF i
    <2>1. tps' = [tps EXCEPT ![o[1]].xfer = xps[i].asset, ![o[1]].am = 1]
      BY <1>3 DEF SetPending
    <2> QED BY <1>1, <1>3, <2>1 DEF Linked, DepositInv, TpsFine, Transactions
  <1> QED BY <1>2, <1>3 DEF DecodeDepositConfirmed

LEMMA AssetLinks ==
  ASSUME DepositInv, NEW o \in Outs, NEW id \in Nat \ {0}, AssetEvent(o, id), UNCHANGED setting
  PROVE  Linked \subseteq Linked' /\ o[1] \in Linked'
  <1>1. o[1] \in Txids /\ Txids' = Txids
    BY OutsOf, OutsKept DEF DepositInv, WorldFine
  <1>2. tps' = [tps EXCEPT ![o[1]].xfer = id]
    BY DEF AssetEvent
  <1> QED BY <1>1, <1>2 DEF Linked, DepositInv, TpsFine, Transactions

(* Where the structures keep their outputs, the one awaited is the same.   *)
LEMMA AwaitedKept ==
  ASSUME DepositInv, UNCHANGED loop,
         \A i \in 1..Len(xps) : xps'[i].out = xps[i].out
  PROVE  Answered' = Answered /\ Unanswered' = Unanswered
  <1>1. Current' = Current
    BY DEF Current
  <1>2. CASE loop.at = "record"
    <2>1. Current \in 1..Len(xps)
      BY <1>2, CurrentStructure DEF DepositInv, LoopFine, LoopGood
    <2>2. Deposited' = Deposited
      BY <1>1, <2>1 DEF Deposited
    <2> QED BY <2>2 DEF Answered, Unanswered
  <1>3. CASE loop.at # "record"
    BY <1>3 DEF Answered, Unanswered
  <1> QED BY <1>2, <1>3

LEMMA OutsOfXpsKept ==
  ASSUME DepositInv, NEW o \in Outs,
         DecodeDepositConfirmed(o) \/ \E id \in Nat : AssetEvent(o, id)
  PROVE  \A i \in 1..Len(xps) : xps'[i].out = xps[i].out
  <1>1. xps \in [1..Len(xps) -> Structures]
    <2> HIDE DEF Structures
    <2> QED BY DEF DepositInv, XpsFine
  <1> DEFINE p == tps[o[1]].vouts[o[2]]
  <1>2. CASE UNCHANGED xps
    BY <1>2
  <1>3. CASE xps' = [xps EXCEPT ![p].confirmed = 1, ![p].pending = 1]
    <2> HIDE DEF p
    <2> QED BY <1>1, <1>3 DEF Structures
  <1>4. CASE \E id \in Nat : xps' = [xps EXCEPT ![p].asset = id]
    <2> HIDE DEF p
    <2> QED BY <1>1, <1>4 DEF Structures
  <1> QED BY <1>2, <1>3, <1>4 DEF DecodeDepositConfirmed, SetPending, AssetEvent

(* The transfers still to be read again are read before the history ends.  *)
LEMMA HandleOnce == ASSUME DepositInv, OnceInv, HandleEvent PROVE OnceInv'
  <1> DEFINE e == nxt[seen + 1]
  <1>1. e \in Events /\ seen \in Nat /\ Len(nxt) \in Nat
    <2> HIDE DEF Events
    <2> QED BY DEF HandleEvent, DepositInv, WorldFine
  <1>2. e.out \in Outs /\ e.id \in Nat \ {0} /\ e.kind \in {"AM", "XFER"}
    BY <1>1 DEF Events
  <1>3. UNCHANGED <<setting, nxt, mempool, historical, loop>> /\ seen' = seen + 1
    BY DEF HandleEvent, world
  <1>4. IF e.kind = "AM" THEN DecodeDepositConfirmed(e.out) ELSE AssetEvent(e.out, e.id)
    BY DEF HandleEvent
  <1>5. \A k \in (seen + 1)..Len(nxt) : k = seen + 1 \/ k \in (seen' + 1)..Len(nxt)
    BY <1>1, <1>3
  <1>6. Linked \subseteq Linked' /\ (e.kind = "XFER" => e.out[1] \in Linked')
    BY <1>2, <1>3, <1>4, DecodeLinks, AssetLinks
  <1>7. Coming \subseteq Coming' \cup Linked'
    <2>1. Txids' = Txids
      BY <1>3, OutsKept
    <2> HIDE DEF Linked
    <2> SUFFICES ASSUME NEW tx \in Coming, tx \notin Linked' PROVE tx \in Coming'
      OBVIOUS
    <2>2. ~historical /\ tx \in Txids
      BY DEF Coming
    <2>3. PICK k \in (seen + 1)..Len(nxt) : nxt[k].kind = "XFER" /\ nxt[k].out[1] = tx
      BY DEF Coming
    <2>4. k # seen + 1
      BY <1>6, <2>3
    <2>5. k \in (seen' + 1)..Len(nxt)
      BY <1>5, <2>3, <2>4
    <2> QED BY <1>3, <2>1, <2>2, <2>3, <2>5 DEF Coming
  <1> HIDE DEF e
  <1>8. Answered' = Answered /\ Unanswered' = Unanswered
    <2>1. DecodeDepositConfirmed(e.out) \/ \E id \in Nat : AssetEvent(e.out, id)
      BY <1>2, <1>4
    <2> QED BY <1>2, <1>3, <2>1, OutsOfXpsKept, AwaitedKept
  <1>9. Settled \subseteq Settled'
    BY <1>6, <1>7, <1>8 DEF Settled
  <1> QED BY <1>3, <1>9, OnceKept, IssuedKept

LEMMA EndHistoryOnce == ASSUME DepositInv, OnceInv, EndHistory PROVE OnceInv'
  <1>1. UNCHANGED <<setting, nxt, mempool, xps, tps, loop>> /\ seen = Len(nxt)
    BY DEF EndHistory, world, memory
  <1>2. Coming = {}
    BY <1>1 DEF Coming, DepositInv, WorldFine
  <1>3. Linked' = Linked /\ Answered' = Answered /\ Unanswered' = Unanswered
    BY <1>1, LinkedKept, AwaitedKept
  <1>4. Settled \subseteq Settled'
    BY <1>2, <1>3 DEF Settled
  <1> QED BY <1>1, <1>4, OnceKept, IssuedKept
(* Scanning blocks and going from one part of the loop to the next.        *)
LEMMA ScanOnce ==
  ASSUME DepositInv, OnceInv,
         \/ History \/ NewNXTBlock \/ RealTime \/ OpenBlock \/ CloseBlock
         \/ EndBlocks \/ EndRetries \/ EndAssets
  PROVE  OnceInv'
  <1>1. UNCHANGED <<setting, nxt, mempool, seen, historical, tps>>
    BY DEF History, NewNXTBlock, RealTime, OpenBlock, CloseBlock, EndBlocks, EndRetries,
           EndAssets, world, memory
  <1>2. loop.at # "record"
    BY DEF History, NewNXTBlock, RealTime, OpenBlock, CloseBlock, EndBlocks, EndRetries,
           EndAssets, At
  <1>3. loop \in Loops
    BY DEF DepositInv, LoopFine, LoopGood
  <1>4. loop'.at # "record"
    <2>1. \A b, done, list : /\ AtTop(b, done).at = "top"
                            /\ [AtTop(b, done) EXCEPT !.at = "assets", !.list = list].at = "assets"
      BY DEF AtTop
    <2>2. \A blocks : [loop EXCEPT !.at = "block", !.tip = height, !.blocks = blocks].at = "block"
      BY <1>3 DEF Loops
    <2>3. CASE History \/ RealTime
      <3>1. PICK blocks \in {<<Look(loop.block, TRUE)>>,
                            <<Look(loop.block, FALSE), Look(loop.block - MinConf, TRUE)>>} :
              \/ loop' = [loop EXCEPT !.at = "block", !.tip = height, !.blocks = blocks]
              \/ loop' = AtTop(loop.block, TRUE)
        <4> HIDE DEF AtTop
        <4>1. CASE History
          BY <4>1 DEF History
        <4>2. CASE RealTime
          BY <4>2 DEF RealTime
        <4> QED BY <2>3, <4>1, <4>2
      <3>2. [loop EXCEPT !.at = "block", !.tip = height, !.blocks = blocks].at = "block"
        BY <2>2
      <3>3. AtTop(loop.block, TRUE).at = "top"
        BY <2>1
      <3> QED BY <3>1, <3>2, <3>3
    <2>4. CASE NewNXTBlock \/ CloseBlock
      BY <1>3, <2>4 DEF NewNXTBlock, CloseBlock, Loops
    <2>5. CASE OpenBlock
      BY <1>2, <1>3, <2>5 DEF OpenBlock, Loops
    <2>6. CASE EndBlocks \/ EndRetries
      <3>1. PICK block, done :
              \/ loop' = [loop EXCEPT !.at = "retry", !.tries = retry]
              \/ loop' = AtTop(block, done)
              \/ loop' = [AtTop(block, done) EXCEPT !.at = "assets", !.list = ConfirmedDeposits]
        <4> DEFINE b == loop.block + loop.flag
        <4>1. \/ loop' = [loop EXCEPT !.at = "retry", !.tries = retry]
              \/ loop' = AtTop(b, FALSE) \/ loop' = AtTop(b, TRUE)
              \/ loop' = [AtTop(b, TRUE) EXCEPT !.at = "assets", !.list = ConfirmedDeposits]
          BY <2>6 DEF EndBlocks, EndRetries
        <4> HIDE DEF b
        <4> QED BY <4>1, Zenon
      <3>2. [loop EXCEPT !.at = "retry", !.tries = retry].at = "retry"
        BY <1>3 DEF Loops
      <3>3. AtTop(block, done).at = "top"
        BY <2>1
      <3>4. [AtTop(block, done) EXCEPT !.at = "assets", !.list = ConfirmedDeposits].at = "assets"
        BY <2>1
      <3> QED BY <3>1, <3>2, <3>3, <3>4
    <2>7. CASE EndAssets
      BY <1>3, <2>7 DEF EndAssets, Loops
    <2> QED BY <2>3, <2>4, <2>5, <2>6, <2>7
  <1>5. Linked \subseteq Linked'
    BY <1>1, LinkedKept
  <1> QED BY <1>1, <1>2, <1>4, <1>5, QuietStep, IssuedKept

LEMMA ForgetOnce == ASSUME DepositInv, OnceInv, ForgetOutputs PROVE OnceInv'
  <1>1. /\ UNCHANGED <<setting, nxt, mempool, seen, historical>> /\ loop.at = "tx"
        /\ tps' = [tps EXCEPT ![Tx].known = 0] /\ loop' = [loop EXCEPT !.at = "decode"]
    BY DEF ForgetOutputs, world, At
  <1>2. loop'.at = "decode"
    BY <1>1 DEF DepositInv, LoopFine, LoopGood, Loops
  <1>3. Linked \subseteq Linked'
    BY <1>1, OutsKept DEF Linked, DepositInv, TpsFine, Transactions
  <1> QED BY <1>1, <1>2, <1>3, QuietStep, IssuedKept

LEMMA RetryOnce == ASSUME DepositInv, OnceInv, RetryOne PROVE OnceInv'
  <1>1. PICK o \in loop.tries : DecodeDepositConfirmed(o)
                                  /\ loop' = [loop EXCEPT !.tries = loop.tries \ {o}]
    BY DEF RetryOne
  <1>2. UNCHANGED <<setting, nxt, mempool, seen, historical>> /\ loop.at = "retry"
    BY DEF RetryOne, world, At
  <1>3. o \in Outs
    BY LoopTypes DEF DepositInv
  <1>4. loop'.at = "retry"
    BY <1>1, <1>2 DEF DepositInv, LoopFine, LoopGood, Loops
  <1>5. Linked \subseteq Linked'
    BY <1>1, <1>2, <1>3, DecodeLinks
  <1> QED BY <1>2, <1>4, <1>5, QuietStep, IssuedKept

LEMMA NoTransferOnce == ASSUME DepositInv, OnceInv, NoTransfer PROVE OnceInv'
  <1>1. UNCHANGED <<setting, nxt, mempool, seen, historical, tps>> /\ loop.at = "assets"
    BY DEF NoTransfer, world, At
  <1>2. loop'.at = "assets"
    BY <1>1 DEF NoTransfer, DepositInv, LoopFine, LoopGood, Loops
  <1> QED BY <1>1, <1>2, QuietStep, IssuedKept, LinkedKept

(* A scan sends messages and no transfers, and leaves the links alone.     *)
LEMMA DecodeOnce == ASSUME DepositInv, OnceInv, DecodeTx PROVE OnceInv'
  <1>1. UNCHANGED <<setting, nxt, seen, historical>> /\ loop.at = "decode"
    BY DEF DecodeTx, At
  <1>2. loop'.at = "tx"
    BY <1>1 DEF DecodeTx, DepositInv, LoopFine, LoopGood, Loops
  <1>3. Tx \in Txids
    <2>1. loop.txs # {} /\ loop.txs \subseteq Txids
      BY <1>1, LoopTypes DEF DepositInv, LoopFine, LoopGood
    <2> QED BY <2>1 DEF Tx
  <1>4. \A o \in Outs : Issued("XFER", o)' = Issued("XFER", o)
    <2>1. CASE UNCHANGED mempool
      BY <1>1, <2>1, IssuedKept
    <2>2. CASE \E sent \in SUBSET Announced(Tx) : mempool' = mempool \cup sent
      <3>1. PICK sent \in SUBSET Announced(Tx) : mempool' = mempool \cup sent
        BY <2>2
      <3>2. \A e \in sent : e.kind = "AM"
        BY <1>3, <3>1, Announcements
      <3> QED BY <1>1, <3>1, <3>2 DEF Issued, Range
    <2> HIDE DEF Announced
    <2> QED BY <2>1, <2>2 DEF DecodeTx
  <1>5. Linked \subseteq Linked'
    <2>1. CASE UNCHANGED tps
      BY <1>1, <2>1, LinkedKept
    <2>2. CASE ~UNCHANGED tps
      <3> DEFINE old == tps[Tx].vouts
                 n == Len(Outputs[Tx])
                 place == IF old # <<>> /\ ~xps[old[1]].coin_confirmed
                            THEN old ELSE [v \in 1..n |-> Len(xps) + v]
      <3>1. tps' = [tps EXCEPT ![Tx].known = n, ![Tx].vouts = place]
        BY <2>2 DEF DecodeTx
      <3> HIDE DEF n, place
      <3>2. \A t \in Txids : tps'[t].xfer = tps[t].xfer
        BY <3>1 DEF DepositInv, TpsFine, Transactions
      <3> QED BY <1>1, <3>2, OutsKept DEF Linked
    <2> QED BY <2>1, <2>2
  <1> QED BY <1>1, <1>2, <1>4, <1>5, QuietStep
(* One more of an output's transfers adds one to them at most.             *)
LEMMA OnePaid ==
  ASSUME WorldFine, UNCHANGED <<setting, nxt>>, NEW o \in Outs, NEW e, e.kind = "XFER", e.out = o,
         mempool' = mempool \cup {e}
  PROVE  /\ Paid(o)' \in Nat /\ Paid(o)' <= Paid(o) + 1
         /\ \A p \in Outs : p # o => Paid(p)' = Paid(p)
         /\ \A p \in Outs : Allowed(p)' = Allowed(p)
  <1>1. Issued("XFER", o)' = Issued("XFER", o) \cup {e}
    BY DEF Issued, Range
  <1>2. IsFiniteSet(Issued("XFER", o)) /\ Paid(o) \in Nat
    BY AllowedTypes
  <1>3. Cardinality(Issued("XFER", o) \cup {e}) \in {Paid(o), Paid(o) + 1}
    BY <1>2, FS_AddElement DEF Paid
  <1>4. Paid(o)' = Cardinality(Issued("XFER", o) \cup {e})
    BY <1>1 DEF Paid
  <1>5. ASSUME NEW p \in Outs, p # o PROVE Paid(p)' = Paid(p)
    <2>1. Issued("XFER", p)' = Issued("XFER", p)
      BY <1>5 DEF Issued, Range
    <2> QED BY <2>1 DEF Paid
  <1> QED BY <1>2, <1>3, <1>4, <1>5 DEF Allowed, Out

(* A transfer is issued when its transaction is not settled, and its       *)
(* answer, unless it is lost, settles it.                                  *)
LEMMA IssueOnce == ASSUME DepositInv, OnceInv, IssueTransfer PROVE OnceInv'
  <1>a. PICK d : d = Deposited
    OBVIOUS
  <1>b. PICK f : f = Fresh("XFER", d)
    OBVIOUS
  <1>1. /\ UNCHANGED <<setting, nxt, seen, historical, tps, xps>> /\ historical
        /\ loop.at = "assets" /\ loop.list # {} /\ Out(d).acct \in Mine /\ tps[d[1]].xfer = 0
    BY <1>a DEF IssueTransfer, MayTransfer, memory, At
  <1>2. d \in Outs /\ WorldFine
    BY <1>1, <1>a, CurrentStructure DEF DepositInv
  <1>3. /\ Paid(d) \in Nat /\ setting.lostReplies \in Nat /\ Allowed(d) = setting.lostReplies
        /\ f.kind = "XFER" /\ f.out = d /\ f.id = Paid(d) + 1
    <2>1. Allowed(d) = setting.lostReplies
      BY <1>1 DEF Allowed
    <2>2. Paid(d) \in Nat /\ setting.lostReplies \in Nat
      BY <1>2, AllowedTypes
    <2> QED BY <1>b, <2>1, <2>2 DEF Fresh, Paid
  <1>4. Linked' = Linked /\ Coming = {} /\ Coming' = {} /\ Outs' = Outs
    BY <1>1, LinkedKept, OutsKept DEF Coming
  <1>5. Deposited' = d
    <2>1. \E id \in {f.id, 0} : loop' = [loop EXCEPT !.at = "record", !.txid = id]
      BY <1>a, <1>b DEF IssueTransfer
    <2>2. loop'.list = loop.list
      BY <2>1 DEF DepositInv, LoopFine, LoopGood, Loops
    <2>3. Current' = Current
      BY <2>2 DEF Current
    <2> QED BY <1>1, <1>a, <2>3 DEF Deposited
  <1>6. d[1] \notin Settled
    BY <1>1, <1>4 DEF Settled, Linked, Answered
  <1>7. \A o \in Outs : /\ Paid(o) <= 1 + Allowed(o)
                        /\ Out(o).acct \in Mine /\ Paid(o) > Allowed(o) => o[1] \in Settled
    BY DEF OnceInv
  <1>8. Settled = Linked
    BY <1>1, <1>4 DEF Settled, Answered, Unanswered
  <1>9. \A o \in Outs : Out(o)' = Out(o)
    BY DEF Out
  <1>10. \A id : [loop EXCEPT !.at = "record", !.txid = id].at = "record"
                   /\ [loop EXCEPT !.at = "record", !.txid = id].txid = id
    BY DEF DepositInv, LoopFine, LoopGood, Loops
  <1>11. Paid(d) <= setting.lostReplies
    BY <1>1, <1>2, <1>3, <1>6, <1>7
  <1>12. CASE mempool' = mempool \cup {f} /\ loop' = [loop EXCEPT !.at = "record", !.txid = f.id]
    <2>1. /\ Paid(d)' \in Nat /\ Paid(d)' <= Paid(d) + 1
          /\ \A p \in Outs : p # d => Paid(p)' = Paid(p)
          /\ \A p \in Outs : Allowed(p)' = Allowed(p)
      BY <1>1, <1>2, <1>3, <1>12, OnePaid
    <2>2. loop'.at = "record" /\ loop'.txid = f.id
      BY <1>10, <1>12
    <2>3. loop'.txid # 0
      BY <1>3, <2>2
    <2>4. Settled' = Linked \cup {d[1]}
      BY <1>4, <1>5, <2>2, <2>3 DEF Settled, Answered, Unanswered
    <2>5. Paid(d)' <= 1 + Allowed(d)
      BY <1>3, <1>11, <2>1
    <2>6. ASSUME NEW o \in Outs
          PROVE  /\ Paid(o)' <= 1 + Allowed(o)
                 /\ Out(o).acct \in Mine /\ Paid(o)' > Allowed(o) => o[1] \in Settled'
      BY <1>7, <1>8, <2>1, <2>4, <2>5
    <2> QED BY <1>4, <1>9, <2>1, <2>6 DEF OnceInv
  <1>13. CASE loop' = [loop EXCEPT !.at = "record", !.txid = 0]
              /\ (mempool' = mempool \/ (f.id <= setting.lostReplies /\ mempool' = mempool \cup {f}))
    <2>1. /\ Paid(d)' \in Nat /\ Paid(d)' <= setting.lostReplies
          /\ \A p \in Outs : p # d => Paid(p)' = Paid(p)
          /\ \A p \in Outs : Allowed(p)' = Allowed(p)
      <3>1. CASE mempool' = mempool
        <4>1. \A p \in Outs : Paid(p)' = Paid(p) /\ Allowed(p)' = Allowed(p)
          BY <1>1, <3>1, IssuedKept DEF Paid, Allowed, Out
        <4> QED BY <1>2, <1>3, <1>11, <4>1
      <3>2. CASE f.id <= setting.lostReplies /\ mempool' = mempool \cup {f}
        <4>1. /\ Paid(d)' \in Nat /\ Paid(d)' <= Paid(d) + 1
              /\ \A p \in Outs : p # d => Paid(p)' = Paid(p)
              /\ \A p \in Outs : Allowed(p)' = Allowed(p)
          BY <1>1, <1>2, <1>3, <3>2, OnePaid
        <4> QED BY <1>3, <3>2, <4>1
      <3> QED BY <1>13, <3>1, <3>2
    <2>2. loop'.at = "record" /\ loop'.txid = 0
      BY <1>10, <1>13
    <2>3. Settled' = Linked \ {d[1]}
      BY <1>4, <1>5, <2>2 DEF Settled, Answered, Unanswered
    <2>4. Settled' = Settled
      BY <1>6, <1>8, <2>3
    <2>5. ASSUME NEW o \in Outs
          PROVE  /\ Paid(o)' <= 1 + Allowed(o)
                 /\ Out(o).acct \in Mine /\ Paid(o)' > Allowed(o) => o[1] \in Settled'
      BY <1>3, <1>7, <2>1, <2>4
    <2> QED BY <1>4, <1>9, <2>1, <2>5 DEF OnceInv
  <1> QED BY <1>a, <1>b, <1>12, <1>13 DEF IssueTransfer
(* The answer links the transaction, a failure leaves it unlinked: it was  *)
(* not settled.                                                            *)
LEMMA RecordOnce == ASSUME DepositInv, OnceInv, RecordTransfer PROVE OnceInv'
  <1>1. PICK tx : tx = Deposited[1]
    OBVIOUS
  <1>2. /\ UNCHANGED <<setting, nxt, mempool, seen, historical>>
        /\ loop.at = "record" /\ tps' = [tps EXCEPT ![tx].xfer = loop.txid]
    BY <1>1 DEF RecordTransfer, world, At
  <1>3. Coming' = Coming
    BY <1>2, OutsKept DEF Coming
  <1>4. loop'.at = "assets"
    BY DEF RecordTransfer, DepositInv, LoopFine, LoopGood, Loops
  <1>5. Answered' = {} /\ Unanswered' = {}
    BY <1>4 DEF Answered, Unanswered
  <1>6. tx \in Txids /\ Txids' = Txids
    <2>1. loop.list # {}
      BY <1>2 DEF DepositInv, LoopFine, LoopGood
    <2>2. Deposited \in Outs
      BY <2>1, CurrentStructure
    <2> QED BY <1>1, <1>2, <2>2, OutsOf, OutsKept DEF DepositInv, WorldFine
  <1>7. /\ \A t \in Txids \ {tx} : tps'[t].xfer = tps[t].xfer
        /\ tps'[tx].xfer = loop.txid
    BY <1>2, <1>6 DEF DepositInv, TpsFine, Transactions
  <1>8. Linked \ {tx} \subseteq Linked' /\ (loop.txid # 0 => tx \in Linked')
    BY <1>6, <1>7 DEF Linked
  <1>9. Settled \subseteq Settled'
    <2>1. CASE loop.txid # 0
      <3>1. Answered = {tx}
        BY <1>1, <1>2, <2>1 DEF Answered
      <3> QED BY <1>3, <1>5, <1>8, <2>1, <3>1 DEF Settled
    <2>2. CASE loop.txid = 0
      <3>1. Answered = {} /\ Unanswered = {tx}
        BY <1>1, <1>2, <2>2 DEF Answered, Unanswered
      <3> QED BY <1>3, <1>5, <1>8, <3>1 DEF Settled
    <2> QED BY <2>1, <2>2
  <1> QED BY <1>2, <1>9, OnceKept, IssuedKept

LEMMA CoinBlockOnce == ASSUME DepositInv, OnceInv, CoinBlock PROVE OnceInv'
  <1>1. UNCHANGED <<setting, nxt, mempool, seen, historical, tps, xps, loop>>
    BY DEF CoinBlock, memory
  <1>2. Linked' = Linked /\ Coming' = Coming /\ Answered' = Answered /\ Unanswered' = Unanswered
    BY <1>1, LinkedKept, OutsKept, AwaitedKept DEF Coming
  <1> QED BY <1>1, <1>2, OnceKept, IssuedKept DEF Settled

LEMMA StutterOnce == ASSUME DepositInv, OnceInv, UNCHANGED vars PROVE OnceInv'
  <1>1. UNCHANGED <<setting, nxt, mempool, seen, historical, tps, xps, loop>>
    BY DEF vars, world, memory
  <1>2. Linked' = Linked /\ Coming' = Coming /\ Answered' = Answered /\ Unanswered' = Unanswered
    BY <1>1, LinkedKept, OutsKept, AwaitedKept DEF Coming
  <1> QED BY <1>1, <1>2, OnceKept, IssuedKept DEF Settled

(* A block of the NXT chain holds what was sent.                           *)
LEMMA NXTBlockOnce == ASSUME DepositInv, OnceInv, NXTBlock PROVE OnceInv'
  <1>1. UNCHANGED <<setting, seen, historical, tps, xps, loop>>
    BY DEF NXTBlock, memory
  <1>2. PICK e \in mempool : nxt' = Append(nxt, e) /\ mempool' = mempool \ {e}
    BY DEF NXTBlock
  <1>3. /\ Len(nxt) \in Nat /\ Len(nxt') = Len(nxt) + 1 /\ seen \in Nat
        /\ \A k \in 1..Len(nxt) : nxt'[k] = nxt[k]
        /\ nxt'[Len(nxt) + 1] = e
    <2> HIDE DEF Events
    <2> QED BY <1>2 DEF DepositInv, WorldFine
  <1>4. Range(nxt)' \cup mempool' = Range(nxt) \cup mempool
    <2>1. /\ Range(nxt) = {nxt[k] : k \in 1..Len(nxt)}
          /\ Range(nxt)' = {nxt'[k] : k \in 1..(Len(nxt) + 1)}
      <3> HIDE DEF Events
      <3>1. nxt \in Seq(Events)
        BY DEF DepositInv, WorldFine
      <3> QED BY <1>2, <3>1 DEF Range, DepositInv, WorldFine
    <2>2. 1..(Len(nxt) + 1) = 1..Len(nxt) \cup {Len(nxt) + 1}
      BY <1>3
    <2>3. Range(nxt)' = Range(nxt) \cup {e}
      BY <1>3, <2>1, <2>2
    <2> QED BY <1>2, <2>3
  <1>5. \A o \in Outs : Issued("XFER", o)' = Issued("XFER", o)
    BY <1>4 DEF Issued
  <1>6. Coming \subseteq Coming'
    <2>1. Txids' = Txids
      BY <1>1, OutsKept
    <2>2. \A k \in (seen + 1)..Len(nxt) : k \in (seen + 1)..Len(nxt') /\ nxt'[k] = nxt[k]
      BY <1>3
    <2> QED BY <1>1, <2>1, <2>2 DEF Coming
  <1>7. Linked' = Linked /\ Answered' = Answered /\ Unanswered' = Unanswered
    BY <1>1, LinkedKept, AwaitedKept
  <1> QED BY <1>1, <1>5, <1>6, <1>7, OnceKept DEF Settled

(* Another gateway transfers once what is not this one's to transfer.      *)
LEMMA OtherOnce == ASSUME DepositInv, OnceInv, OtherGateway PROVE OnceInv'
  <1>1. UNCHANGED <<setting, nxt, seen, historical, tps, xps, loop>>
    BY DEF OtherGateway, memory
  <1>2. PICK o \in Outs, kind \in {"AM", "XFER"} :
          /\ Out(o).acct \notin Mine /\ mempool' = mempool \cup {Fresh(kind, o)}
          /\ kind = "XFER" => Paid(o) < 1
    BY DEF OtherGateway, Paid
  <1>3. PICK e : e = Fresh(kind, o)
    OBVIOUS
  <1>4. e.kind = kind /\ e.out = o
    BY <1>3 DEF Fresh
  <1>5. Linked' = Linked /\ Answered' = Answered /\ Unanswered' = Unanswered /\ Coming' = Coming
    BY <1>1, LinkedKept, OutsKept, AwaitedKept DEF Coming
  <1>6. Settled' = Settled
    BY <1>5 DEF Settled
  <1>7. CASE kind = "AM"
    <2>1. \A p \in Outs : Issued("XFER", p)' = Issued("XFER", p)
      BY <1>1, <1>2, <1>3, <1>4, <1>7 DEF Issued, Range
    <2> QED BY <1>1, <1>6, <2>1, OnceKept
  <1>8. CASE kind = "XFER"
    <2>1. /\ Paid(o)' \in Nat /\ Paid(o)' <= Paid(o) + 1
          /\ \A p \in Outs : p # o => Paid(p)' = Paid(p)
          /\ \A p \in Outs : Allowed(p)' = Allowed(p)
      BY <1>1, <1>2, <1>3, <1>4, <1>8, OnePaid DEF DepositInv
    <2>2. Paid(o) \in Nat /\ Allowed(o) = 0
      BY <1>2, AllowedTypes DEF DepositInv, Allowed
    <2>3. Paid(o)' <= 1
      BY <1>2, <1>8, <2>1, <2>2
    <2>4. Outs' = Outs /\ \A p \in Outs : Out(p)' = Out(p)
      BY <1>1, OutsKept DEF Out
    <2>5. ASSUME NEW p \in Outs
          PROVE  /\ Paid(p)' <= 1 + Allowed(p)
                 /\ Out(p).acct \in Mine /\ Paid(p)' > Allowed(p) => p[1] \in Settled'
      <3>1. CASE p = o
        BY <1>2, <2>2, <2>3, <3>1
      <3>2. CASE p # o
        BY <1>6, <2>1, <3>2 DEF OnceInv
      <3> QED BY <3>1, <3>2
    <2> QED BY <2>1, <2>4, <2>5 DEF OnceInv
  <1> QED BY <1>7, <1>8
(* A restart forgets the links, and every transfer is in the chain it      *)
(* reads again from the start.                                             *)
LEMMA RestartOnce == ASSUME DepositInv, OnceInv, Restart PROVE OnceInv'
  <1>1. /\ UNCHANGED <<setting, nxt, mempool>> /\ mempool = {} /\ seen' = 0 /\ ~historical'
        /\ loop' = AtTop(FirstBlock, FALSE)
    BY DEF Restart
  <1>2. /\ Outs' = Outs /\ Txids' = Txids
        /\ \A o \in Outs : Issued("XFER", o)' = Issued("XFER", o)
    BY <1>1, OutsKept, IssuedKept
  <1>3. \A o \in Outs : Paid(o)' = Paid(o) /\ Allowed(o)' = Allowed(o) /\ Out(o)' = Out(o)
    BY <1>1, <1>2 DEF Paid, Allowed, Out
  <1>4. Settled' = Linked' \cup Coming'
    BY <1>1 DEF Settled, Answered, Unanswered, AtTop
  <1>5. ASSUME NEW o \in Outs, Paid(o) > Allowed(o) PROVE o[1] \in Coming'
    <2>1. Issued("XFER", o) # {}
      BY <1>5, AllowedTypes, FS_EmptySet DEF Paid, DepositInv
    <2>2. PICK e \in Range(nxt) : e.kind = "XFER" /\ e.out = o
      BY <1>1, <2>1 DEF Issued
    <2>3. PICK k \in 1..Len(nxt) : nxt[k] = e
      BY <2>2 DEF Range, DepositInv, WorldFine
    <2>4. k \in (seen' + 1)..Len(nxt')
      BY <1>1, <2>3
    <2>5. o[1] \in Txids
      BY OutsOf DEF DepositInv, WorldFine
    <2> QED BY <1>1, <1>2, <2>2, <2>3, <2>4, <2>5 DEF Coming
  <1> QED BY <1>2, <1>3, <1>4, <1>5 DEF OnceInv

LEMMA OnceStep == DepositInv /\ OnceInv /\ [Next]_vars => OnceInv'
  <1> SUFFICES ASSUME DepositInv, OnceInv, [Next]_vars PROVE OnceInv'
    OBVIOUS
  <1>1. CASE Scan
    BY <1>1, ScanOnce, ForgetOnce, DecodeOnce, RetryOnce DEF Scan
  <1>2. CASE Assets
    BY <1>2, IssueOnce, RecordOnce, NoTransferOnce, ScanOnce DEF Assets
  <1>3. CASE NXTThread
    BY <1>3, HandleOnce, EndHistoryOnce DEF NXTThread
  <1>4. CASE World
    BY <1>4, CoinBlockOnce, NXTBlockOnce, OtherOnce, RestartOnce DEF World
  <1>5. CASE UNCHANGED vars
    BY <1>5, StutterOnce
  <1> QED BY <1>1, <1>2, <1>3, <1>4, <1>5 DEF Next

(* For all transactions, accounts, heights and confirmations, whatever is  *)
(* scanned, announced or read again, and after any number of restarts: no  *)
(* output is transferred more often than answers about it were lost, and   *)
(* once more.                                                              *)
THEOREM TransfersNeverRepeated == Spec => []TransferredAtMostOnce
  <1>1. Init => DepositInv /\ OnceInv
    BY DepositInit, OnceInit
  <1>2. DepositInv /\ OnceInv /\ [Next]_vars => (DepositInv /\ OnceInv)'
    BY DepositStep, OnceStep
  <1>3. DepositInv /\ OnceInv => TransferredAtMostOnce
    <2> SUFFICES ASSUME DepositInv, OnceInv, NEW o \in Outs
                 PROVE  Paid(o) <= 1 + setting.lostReplies
      BY DEF TransferredAtMostOnce, Paid
    <2> QED BY AllowedTypes DEF DepositInv, OnceInv
  <1> QED BY <1>1, <1>2, <1>3, PTL DEF Spec
=============================================================================
