------------------------------ MODULE Unspent ------------------------------
(***************************************************************************)
(* Which of the coins on the multisig addresses the gateways believe they  *)
(* can spend: bitcoin.h visits every transaction of a block, once when the *)
(* block is new and once when it is min_confirms old, and links inputs to  *)
(* the outputs they spend; balances.h sums up what is left.  One Coinloop  *)
(* thread, one coin; no block of the coin is orphaned.                     *)
(***************************************************************************)
EXTENDS Integers, Sequences, FiniteSets, FiniteSetsExt, SequencesExt

CONSTANTS
  Txs,           (* function from transaction ids to their outs (sequences of
                    addr and value) and ins (sequences of tx and vout, counted
                    from 1; a coinbase has none) *)
  Msigs,         (* sequence of the multisig addresses *)
  NoAddress,     (* the address of an output whose script names none *)
  MinConf,       (* min_confirms *)
  Settings       (* the circumstances to look at, see the variable *)

Ids == DOMAIN Txs
Outputs == {<<t, i>> \in Ids \X (1..4) : i <= Len(Txs[t].outs)}
NONE == "none"

ASSUME UnspentAssumption ==
  /\ MinConf \in Nat \ {0} /\ NONE \notin Ids
  /\ \A t \in Ids : \A i \in DOMAIN Txs[t].outs : Txs[t].outs[i].value \in Nat \ {0}
  /\ \A c \in Settings :
       /\ \A b \in DOMAIN c.chain : b \in Nat /\ c.chain[b] \in Seq(Ids)
       /\ {c.txFails, c.early} \subseteq BOOLEAN
       /\ {c.start, c.tip, c.top, c.blockFails} \subseteq Nat

VARIABLES
  setting,   (* chain: the blocks with transactions we look at; start:         *)
             (* gp->blockheight and tip: the coin's height when the program    *)
             (* starts; txFails: whether requests for a transaction may fail;  *)
             (* early: whether the coin may get blocks while its history is    *)
             (* read; bounds: top, the height, and blockFails, the requests    *)
             (* for a block or the height that fail                            *)
  tip,       (* the coin's height *)
  loop,      (* where Coinloop stands *)
  vps,       (* every struct coin_value that was allocated, in that order *)
  vouts,     (* tp->vouts: per transaction the numbers of its coin_values *)
  numvouts,  (* tp->numvouts *)
  xps,       (* lp->xps: the confirmed deposits, by their coin_value *)
  up,        (* struct unspent_info *)
  seen       (* history: the last block visited when new, and when confirmed *)

memory == <<vps, vouts, numvouts, xps>>
vars == <<setting, tip, loop, memory, up, seen>>

NoFunds == [maxunspent |-> 0, unspent |-> 0, vps |-> <<>>, maxavail |-> 0,
            minavail |-> 0, smallest |-> "", asof |-> [new |-> 0, confirmed |-> 0]]

Init ==
  /\ setting \in Settings /\ tip = setting.tip
  /\ loop = [at |-> "top", block |-> setting.start, height |-> 0, initdone |-> FALSE,
             visits |-> <<>>, txs |-> <<>>, isconfirmed |-> FALSE, flag |-> 1, fails |-> 0]
  /\ vps = <<>> /\ xps = <<>>
  /\ vouts = [t \in Ids |-> <<>>] /\ numvouts = [t \in Ids |-> 0]
  /\ up = NoFunds /\ seen = [new |-> 0, confirmed |-> 0]

At(label) == loop.at = label
IsMsig(addr) == addr \in ToSet(Msigs)

-----------------------------------------------------------------------------
(* update_unspent_funds *)

Free(v) == vps[v].spent = NONE /\ vps[v].pendingspend = NONE
Value(v) == vps[v].value
Total(S) == MapThenSumSet(LAMBDA i : Value(xps[i]), S)

(* Slip: a spend that is not confirmed yet does not count. *)
Slip_Open == {i \in DOMAIN xps : Value(xps[i]) > 0 /\ vps[xps[i]].spent = NONE}

Open == {i \in DOMAIN xps : Value(xps[i]) > 0 /\ Free(xps[i])}

OpenAt(addr) == {i \in Open : vps[xps[i]].addr = addr}

(* The search for the smallest account starts anew wherever it has found   *)
(* one of nothing.                                                         *)
Smallest ==
  FoldLeft(LAMBDA best, addr :
             IF best.addr = "" \/ best.unspent = 0 \/ Total(OpenAt(addr)) < best.unspent
             THEN [addr |-> addr, unspent |-> Total(OpenAt(addr))] ELSE best,
           [addr |-> "", unspent |-> 0], Msigs)

Funds ==
  LET sorted == SetToSortSeq({xps[i] : i \in Open}, LAMBDA v, w :
                  Value(v) > Value(w) \/ (Value(v) = Value(w) /\ v < w))
  IN  [maxunspent |-> Total({i \in DOMAIN xps : Value(xps[i]) > 0}),
       unspent |-> Total(Open), vps |-> sorted,
       maxavail |-> IF Open = {} THEN 0 ELSE Max({Value(xps[i]) : i \in Open}),
       minavail |-> IF Open = {} THEN 0 ELSE Min({Value(xps[i]) : i \in Open}),
       smallest |-> Smallest.addr, asof |-> seen]

(* transfer_assets does nothing while there is no confirmed deposit.       *)
Refreshed == IF xps = <<>> THEN up ELSE Funds

-----------------------------------------------------------------------------
(* Coinloop *)

Visit(b, confirmed) == [block |-> b, isconfirmed |-> confirmed]

(* Before initdone every block up to min_confirms below the tip.           *)
History ==
  /\ At("top") /\ ~loop.initdone
  /\ loop' = IF loop.block <= tip - MinConf - 1
             THEN [loop EXCEPT !.at = "block", !.visits = <<Visit(loop.block, TRUE)>>,
                               !.flag = 1]
             ELSE [loop EXCEPT !.initdone = TRUE]
  /\ UNCHANGED <<setting, tip, memory, up, seen>>

(* Where getinfo fails the height is 0, and the history ends there.        *)
NoHeight ==
  /\ At("top") /\ ~loop.initdone /\ loop.fails < setting.blockFails
  /\ loop' = [loop EXCEPT !.initdone = TRUE, !.fails = @ + 1]
  /\ UNCHANGED <<setting, tip, memory, up, seen>>

(* A new NXT block: transfer_assets runs before the coin's block.          *)
NewNXTBlock ==
  /\ At("top") /\ loop.initdone
  /\ up' = Refreshed
  /\ UNCHANGED <<setting, tip, loop, memory, seen>>

RealTime ==
  /\ At("top") /\ loop.initdone /\ loop.block <= tip
  /\ loop' = [loop EXCEPT !.at = "block", !.flag = 1, !.height = tip,
       !.visits = <<Visit(loop.block, FALSE), Visit(loop.block - MinConf, TRUE)>>]
  /\ UNCHANGED <<setting, tip, memory, up, seen>>

BlockTxs(b) == IF b \in DOMAIN setting.chain THEN setting.chain[b] ELSE <<>>

(* getblockhash and getblock; when one fails the rest of the visits is     *)
(* left out and all are made again.                                        *)
OpenBlock ==
  /\ At("block") /\ loop.visits # <<>>
  /\ LET v == Head(loop.visits) IN
       \/ /\ loop' = [loop EXCEPT !.at = "tx", !.visits = Tail(@), !.txs = BlockTxs(v.block),
                                  !.isconfirmed = v.isconfirmed]
          /\ seen' = IF v.isconfirmed
                     THEN [new |-> Max({seen.new, v.block}), confirmed |-> v.block]
                     ELSE [seen EXCEPT !.new = Max({@, v.block})]
       \/ /\ loop.fails < setting.blockFails
          /\ loop' = [loop EXCEPT !.visits = <<>>, !.flag = 0, !.fails = @ + 1]
          /\ UNCHANGED seen
  /\ UNCHANGED <<setting, tip, memory, up>>

(* process_vouts: numvouts was set to 0, so every output gets a new        *)
(* coin_value; a confirmed one to a multisig address becomes a deposit.    *)
NewOutputs(t) ==
  [i \in DOMAIN Txs[t].outs |->
     [tx |-> t, vout |-> i, addr |-> Txs[t].outs[i].addr, value |-> Txs[t].outs[i].value,
      spent |-> NONE, pendingspend |-> NONE]]

(* The numbers that the outputs' coin_values get; 0 for none.              *)
Numbers(t) ==
  [i \in DOMAIN Txs[t].outs |->
     IF Txs[t].outs[i].addr = NoAddress THEN 0 ELSE Len(vps) + i]

Deposits(t) ==
  SelectSeq(Numbers(t), LAMBDA v : v # 0 /\ IsMsig(Txs[t].outs[v - Len(vps)].addr))

(* process_vins: the outputs t spends of transactions that were entered.   *)
(* The first that is looked at is the address of the output, which one     *)
(* without an address does not have; then the number is held against       *)
(* numvouts.                                                               *)
Known(t) == {in \in ToSet(Txs[t].ins) : vouts[in.tx] # <<>>}
StopsAt(t) == \E in \in Known(t) : vouts[in.tx][in.vout] = 0
SpentVps(t) == {vouts[in.tx][in.vout] : in \in {k \in Known(t) : k.vout <= numvouts[k.tx]}}

(* Slip: once confirmed, a spend is no longer pending, and nothing else. *)
Slip_Marked(vp, t) == [vp EXCEPT !.pendingspend = IF loop.isconfirmed THEN NONE ELSE t]

Marked(vp, t) ==
  IF loop.isconfirmed THEN [vp EXCEPT !.spent = t] ELSE [vp EXCEPT !.pendingspend = t]

(* The outputs are entered, and as deposits once they are confirmed.       *)
Enter(t) ==
  /\ vouts' = [vouts EXCEPT ![t] = Numbers(t)]
  /\ xps' = IF loop.isconfirmed THEN xps \o Deposits(t) ELSE xps

(* update_coin_values for one transaction: getrawtransaction,              *)
(* decoderawtransaction, process_vouts and process_vins.                   *)
UpdateCoinValues ==
  LET t == Head(loop.txs) IN
  /\ At("tx") /\ loop.txs # <<>> /\ ~StopsAt(t)
  /\ Enter(t) /\ numvouts' = [numvouts EXCEPT ![t] = Len(Txs[t].outs)]
  /\ vps' = [v \in DOMAIN vps |->
               IF v \in SpentVps(t) THEN Marked(vps[v], t) ELSE vps[v]] \o NewOutputs(t)
  /\ loop' = [loop EXCEPT !.txs = Tail(@)]
  /\ UNCHANGED <<setting, tip, up, seen>>

(* A transaction that the daemon does not give is passed over, and keeps   *)
(* its outputs but not their number.                                       *)
NoTransaction ==
  /\ At("tx") /\ loop.txs # <<>> /\ setting.txFails
  /\ numvouts' = [numvouts EXCEPT ![Head(loop.txs)] = 0]
  /\ loop' = [loop EXCEPT !.txs = Tail(@)]
  /\ UNCHANGED <<setting, tip, vps, vouts, xps, up, seen>>

(* The address of an output without one is read: the program ends.         *)
Crash ==
  /\ At("tx") /\ loop.txs # <<>> /\ StopsAt(Head(loop.txs))
  /\ loop' = [loop EXCEPT !.at = "crashed"]
  /\ UNCHANGED <<setting, tip, memory, up, seen>>

CloseBlock ==
  /\ At("tx") /\ loop.txs = <<>>
  /\ loop' = [loop EXCEPT !.at = "block"]
  /\ UNCHANGED <<setting, tip, memory, up, seen>>

(* Slip: the balances wait for a block more than there is. *)
Slip_Latest == loop.block > loop.height

Latest == loop.block = loop.height

(* After the visits: transfer_assets when the block is the last.           *)
EndVisits ==
  /\ At("block") /\ loop.visits = <<>>
  /\ up' = IF loop.initdone /\ Latest THEN Refreshed ELSE up
  /\ loop' = [loop EXCEPT !.at = "top", !.block = @ + loop.flag]
  /\ UNCHANGED <<setting, tip, memory, seen>>

CoinBlock ==
  /\ tip < setting.top /\ (setting.early \/ loop.initdone) /\ tip' = tip + 1
  /\ UNCHANGED <<setting, loop, memory, up, seen>>

Scan ==
  \/ History \/ NoHeight \/ RealTime \/ OpenBlock \/ UpdateCoinValues \/ NoTransaction
  \/ Crash \/ CloseBlock \/ EndVisits

Next == Scan \/ NewNXTBlock \/ CoinBlock

Spec == Init /\ [][Next]_vars

(* Coinloop is a thread of its own that never waits; no block needs come.  *)
FairSpec == Spec /\ WF_vars(Scan)

-----------------------------------------------------------------------------
TypeOK ==
  /\ setting \in Settings /\ tip \in Nat
  /\ loop.at \in {"top", "block", "tx", "crashed"} /\ loop.block \in Nat
  /\ \A v \in DOMAIN vps : {vps[v].spent, vps[v].pendingspend} \subseteq Ids \cup {NONE}
  /\ ToSet(xps) \subseteq DOMAIN vps
  /\ \A t \in Ids : \A i \in DOMAIN vouts[t] : vouts[t][i] \in 0..Len(vps)

(* The coin's chain itself: the outputs to multisig addresses in blocks up *)
(* to b, and those of them that a transaction up to block c spends.        *)
Mined(b) == UNION {ToSet(setting.chain[c]) : c \in {d \in DOMAIN setting.chain : d <= b}}
Deposited(b) == {o \in Outputs : o[1] \in Mined(b) /\ IsMsig(Txs[o[1]].outs[o[2]].addr)}
SpentBy(b) == UNION {{<<in.tx, in.vout>> : in \in ToSet(Txs[t].ins)} : t \in Mined(b)}
Amount(S) == MapThenSumSet(LAMBDA o : Txs[o[1]].outs[o[2]].value, S)
OutputOf(v) == <<vps[v].tx, vps[v].vout>>
NoFailure == ~setting.txFails

(* The unspent balances are those of the coin's chain, as of the blocks    *)
(* visited when they were taken (balances.h:101-185): maxunspent counts    *)
(* every confirmed deposit, unspent and the list of outputs to pay with    *)
(* those that no transaction of a block seen since spends, confirmed or    *)
(* not, and the list is sorted from the largest.  While every transaction  *)
(* asked for is got: one that is missed is missed for ever.                *)
FundsSound ==
  /\ TypeOK
  /\ NoFailure /\ up # NoFunds =>
       LET all == Deposited(up.asof.confirmed)
           left == all \ SpentBy(up.asof.new)
       IN  /\ up.maxunspent = Amount(all) /\ up.unspent = Amount(left)
           /\ {OutputOf(up.vps[i]) : i \in DOMAIN up.vps} = left
           /\ Len(up.vps) = Cardinality(left)
  /\ \A i, j \in DOMAIN up.vps : i < j => Value(up.vps[i]) >= Value(up.vps[j])
  /\ up.vps # <<>> =>
       /\ up.maxavail = Value(up.vps[1]) /\ up.minavail = Value(up.vps[Len(up.vps)])

(* What a payment may rely on: each output is offered at most once, and    *)
(* not again after it was spent, whatever requests fail (bitcoin.h:69-161, *)
(* where each visit of a transaction makes its structures anew).           *)
Ledger == INSTANCE Coins WITH
  available <- {OutputOf(xps[i]) : i \in {k \in DOMAIN xps : Free(xps[k])}},
  used <- {OutputOf(xps[i]) : i \in DOMAIN xps}
RefinesCoins == Ledger!Spec

(* Once no more blocks come, the balances are those of the last block and  *)
(* of the last confirmed one (multigateway.h:139-160: they are taken only  *)
(* when the block visited is the newest).                                  *)
FundsCatchUp ==
  <>[](\/ setting.txFails \/ loop.at = "crashed" \/ xps = <<>>
       \/ up.asof = [new |-> tip, confirmed |-> tip - MinConf])
=============================================================================
