------------------------------ MODULE Deposit ------------------------------
(***************************************************************************)
(* How one gateway turns coin deposits into asset transfers: Coinloop      *)
(* scans the blocks of the coin daemon (bitcoin.h), credits an output once *)
(* it is min_confirms deep and issues the asset transfer                   *)
(* (multideposit.h), while the NXT thread feeds it the deposit-confirmed   *)
(* messages and the asset transfers that reach the NXT block chain         *)
(* (multigateway.h).  The build is the one of jl777.h: DEBUG_MODE is set.  *)
(*                                                                         *)
(* A structure crosschain_info is allocated by a scan of its transaction,  *)
(* so xps is the heap of all of them and vouts holds indices into it.      *)
(***************************************************************************)
EXTENDS Integers, Sequences, FiniteSets, SequencesExt, FiniteSetsExt

CONSTANTS
  Accounts,          (* NXT accounts with a multisig deposit address *)
  Mine,              (* accounts with nxt64bits % NUM_GATEWAYS = gatewayid *)
  Gateway,           (* the NXT account the gateways transfer assets from *)
  Outputs,           (* per coin transaction that pays to multisig
                        addresses: account, value, change or deposit *)
  MinConf,           (* min_confirms *)
  FirstBlock,        (* the block the scan starts at *)
  StartHeight,       (* the coin daemon's height when the gateway starts *)
  MaxHeight,         (* bound: coin blocks that appear *)
  Settings           (* the circumstances to look at, see the variable *)

ASSUME DepositAssumption ==
  /\ Mine \subseteq Accounts /\ Gateway \notin Accounts
  /\ \A tx \in DOMAIN Outputs : Outputs[tx] \in
       Seq([acct : Accounts, value : Nat \ {0}, change : BOOLEAN])
  /\ {MinConf, FirstBlock, StartHeight, MaxHeight} \subseteq Nat
  /\ StartHeight <= MaxHeight
  /\ \A c \in Settings :
       /\ DOMAIN c.blockOf \subseteq DOMAIN Outputs
       /\ Range(c.blockOf) \cup {c.lostReplies, c.copies, c.restarts} \subseteq Nat
       /\ {c.hasDaemon, c.callsFail} \subseteq BOOLEAN

VARIABLES
  setting,           (* blockOf: the coin transactions and their blocks; *)
                     (* hasDaemon: whether this node runs the daemon     *)
                     (* (get_daemon_info); callsFail: whether calls of   *)
                     (* the daemon and of NXT may fail; bounds:          *)
                     (* lostReplies, transfers of one output that look   *)
                     (* like failures, copies, messages of another       *)
                     (* gateway for one output, and restarts             *)
  height,            (* the coin daemon's block height *)
  nxt,               (* the NXT block chain: messages and transfers, in order *)
  mempool,           (* NXT transactions accepted but in no block yet *)
  seen,              (* how much of nxt this node has handled *)
  historical,        (* Historical_done *)
  tps,               (* struct coin_txid of each transaction *)
  xps,               (* every struct crosschain_info allocated *)
  funds,             (* balance_info of each account, and of the coin *)
  retry,             (* retrydepositconfirmed: messages to try again *)
  loop,              (* where Coinloop stands *)
  restarts

world == <<setting, height, nxt, mempool, restarts>>
memory == <<tps, xps, funds, retry>>
vars == <<world, seen, historical, memory, loop>>

BlockOf == setting.blockOf
Txids == DOMAIN BlockOf
RpcMayFail == setting.callsFail
hasDaemon == setting.hasDaemon

Outs == UNION {{<<tx, v>> : v \in DOMAIN Outputs[tx]} : tx \in Txids}
Out(o) == Outputs[o[1]][o[2]]

NoTx == [known |-> 0, vouts |-> <<>>, am |-> 0, xfer |-> 0]
NoFunds == [deposits |-> 0, transfers |-> 0]

AtTop(block, initdone) ==
  [at |-> "top", block |-> block, initdone |-> initdone, tip |-> 0,
   blocks |-> <<>>, flag |-> 1, txs |-> {}, isconfirmed |-> FALSE,
   tries |-> {}, list |-> {}, next |-> "top", txid |-> 0]

Init ==
  /\ setting \in Settings
  /\ height = StartHeight /\ nxt = <<>> /\ mempool = {} /\ restarts = 0
  /\ seen = 0 /\ historical = FALSE
  /\ tps = [tx \in Txids |-> NoTx] /\ xps = <<>> /\ retry = {}
  /\ funds = [who \in Accounts \cup {Gateway, "coin"} |-> NoFunds]
  /\ loop = AtTop(FirstBlock, FALSE)

-----------------------------------------------------------------------------
(* The NXT transactions about one output: the messages DEPOSIT_CONFIRMED   *)
(* ("AM") and the asset transfers ("XFER").                                *)
Issued(kind, o) == {e \in Range(nxt) \cup mempool : e.kind = kind /\ e.out = o}
Fresh(kind, o) == [kind |-> kind, out |-> o, id |-> Cardinality(Issued(kind, o)) + 1]

(* update_balance_info: the coin and the account move together. *)
Booked(f, field, who, value) ==
  [f EXCEPT !["coin"][field] = @ + value, ![who][field] = @ + value]

Remaining(who) == funds[who].deposits - funds[who].transfers

(* balance_verification in mode 0. *)
Verified(o) ==
  \A who \in {"coin", Out(o).acct} : Out(o).value <= Remaining(who)

-----------------------------------------------------------------------------
(***************************************************************************)
(* The NXT thread.                                                         *)
(***************************************************************************)

(* set_pending_assetxfer for the structure i: the transfer is linked and,  *)
(* the first time, booked.                                                 *)
SetPending(o, i) ==
  /\ tps' = [tps EXCEPT ![o[1]].xfer = xps[i].asset, ![o[1]].am = 1]
  /\ xps' = [xps EXCEPT ![i].confirmed = 1, ![i].pending = 1]
  /\ funds' = IF xps[i].pending = 0
                THEN Booked(funds, "transfers", Out(o).acct, Out(o).value)
                ELSE funds

(* Slip: the transaction is not marked with the message that confirmed it. *)
Slip_DecodeDepositConfirmed(o) ==
  /\ funds' = IF ~hasDaemon
                THEN Booked(funds, "deposits", Out(o).acct, Out(o).value)
                ELSE funds
  /\ UNCHANGED <<tps, xps, retry>>

(* decode_depositconfirmed_json: the transaction is marked; a transfer     *)
(* already linked to the output is made pending.  The array of outputs is  *)
(* read without its count, the count is tested by set_pending_assetxfer.   *)
DecodeDepositConfirmed(o) ==
  LET tp == tps[o[1]]
      linked == o[2] \in DOMAIN tp.vouts /\ xps[tp.vouts[o[2]]].asset # 0
  IN  \/ /\ linked /\ o[2] <= tp.known
         /\ IF xps[tp.vouts[o[2]]].internal
              THEN tps' = [tps EXCEPT ![o[1]].am = 1] /\ UNCHANGED <<xps, funds>>
              ELSE SetPending(o, tp.vouts[o[2]])
         /\ UNCHANGED retry
      \/ /\ ~(linked /\ o[2] <= tp.known)
         /\ tps' = [tps EXCEPT ![o[1]].am = 1]
         /\ funds' = IF tp.am = 0 /\ ~hasDaemon
                       THEN Booked(funds, "deposits", Out(o).acct, Out(o).value)
                       ELSE funds
         /\ retry' = IF linked THEN retry \cup {o} ELSE retry
         /\ UNCHANGED xps

(* Slip: only a transaction whose outputs are known is marked. *)
Slip_AssetEvent(o, id) ==
  /\ IF o[2] <= tps[o[1]].known
       THEN /\ tps' = [tps EXCEPT ![o[1]].xfer = id]
            /\ xps' = [xps EXCEPT ![tps[o[1]].vouts[o[2]]].asset = id]
       ELSE UNCHANGED <<tps, xps>>
  /\ UNCHANGED <<funds, retry>>

(* multigateway_assetevent for a transfer with a "crosschain" comment. *)
AssetEvent(o, id) ==
  LET tp == tps[o[1]]
      hasxp == o[2] <= tp.known
  IN  /\ tps' = [tps EXCEPT ![o[1]].xfer = id]
      /\ xps' = IF hasxp /\ xps[tp.vouts[o[2]]].asset = 0
                  THEN [xps EXCEPT ![tp.vouts[o[2]]].asset = id] ELSE xps
      /\ funds' = IF ~hasxp /\ ~hasDaemon
                    THEN Booked(funds, "transfers", Gateway, Out(o).value)
                    ELSE funds
      /\ UNCHANGED retry

(* multigateway_handler for the next NXT transaction. *)
HandleEvent ==
  /\ seen < Len(nxt)
  /\ seen' = seen + 1
  /\ LET e == nxt[seen + 1] IN
       IF e.kind = "AM" THEN DecodeDepositConfirmed(e.out)
       ELSE AssetEvent(e.out, e.id)
  /\ UNCHANGED <<world, historical, loop>>

(* NXTloop has caught up with the chain: Coinloop may start. *)
EndHistory ==
  /\ ~historical /\ seen = Len(nxt)
  /\ historical' = TRUE
  /\ UNCHANGED <<world, seen, memory, loop>>

-----------------------------------------------------------------------------
(***************************************************************************)
(* Coinloop: scanning blocks.                                              *)
(***************************************************************************)
At(label) == historical /\ hasDaemon /\ loop.at = label

BlockTxs(b) == {tx \in Txids : BlockOf[tx] = b}
Look(b, c) == [block |-> b, isconfirmed |-> c]

(* get_confirmed_deposits: the loop takes them in the order of xps. *)
ConfirmedDeposits == {i \in DOMAIN xps : xps[i].coin_confirmed}

(* Before initdone: one block at a time, up to min_confirms below the tip, *)
(* every output in it taken as confirmed.                                  *)
History ==
  /\ At("top") /\ ~loop.initdone
  /\ loop' = IF loop.block <= height - MinConf - 1
               THEN [loop EXCEPT !.at = "block", !.tip = height,
                                 !.blocks = <<Look(loop.block, TRUE)>>]
               ELSE AtTop(loop.block, TRUE)
  /\ UNCHANGED <<world, seen, historical, memory>>

(* After initdone: when NXT has a new block, transfer_assets runs first. *)
NewNXTBlock ==
  /\ At("top") /\ loop.initdone
  /\ \E where \in {"assets", "blocks"} :
       loop' = [loop EXCEPT !.at = where, !.next = "blocks",
                  !.list = IF where = "assets" THEN ConfirmedDeposits ELSE {}]
  /\ UNCHANGED <<world, seen, historical, memory>>

(* Slip: the block min_confirms before the current one is not looked at. *)
Slip_RealTime ==
  /\ At("blocks")
  /\ loop' = IF loop.block <= height
               THEN [loop EXCEPT !.at = "block", !.tip = height,
                       !.blocks = <<Look(loop.block, FALSE)>>]
               ELSE AtTop(loop.block, TRUE)
  /\ UNCHANGED <<world, seen, historical, memory>>

(* add_bitcoind_uniquetxids in RTmode: the current block, then the block   *)
(* min_confirms before it.                                                 *)
RealTime ==
  /\ At("blocks")
  /\ loop' = IF loop.block <= height
               THEN [loop EXCEPT !.at = "block", !.tip = height,
                       !.blocks = <<Look(loop.block, FALSE),
                                    Look(loop.block - MinConf, TRUE)>>]
               ELSE AtTop(loop.block, TRUE)
  /\ UNCHANGED <<world, seen, historical, memory>>

(* getblockhash and getblock: on failure the block is tried again later. *)
OpenBlock ==
  /\ At("block") /\ loop.blocks # <<>>
  /\ \/ loop' = [loop EXCEPT !.at = "tx", !.blocks = Tail(@),
                   !.isconfirmed = Head(loop.blocks).isconfirmed,
                   !.txs = BlockTxs(Head(loop.blocks).block)]
     \/ RpcMayFail /\ loop' = [loop EXCEPT !.blocks = <<>>, !.flag = 0]
  /\ UNCHANGED <<world, seen, historical, memory>>

CloseBlock ==
  /\ At("tx") /\ loop.txs = {}
  /\ loop' = [loop EXCEPT !.at = "block"]
  /\ UNCHANGED <<world, seen, historical, memory>>

(* The transaction the scan is at: a block's are taken in one order.       *)
Tx == CHOOSE tx \in loop.txs : TRUE

(* update_coin_values forgets how many outputs the transaction has ... *)
ForgetOutputs ==
  /\ At("tx") /\ loop.txs # {}
  /\ tps' = [tps EXCEPT ![Tx].known = 0]
  /\ loop' = [loop EXCEPT !.at = "decode"]
  /\ UNCHANGED <<world, seen, historical, xps, funds, retry>>

(* update_crosschain_info on a structure just allocated; isinternal is     *)
(* only set after it, so a change output counts as a deposit here.         *)
Credited(tx, v) ==
  LET out == Outputs[tx][v]
      done == loop.isconfirmed /\ tps[tx].xfer # 0
  IN  [out |-> <<tx, v>>, coin_confirmed |-> loop.isconfirmed,
       internal |-> out.change, asset |-> 0,
       pending |-> IF done THEN 1 ELSE 0, confirmed |-> IF done THEN 1 ELSE 0]

(* add_confirmed_deposit: the message is sent by the account's gateway,    *)
(* unless the transaction is marked.                                       *)
Announced(tx) ==
  IF loop.isconfirmed /\ tps[tx].am = 0
    THEN {Fresh("AM", <<tx, v>>) :
            v \in {w \in DOMAIN Outputs[tx] : Outputs[tx][w].acct \in Mine}}
    ELSE {}

(* Slip: outputs are booked whether or not the block is deep enough. *)
Slip_BookedOutputs(tx) ==
  LET book(out, f) == Booked(f, "deposits", out.acct, out.value)
  IN  FoldRight(book, Outputs[tx], funds)

(* The balances after the outputs of a confirmed transaction: the deposits *)
(* and, when an asset transfer is known already, the transfers.            *)
BookedOutputs(tx) ==
  LET book(out, f) ==
        LET g == Booked(f, "deposits", out.acct, out.value)
        IN  IF tps[tx].xfer = 0 THEN g
            ELSE Booked(g, "transfers", out.acct, out.value)
  IN  IF loop.isconfirmed THEN FoldRight(book, Outputs[tx], funds) ELSE funds

(* ... and process_vouts, seeing no old output, clears the array and       *)
(* allocates every output anew.  What the array alone referred to is lost: *)
(* an unconfirmed structure gives its place in xps to the new one.         *)
DecodeTx ==
  LET tx == Tx
      n  == Len(Outputs[tx])
      old == tps[tx].vouts
      place == IF old # <<>> /\ ~xps[old[1]].coin_confirmed
                 THEN old ELSE [v \in 1..n |-> Len(xps) + v]
  IN
  /\ At("decode")
  /\ \/ /\ xps' = [i \in DOMAIN xps \cup Range(place) |->
                    IF i \in Range(place)
                      THEN Credited(tx, CHOOSE v \in 1..n : place[v] = i)
                      ELSE xps[i]]
        /\ tps' = [tps EXCEPT ![tx].known = n, ![tx].vouts = place]
        /\ funds' = BookedOutputs(tx)
        /\ \E sent \in IF RpcMayFail THEN SUBSET Announced(tx) ELSE {Announced(tx)} :
             mempool' = mempool \cup sent
     \/ /\ RpcMayFail                      (* getrawtransaction fails *)
        /\ UNCHANGED <<xps, tps, funds, mempool>>
  /\ loop' = [loop EXCEPT !.at = "tx", !.txs = @ \ {Tx}]
  /\ UNCHANGED <<setting, height, nxt, restarts, seen, historical, retry>>

(* The blocks are read, or were given up: in real time the retry queue is *)
(* worked through, then, at the tip, transfer_assets runs.                 *)
EndBlocks ==
  /\ At("block") /\ loop.blocks = <<>>
  /\ loop' = IF loop.initdone
               THEN [loop EXCEPT !.at = "retry", !.tries = retry]
               ELSE AtTop(loop.block + loop.flag, FALSE)
  /\ UNCHANGED <<world, seen, historical, memory>>

(* retrydepositconfirmed: its result is never "done", so the message stays *)
(* in the queue.                                                           *)
RetryOne ==
  /\ At("retry") /\ loop.tries # {}
  /\ LET o == CHOOSE t \in loop.tries : TRUE IN
       DecodeDepositConfirmed(o) /\ loop' = [loop EXCEPT !.tries = @ \ {o}]
  /\ UNCHANGED <<world, seen, historical>>

EndRetries ==
  /\ At("retry") /\ loop.tries = {}
  /\ LET top == AtTop(loop.block + loop.flag, TRUE) IN
       loop' = IF loop.block = loop.tip
                 THEN [top EXCEPT !.at = "assets", !.list = ConfirmedDeposits]
                 ELSE top
  /\ UNCHANGED <<world, seen, historical, memory>>

-----------------------------------------------------------------------------
(***************************************************************************)
(* Coinloop: transfer_assets.                                              *)
(***************************************************************************)
Current == CHOOSE i \in loop.list : \A j \in loop.list : i <= j
Deposited == xps[Current].out

(* Slip: change is transferred like a deposit. *)
Slip_MayTransferChange ==
  /\ xps[Current].coin_confirmed
  /\ xps[Current].confirmed = 0 /\ xps[Current].pending = 0
  /\ Out(Deposited).acct \in Mine
  /\ Verified(Deposited)
  /\ tps[Deposited[1]].xfer = 0

(* The tests of authorize_asset_transfer before issue_transferAsset. *)
MayTransfer ==
  /\ ~xps[Current].internal /\ xps[Current].coin_confirmed
  /\ xps[Current].confirmed = 0 /\ xps[Current].pending = 0
  /\ Out(Deposited).acct \in Mine
  /\ Verified(Deposited)
  /\ tps[Deposited[1]].xfer = 0

(* issue_transferAsset: it reaches NXT, fails, or its answer is lost. *)
IssueTransfer ==
  LET e == Fresh("XFER", Deposited) IN
  /\ At("assets") /\ loop.list # {} /\ MayTransfer
  /\ \/ mempool' = mempool \cup {e} /\ loop' = [loop EXCEPT !.at = "record", !.txid = e.id]
     \/ /\ RpcMayFail /\ UNCHANGED mempool
        /\ loop' = [loop EXCEPT !.at = "record", !.txid = 0]
     \/ /\ e.id <= setting.lostReplies /\ mempool' = mempool \cup {e}
        /\ loop' = [loop EXCEPT !.at = "record", !.txid = 0]
  /\ UNCHANGED <<setting, height, nxt, restarts, seen, historical, memory>>

(* Its answer is noted. *)
RecordTransfer ==
  /\ At("record")
  /\ xps' = [xps EXCEPT ![Current].asset = loop.txid,
                        ![Current].pending = IF loop.txid = 0 THEN @ ELSE 1]
  /\ tps' = [tps EXCEPT ![Deposited[1]].xfer = loop.txid]
  /\ loop' = [loop EXCEPT !.at = "assets", !.list = @ \ {Current}, !.txid = 0]
  /\ UNCHANGED <<world, seen, historical, funds, retry>>

(* A structure with nothing to transfer; a pending transfer deep enough in *)
(* the NXT chain is confirmed.                                             *)
NoTransfer ==
  /\ At("assets") /\ loop.list # {} /\ ~MayTransfer
  /\ \/ UNCHANGED xps
     \/ /\ ~xps[Current].internal
        /\ xps[Current].pending = 1 /\ xps[Current].confirmed = 0
        /\ \E e \in Range(nxt) : e.kind = "XFER" /\ e.out = Deposited
                                   /\ e.id = xps[Current].asset
        /\ xps' = [xps EXCEPT ![Current].confirmed = 1]
  /\ loop' = [loop EXCEPT !.list = @ \ {Current}]
  /\ UNCHANGED <<world, seen, historical, tps, funds, retry>>

EndAssets ==
  /\ At("assets") /\ loop.list = {}
  /\ loop' = [loop EXCEPT !.at = loop.next]
  /\ UNCHANGED <<world, seen, historical, memory>>

-----------------------------------------------------------------------------
(***************************************************************************)
(* The world around the gateway.                                           *)
(***************************************************************************)
CoinBlock ==
  /\ height < MaxHeight
  /\ height' = height + 1
  /\ UNCHANGED <<setting, nxt, mempool, restarts, seen, historical, memory, loop>>

NXTBlock ==
  /\ \E e \in mempool : nxt' = Append(nxt, e) /\ mempool' = mempool \ {e}
  /\ UNCHANGED <<setting, height, restarts, seen, historical, memory, loop>>

Deep(o) == BlockOf[o[1]] <= height - MinConf

(* Another gateway announces and transfers a deposit of its own accounts;  *)
(* it may announce it again, as this one may.                              *)
OtherGateway ==
  /\ \E o \in Outs : \E kind \in {"AM", "XFER"} :
       /\ Out(o).acct \notin Mine /\ ~Out(o).change /\ Deep(o)
       /\ Cardinality(Issued(kind, o)) < IF kind = "AM" THEN setting.copies ELSE 1
       /\ kind = "XFER" => Issued("AM", o) # {}
       /\ mempool' = mempool \cup {Fresh(kind, o)}
  /\ UNCHANGED <<setting, height, nxt, restarts, seen, historical, memory, loop>>

(* The gateway is restarted, when its transactions are in blocks and no    *)
(* answer is awaited: everything it knows is read again.                   *)
Restart ==
  /\ restarts < setting.restarts /\ mempool = {} /\ loop.at # "record"
  /\ restarts' = restarts + 1
  /\ seen' = 0 /\ historical' = FALSE
  /\ tps' = [tx \in Txids |-> NoTx] /\ xps' = <<>> /\ retry' = {}
  /\ funds' = [who \in Accounts \cup {Gateway, "coin"} |-> NoFunds]
  /\ loop' = AtTop(FirstBlock, FALSE)
  /\ UNCHANGED <<setting, height, nxt, mempool>>

Scan == History \/ NewNXTBlock \/ RealTime \/ OpenBlock \/ CloseBlock
          \/ ForgetOutputs \/ DecodeTx \/ EndBlocks \/ RetryOne \/ EndRetries
Assets == IssueTransfer \/ RecordTransfer \/ NoTransfer \/ EndAssets
NXTThread == HandleEvent \/ EndHistory
World == CoinBlock \/ NXTBlock \/ OtherGateway \/ Restart

Next == Scan \/ Assets \/ NXTThread \/ World
Spec == Init /\ [][Next]_vars

(* Both threads loop for ever, and both block chains go on. *)
FairSpec ==
  /\ Spec
  /\ WF_vars(Scan \/ Assets) /\ WF_vars(NXTThread)
  /\ WF_vars(CoinBlock) /\ WF_vars(NXTBlock)

-----------------------------------------------------------------------------
TypeOK ==
  /\ height \in 0..MaxHeight /\ seen \in 0..Len(nxt)
  /\ \A tx \in Txids : /\ tps[tx].known \in {0, Len(Outputs[tx])}
                       /\ Range(tps[tx].vouts) \subseteq DOMAIN xps
                       /\ tps[tx].known <= Len(tps[tx].vouts)
  /\ \A i \in DOMAIN xps : xps[i].out \in Outs
  /\ loop.list \subseteq DOMAIN xps

(* No deposit gives rise to two asset transfers, whatever is scanned again,*)
(* retried or restarted, unless an answer was lost: an asset transfer      *)
(* cannot be taken back.                                                   *)
TransferredAtMostOnce ==
  \A o \in Outs : Cardinality(Issued("XFER", o)) <= 1 + setting.lostReplies

(* Assets are only issued against outputs deep enough in the coin's chain, *)
(* and never against the change of a withdrawal.                           *)
TransferBacked ==
  \A o \in Outs :
    Out(o).acct \in Mine /\ Issued("XFER", o) # {} => Deep(o) /\ ~Out(o).change

SumOf(set) == FoldSet(LAMBDA o, n : n + Out(o).value, 0, set)

(* The deposits booked never exceed what has arrived and is confirmed,     *)
(* for the coin and for each account.                                      *)
DepositsReal ==
  \A who \in Accounts \cup {"coin"} :
    funds[who].deposits <=
      SumOf({o \in Outs : Deep(o) /\ (who = "coin" \/ Out(o).acct = who)})

(* The balances of the accounts add up to the balance of the coin, and a   *)
(* node that scans the coin gives none of its own accounts more than it    *)
(* deposited.                                                              *)
BalancesAgree ==
  LET total(field) == FoldSet(LAMBDA a, n : n + funds[a][field], 0,
                              Accounts \cup {Gateway})
  IN  /\ funds["coin"].deposits = total("deposits")
      /\ funds["coin"].transfers = total("transfers")
      /\ hasDaemon => \A a \in Mine : Remaining(a) >= 0

(* Whatever fails, comes again or gets lost, the books are those of the    *)
(* deposits that have arrived.                                             *)
BooksSound == TypeOK /\ DepositsReal /\ BalancesAgree

(* One deposit, one message: what the gateway knows of its own messages    *)
(* keeps it from sending a second one.                                     *)
AnnouncedOnce ==
  \A o \in Outs : Out(o).acct \in Mine => Cardinality(Issued("AM", o)) <= 1

(* A transfer is booked once and only once: what is noted as transferred   *)
(* is in the transfers of its account.                                     *)
TransferBooked ==
  \A a \in Accounts :
    funds[a].transfers =
      SumOf({o \in Outs : Out(o).acct = a
               /\ \E i \in DOMAIN xps : xps[i].out = o /\ xps[i].pending = 1})

(* The same, from above: no account is charged more than was transferred   *)
(* on its behalf.                                                          *)
TransferBookedOnce ==
  \A a \in Accounts :
    funds[a].transfers <=
      SumOf({o \in Outs : Out(o).acct = a /\ Issued("XFER", o) # {}})

(* Where calls do not fail every deposit of this gateway's accounts is     *)
(* answered by an asset transfer in the NXT chain, restarts and lost       *)
(* answers notwithstanding.                                                *)
EveryDepositTransferred ==
  \A tx \in DOMAIN Outputs : \A v \in DOMAIN Outputs[tx] :
    (/\ hasDaemon /\ ~RpcMayFail /\ tx \in Txids /\ Deep(<<tx, v>>)
     /\ Out(<<tx, v>>).acct \in Mine /\ ~Out(<<tx, v>>).change)
      ~> \E e \in Range(nxt) : e.kind = "XFER" /\ e.out = <<tx, v>>
=============================================================================
