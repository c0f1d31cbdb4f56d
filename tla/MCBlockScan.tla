---------------------------- MODULE MCBlockScan ----------------------------
(* Four blocks: an issue, transfers that go on and one to its sender, a    *)
(* message, a copy of a transfer under another id, a payment.              *)
EXTENDS BlockScan, TLC

Tx(hash, kind, from, to, asset, qty, sub) ==
  [hash |-> hash, kind |-> kind, sender |-> from, receiver |-> to,
   asset |-> asset, qty |-> qty, type |-> IF kind = "message" THEN 1 ELSE 2,
   subtype |-> sub, sig |-> 7, genuine |-> FALSE]

MCTxs ==
  "issue" :> Tx(1, "issue", "ann", "genesis", "gold", 3, 0)
    @@ "pay" :> Tx(2, "transfer", "ann", "bob", "gold", 2, 1)
    @@ "copy" :> Tx(2, "transfer", "ann", "bob", "gold", 2, 1)
    @@ "self" :> Tx(3, "transfer", "bob", "bob", "gold", 1, 1)
    @@ "am" :> Tx(4, "message", "bob", "ann", "none", 0, 0)
    @@ "bid" :> Tx(5, "order", "ann", "genesis", "gold", 1, 2)
    @@ "back" :> Tx(6, "transfer", "bob", "ann", "gold", 1, 1)

MCBlocks == <<<<"issue">>, <<"pay", "am">>, <<"copy", "back">>, <<"self", "bid">>>>

Handler(type, sig, white) ==
  [type |-> type, subtype |-> -1, sig |-> sig, priority |-> 1,
   assets |-> {}, white |-> white]
(* NXTorrent, multigateway with its whitelist, and one that finds no room. *)
MCHandlers ==
  <<Handler(666, 8, {}), Handler(2, 7, {{"ann"}}), Handler(-1, 0, {})>>

Setting(start, fail, max) ==
  [histstart |-> start, callsFail |-> fail, maxTop |-> max]
MCSettings ==
  {Setting(0, TRUE, 4), Setting(0, FALSE, 4), Setting(1, FALSE, 4), Setting(1, TRUE, 2)}
MCHist == {Setting(1, FALSE, 3)}
=============================================================================
