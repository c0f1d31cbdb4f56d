----------------------------- MODULE MCUnspent -----------------------------
(* Two multisig addresses; deposits, a payment with change and a coinbase. *)
EXTENDS Unspent

Out(addr, value) == [addr |-> addr, value |-> value]
In(tx, vout) == [tx |-> tx, vout |-> vout]

MCMsigs == <<"A", "B">>

(* d1 and d2 pay in, d2 with an output that is somebody's own; pay spends  *)
(* both deposits and has change to B; odd has an output without address,   *)
(* which use spends; quick spends d1 alone.                                *)
MCTxs == [
  d1 |-> [outs |-> <<Out("A", 5)>>, ins |-> <<>>],
  d2 |-> [outs |-> <<Out("c", 1), Out("B", 2)>>, ins |-> <<>>],
  pay |-> [outs |-> <<Out("c", 4), Out("B", 3)>>, ins |-> <<In("d1", 1), In("d2", 2)>>],
  odd |-> [outs |-> <<Out("none", 1), Out("A", 2)>>, ins |-> <<>>],
  use |-> [outs |-> <<Out("c", 1)>>, ins |-> <<In("odd", 1)>>],
  quick |-> [outs |-> <<Out("c", 5)>>, ins |-> <<In("d1", 1)>>]]

(* No history; a deposit is spent only after the block that confirms it.   *)
RealTimeOnly ==
  [chain |-> (11 :> <<"d1">> @@ 12 :> <<"d2">> @@ 15 :> <<"pay">>),
   start |-> 10, tip |-> 10, top |-> 18, blockFails |-> 0, txFails |-> FALSE,
   early |-> FALSE]

(* The deposits are history when the program starts, and none is in the    *)
(* blocks that are visited as confirmed twice.                             *)
FromHistory ==
  [RealTimeOnly EXCEPT !.chain = (2 :> <<"d1", "d2">> @@ 9 :> <<"pay">>), !.start = 1,
                       !.tip = 8, !.top = 12]
SpentInHistory ==
  [FromHistory EXCEPT !.chain = (2 :> <<"d1">> @@ 3 :> <<"d2", "quick">>), !.early = TRUE]

MCSettings == {
  RealTimeOnly,
  [RealTimeOnly EXCEPT !.blockFails = 2],
  [RealTimeOnly EXCEPT !.txFails = TRUE, !.top = 17],
  FromHistory, SpentInHistory,
  [RealTimeOnly EXCEPT !.chain = (11 :> <<"odd">> @@ 14 :> <<"use">>), !.top = 15]}

(* A deposit is spent in the block after it.                               *)
MCEarly == {[RealTimeOnly EXCEPT !.chain = (11 :> <<"d1">> @@ 12 :> <<"quick">>)]}

(* A deposit is in a block that is visited as confirmed twice.             *)
MCTwice == {[FromHistory EXCEPT !.chain = (4 :> <<"d1">> @@ 5 :> <<"quick">>)]}
=============================================================================
