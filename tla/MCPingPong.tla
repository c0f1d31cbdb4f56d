----------------------------- MODULE MCPingPong -----------------------------
(* The wiring of init_coin_tables, in the order of Coinloop: requests for  *)
(* deposit addresses enter at genreqs, withdrawals at withdrawreqs.        *)
EXTENDS PingPong, TLC

CONSTANT x3

MCStages ==
  <<"genreqs", "genaddr", "withdrawreqs", "withdraws", "authenticate", "sendcoin">>
MCDest ==
  "genreqs" :> "genaddr" @@ "genaddr" :> NULL
    @@ "withdrawreqs" :> "withdraws" @@ "withdraws" :> "authenticate"
    @@ "authenticate" :> "sendcoin" @@ "sendcoin" :> NULL
MCError ==
  "genreqs" :> "sink" @@ "genaddr" :> "genaddr"
    @@ [s \in {"withdrawreqs", "withdraws", "authenticate", "sendcoin"} |-> NULL]
MCEntry == [x \in Items |-> IF x = x3 THEN "genreqs" ELSE "withdrawreqs"]
=============================================================================
