----------------------------- MODULE MCDaemon ------------------------------
(* The main thread and two others, two coins, of which one has no daemon.  *)
EXTENDS Daemon, TLC

Line(field, rest) == [field |-> field, rest |-> rest]
User == Line("rpcuser", <<"=", "bob", "\n">>)
Password == Line("rpcpassword", <<"=", "pw", "\n">>)

MCCoins == <<"DOGE", "BTC">>

(* A plain configuration with another line; answers of every kind and      *)
(* connections that break.                                                 *)
Plainly ==
  [conf |-> "DOGE" :> <<Line("server", <<"=", "1", "\n">>), Password, User>>,
   answers |-> {"result", "error", "text"}, breaks |-> FALSE]
Breaking == [Plainly EXCEPT !.breaks = TRUE, !.answers = {"result"}]

(* A blank before '=', a password set twice, and a last line that ends     *)
(* behind its field; and an empty configuration for the other coin.        *)
Oddly ==
  [Plainly EXCEPT !.answers = {"result"},
     !.conf = "DOGE" :> <<Line("rpcuser", <<" ", "=", "bob", "\n">>), Password, Password>>
           @@ "BTC" :> <<Line("rpcuser", <<"\n">>), Line("rpcpassword", <<>>)>>]

MCSettings == {Plainly, Breaking, Oddly}
=============================================================================
