----------------------------- MODULE MCDeposit -----------------------------
(* Three transactions of one output each: a deposit of an account of this  *)
(* gateway, one of another gateway's, and the change of a withdrawal.      *)
EXTENDS Deposit, TLC

Pays(acct, value, change) == <<[acct |-> acct, value |-> value, change |-> change]>>

MCOutputs ==
  "own" :> Pays("alice", 2, FALSE) @@ "other" :> Pays("bob", 3, FALSE)
    @@ "change" :> Pays("alice", 1, TRUE)

(* With StartHeight = 5, MinConf = 1 and MaxHeight = 7 the history covers  *)
(* block 2 only once, the real time scan confirms block 6 only once, and   *)
(* block 3 is confirmed by the one and then again by the other.            *)
Setting(blocks, daemon, fail, lost, copies, again) ==
  [blockOf |-> blocks, hasDaemon |-> daemon, callsFail |-> fail,
   lostReplies |-> lost, copies |-> copies, restarts |-> again]

(* Two new deposits with failing calls and repeated messages, with and     *)
(* without the coin's daemon; the own one alone with failing calls and a   *)
(* restart; a deposit and change, with a lost answer and a restart.        *)
Two == "own" :> 6 @@ "other" :> 6
MCSettings ==
  {Setting(Two, TRUE, TRUE, 0, 2, 0), Setting(Two, FALSE, TRUE, 0, 2, 1),
   Setting("own" :> 6, TRUE, TRUE, 0, 1, 1),
   Setting("own" :> 6 @@ "change" :> 6, TRUE, FALSE, 1, 1, 1)}

MCTwice == {Setting("own" :> 3, TRUE, FALSE, 0, 1, 0)}
MCRebooked == {Setting("other" :> 6, TRUE, FALSE, 0, 2, 0)}
MCUnbooked == {Setting("own" :> 6, TRUE, FALSE, 0, 1, 0)}
=============================================================================
