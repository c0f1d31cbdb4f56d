------------------------------- MODULE Listing -------------------------------
(***************************************************************************)
(* One listing of NXTorrent.h on every node.  A node changes its copy in   *)
(* two ways: its web interface calls the ..._func handlers, which send a   *)
(* message to the NXT chain and write ahead what the message will say; and *)
(* the thread that follows the chain hands each message to                 *)
(* update_NXTorrent_state.  The two run in different threads.              *)
(*                                                                         *)
(* One listing is enough: no handler looks at two.  Its contents are its   *)
(* seller; a call names the node's own account.  Ratings are abstracted to *)
(* who was rated.  Expiry is left out: the handler sets its timestamp only *)
(* while microseconds() is below a nexttime that starts at 0 (1186), so it *)
(* stays 0 and passes_filter never finds a listing expired.                *)
(***************************************************************************)
EXTENDS Naturals, Sequences, SequencesExt

CONSTANTS
  Nodes,             (* nodes, each with an account of its own *)
  Seller,            (* the account the listingid is made of *)
  NULL,              (* account 0, and no call *)
  Prompt,            (* environment: a call returns before a block comes *)
  Quiet,             (* environment: no news while the history is read *)
  EarlyAccept,       (* users accept before the listing is in a block *)
  MaxCalls,          (* bound: calls of the web interface *)
  MaxFaults,         (* bound: messages that fail or whose answer is lost *)
  MaxRestarts        (* bound: restarts *)

Kinds == {"LIST", "CANCEL", "MAKEOFFER", "ACCEPT", "FEEDBACK"}

ASSUME ListingAssumption ==
  /\ NULL \notin Nodes \cup Kinds /\ Seller \in Nodes
  /\ {Prompt, Quiet, EarlyAccept} \subseteq BOOLEAN
  /\ {MaxCalls, MaxFaults, MaxRestarts} \subseteq Nat

VARIABLES
  entry,             (* the listing as each node holds it *)
  call,              (* the call a node has not returned from *)
  pool,              (* each node's messages that are in no block yet *)
  chain,             (* the messages in blocks, in order *)
  seen,              (* how far each node's two readers of the chain are *)
  ahead,             (* history: fields a node wrote that may stay different *)
  used               (* calls, faults and restarts so far *)

vars == <<entry, call, pool, chain, seen, ahead, used>>

Statuses == {"INACTIVE", "ACTIVE", "CANCELLED", "OFFERED", "ACCEPTED"}
Accounts == Nodes \cup {NULL}
Messages == [kind : Kinds, sender : Nodes, receiver : Accounts]
Entries == [there : BOOLEAN, status : Statuses, seller : Accounts,
            buyer : Accounts, tagged : BOOLEAN,
            ratings : Seq({"buyer", "seller"} \X Accounts)]

(* What get_listingid finds before the listing is known, and the entry of  *)
(* zeros that MTadd_hashtable makes for a listingid.                       *)
NoEntry == [there |-> FALSE, status |-> "INACTIVE", seller |-> NULL,
            buyer |-> NULL, tagged |-> FALSE, ratings |-> <<>>]
Blank == [NoEntry EXCEPT !.there = TRUE]

Init ==
  /\ entry = [n \in Nodes |-> NoEntry]
  /\ call = [n \in Nodes |-> NULL]
  /\ pool = [n \in Nodes |-> <<>>]
  /\ chain = <<>>
  /\ seen = [n \in Nodes |-> [hist |-> 0, start |-> 0, real |-> 0]]
  /\ ahead = [n \in Nodes |-> {}]
  /\ used = [calls |-> 0, faults |-> 0, restarts |-> 0]

-----------------------------------------------------------------------------
(* update_NXTorrent_state: what a message does to a node's copy.           *)

(* Slip: a listing that comes again is opened again. *)
Slip_ListHandled(e, m) ==
  [(IF e.there THEN e ELSE [Blank EXCEPT !.seller = Seller])
     EXCEPT !.status = "ACTIVE", !.tagged = TRUE]

(* An entry that is there keeps its contents; one of status 0 is opened    *)
(* and enters the tag lists.                                               *)
ListHandled(e, m) ==
  LET lp == IF e.there THEN e ELSE [Blank EXCEPT !.seller = Seller] IN
  IF lp.status = "INACTIVE"
    THEN [lp EXCEPT !.status = "ACTIVE", !.tagged = TRUE] ELSE lp

(* update_NXTorrent_feedback: every message counts, a second one too. *)
Rated(lp, role, account) ==
  [lp EXCEPT !.ratings = Append(@, <<role, account>>)]

(* Only the two sides of the deal as the node knows them rate each other. *)
FeedbackHandled(lp, m) ==
  IF m.sender = lp.seller /\ m.receiver = lp.buyer
    THEN Rated(lp, "buyer", lp.buyer)
  ELSE IF m.sender = lp.buyer /\ m.receiver = lp.seller
    THEN Rated(lp, "seller", lp.seller)
  ELSE lp

Handled(e, m) ==
  LET lp == IF e.there THEN e ELSE Blank IN
  CASE m.kind = "LIST"      -> ListHandled(e, m)
    [] m.kind = "CANCEL"    -> [lp EXCEPT !.status = "CANCELLED"]
    [] m.kind = "MAKEOFFER" -> [lp EXCEPT !.status = "OFFERED", !.buyer = m.sender]
    [] m.kind = "ACCEPT"    -> [lp EXCEPT !.status = "ACCEPTED", !.buyer = m.receiver]
    [] m.kind = "FEEDBACK"  -> FeedbackHandled(lp, m)

(* What the chain says of the listing, after its first messages and all. *)
ReplayTo[i \in 0..Len(chain)] ==
  IF i = 0 THEN NoEntry ELSE Handled(ReplayTo[i - 1], chain[i])
Replay == ReplayTo[Len(chain)]

-----------------------------------------------------------------------------
(* The calls of the web interface, up to the answer of submit_AM.          *)

(* AM_NXTorrent: the message reaches the pool or not, and its txid reaches *)
(* the caller or not.  Without a txid the call returns an error.           *)
Submit(n, kind, receiver, outcome) ==
  LET m == [kind |-> kind, sender |-> n, receiver |-> receiver]
      fault == IF outcome = "sent" THEN 0 ELSE 1 IN
  /\ call[n] = NULL /\ used.calls < MaxCalls /\ used.faults + fault <= MaxFaults
  /\ used' = [used EXCEPT !.calls = @ + 1, !.faults = @ + fault]
  /\ pool' = IF outcome = "failed" THEN pool ELSE [pool EXCEPT ![n] = Append(@, m)]
  /\ call' = IF outcome = "sent" THEN [call EXCEPT ![n] = kind] ELSE call
  /\ UNCHANGED <<chain, seen>>

(* list_func: "duplicate listing" if the entry is there.  The message also *)
(* fails when the entry does not survive its own conversion to JSON; the   *)
(* entry stays.  listingAMbits, which depends on a test of freed memory    *)
(* (701) and is overwritten by the message, is left out.                   *)
List(n, outcome) ==
  /\ n = Seller /\ ~entry[n].there
  /\ entry' = [entry EXCEPT ![n] = [Blank EXCEPT !.seller = n]]
  /\ Submit(n, "LIST", NULL, outcome)
  /\ UNCHANGED ahead

(* Slip: the status is written before the answer is looked at. *)
Slip_Cancel(n, outcome) ==
  /\ entry[n].status \in {"OFFERED", "ACTIVE"}
  /\ entry' = [entry EXCEPT ![n].status = "CANCELLED"]
  /\ Submit(n, "CANCEL", entry[n].buyer, outcome)
  /\ UNCHANGED ahead

Cancel(n, outcome) ==
  /\ entry[n].status \in {"OFFERED", "ACTIVE"}
  /\ Submit(n, "CANCEL", entry[n].buyer, outcome)
  /\ UNCHANGED <<entry, ahead>>

(* makeoffer_func and acceptoffer_func write the buyer before they send,   *)
(* and leave it when sending fails.                                        *)
WriteBuyer(n, b, outcome) ==
  /\ entry' = [entry EXCEPT ![n].buyer = b]
  /\ ahead' = [ahead EXCEPT ![n] = @ \cup {"ratings"} \cup
                 (IF outcome = "failed" THEN {"buyer"} ELSE {})]

MakeOffer(n, outcome) ==
  /\ entry[n].status = "ACTIVE"
  /\ WriteBuyer(n, n, outcome)
  /\ Submit(n, "MAKEOFFER", entry[n].seller, outcome)

(* acceptoffer_func looks at no status. *)
AcceptOffer(n, b, outcome) ==
  /\ entry[n].there
  /\ ~EarlyAccept => entry[n].status # "INACTIVE"
  /\ WriteBuyer(n, b, outcome)
  /\ Submit(n, "ACCEPT", b, outcome)

(* A buyer rates the seller, a seller the buyer. *)
Feedback(n, outcome) ==
  LET lp == entry[n]
      other == IF lp.buyer = n THEN lp.seller ELSE lp.buyer IN
  /\ lp.there /\ n \in {lp.buyer, lp.seller} /\ other # NULL
  /\ Submit(n, "FEEDBACK", other, outcome)
  /\ UNCHANGED <<entry, ahead>>

(* The call goes on with the txid and writes the new status, whatever has  *)
(* been handled in between.                                                *)
Return(n) ==
  /\ call[n] # NULL
  /\ call' = [call EXCEPT ![n] = NULL]
  /\ entry' = [entry EXCEPT ![n].status =
                 CASE call[n] = "CANCEL"    -> "CANCELLED"
                   [] call[n] = "MAKEOFFER" -> "OFFERED"
                   [] call[n] = "ACCEPT"    -> "ACCEPTED"
                   [] OTHER                 -> @]
  /\ UNCHANGED <<pool, chain, seen, ahead, used>>

-----------------------------------------------------------------------------
(* The chain and its readers.                                              *)

(* A waiting message comes into a block, not always in the order of        *)
(* sending.                                                                *)
Forge(n, i) ==
  /\ i \in 1..Len(pool[n])
  /\ Prompt => call[n] = NULL
  /\ chain' = Append(chain, pool[n][i])
  /\ pool' = [pool EXCEPT ![n] = RemoveAt(@, i)]
  /\ UNCHANGED <<entry, call, seen, ahead, used>>

(* NXTloop gives the next message to the handler: the thread that reads    *)
(* the history up to the block the node started with, and the one that     *)
(* follows the chain from there.                                           *)
ReadHistory(n) ==
  /\ seen[n].hist < seen[n].start
  /\ seen' = [seen EXCEPT ![n].hist = @ + 1]
  /\ entry' = [entry EXCEPT ![n] = Handled(@, chain[seen[n].hist + 1])]
  /\ UNCHANGED <<call, pool, chain, ahead, used>>

ReadNews(n) ==
  /\ seen[n].real < Len(chain)
  /\ Quiet => seen[n].hist = seen[n].start
  /\ seen' = [seen EXCEPT ![n].real = @ + 1]
  /\ entry' = [entry EXCEPT ![n] = Handled(@, chain[seen[n].real + 1])]
  /\ UNCHANGED <<call, pool, chain, ahead, used>>

(* Slip: the history ends one message early. *)
Slip_Restart(n) ==
  /\ used.restarts < MaxRestarts
  /\ used' = [used EXCEPT !.restarts = @ + 1]
  /\ entry' = [entry EXCEPT ![n] = NoEntry]
  /\ call' = [call EXCEPT ![n] = NULL]
  /\ seen' = [seen EXCEPT ![n] =
                [hist |-> 0, real |-> Len(chain),
                 start |-> IF chain = <<>> THEN 0 ELSE Len(chain) - 1]]
  /\ ahead' = [ahead EXCEPT ![n] = {}]
  /\ UNCHANGED <<pool, chain>>

(* Slip: the second reader starts at the first block as well. *)
Slip_RestartAtFirst(n) ==
  /\ used.restarts < MaxRestarts
  /\ used' = [used EXCEPT !.restarts = @ + 1]
  /\ entry' = [entry EXCEPT ![n] = NoEntry]
  /\ call' = [call EXCEPT ![n] = NULL]
  /\ seen' = [seen EXCEPT ![n] = [hist |-> 0, start |-> Len(chain), real |-> 0]]
  /\ ahead' = [ahead EXCEPT ![n] = {}]
  /\ UNCHANGED <<pool, chain>>

(* Nothing is kept on disk: a node that starts again reads the chain. *)
Restart(n) ==
  /\ used.restarts < MaxRestarts
  /\ used' = [used EXCEPT !.restarts = @ + 1]
  /\ entry' = [entry EXCEPT ![n] = NoEntry]
  /\ call' = [call EXCEPT ![n] = NULL]
  /\ seen' = [seen EXCEPT ![n] =
                [hist |-> 0, start |-> Len(chain), real |-> Len(chain)]]
  /\ ahead' = [ahead EXCEPT ![n] = {}]
  /\ UNCHANGED <<pool, chain>>

Calls(n) == \E outcome \in {"sent", "failed", "unanswered"} :
  \/ List(n, outcome)
  \/ Cancel(n, outcome)
  \/ MakeOffer(n, outcome)
  \/ \E b \in Nodes : AcceptOffer(n, b, outcome)
  \/ Feedback(n, outcome)

Next == \E n \in Nodes :
  \/ Calls(n)
  \/ Return(n)
  \/ \E i \in 1..Len(pool[n]) : Forge(n, i)
  \/ ReadHistory(n)
  \/ ReadNews(n)
  \/ Restart(n)

Spec == Init /\ [][Next]_vars

(* submit_AM answers or times out, what is in the pool comes into a block, *)
(* and the readers go on; nobody has to call or to restart.                *)
FairSpec == Spec /\ \A n \in Nodes :
  /\ WF_vars(Return(n)) /\ WF_vars(Forge(n, 1))
  /\ WF_vars(ReadHistory(n)) /\ WF_vars(ReadNews(n))

-----------------------------------------------------------------------------
TypeOK ==
  /\ entry \in [Nodes -> Entries]
  /\ call \in [Nodes -> Kinds \cup {NULL}]
  /\ pool \in [Nodes -> Seq(Messages)]
  /\ chain \in Seq(Messages)
  /\ seen \in [Nodes -> [hist : Nat, start : Nat, real : Nat]]
  /\ ahead \in [Nodes -> SUBSET {"buyer", "ratings"}]
  /\ used \in [calls : Nat, faults : Nat, restarts : Nat]
  /\ \A n \in Nodes :
       /\ ~entry[n].there => entry[n] = NoEntry
       /\ seen[n].hist <= seen[n].start /\ seen[n].start <= seen[n].real
       /\ seen[n].real <= Len(chain)

CaughtUp(n) ==
  /\ \A o \in Nodes : pool[o] = <<>>
  /\ call[n] = NULL
  /\ seen[n].hist = seen[n].start /\ seen[n].real = Len(chain)

(* The node shows the listing as the chain has it; the buyer too unless an *)
(* offer or acceptance it could not send has left one behind, and the same *)
(* ratings unless it wrote a buyer ahead of the chain.                     *)
Agrees(n) ==
  LET e == entry[n]  r == Replay IN
  /\ <<e.status, e.tagged>> = <<r.status, r.tagged>>
  /\ r.there => e.seller = r.seller
  /\ "buyer" \notin ahead[n] => e.buyer = r.buyer
  /\ "ratings" \notin ahead[n] => e.ratings = r.ratings

(* What the handlers write before the chain confirms it, in whatever order *)
(* with what is handled meanwhile, leaves no trace: a node that has seen   *)
(* every message holds the listing as a node that only reads the chain.    *)
NodesAgree == \A n \in Nodes : CaughtUp(n) => Agrees(n)

(* All nodes come to agree, through lost answers and restarts. *)
AgreementReached == <>[](\A n \in Nodes : CaughtUp(n) /\ Agrees(n))

Closed(e) == e.status \in {"CANCELLED", "OFFERED", "ACCEPTED"}

(* A listing that was cancelled, offered for or accepted is not opened     *)
(* again in a running node, not even by a second LIST message of a seller  *)
(* that lists it again after a restart.                                    *)
NeverReopened ==
  [][\A n \in Nodes :
       Closed(entry[n]) /\ entry'[n].there => Closed(entry'[n])]_vars

(* A listing that is in a node is announced in the end.  The code does not *)
(* keep this: when the announcement fails the entry stays INACTIVE and     *)
(* list_func refuses to list it again as a duplicate.                      *)
NeverStuck == \A n \in Nodes :
  (\A o \in Nodes : CaughtUp(o)) /\ entry[n].there => entry[n].status # "INACTIVE"
=============================================================================
