------------------------------ MODULE Binding ------------------------------
(***************************************************************************)
(* What becomes of a deposit address: the gateway that made it announces   *)
(* it in the NXT chain, and every node binds it to the account when its    *)
(* scanner meets the message (multigateway.h, multisig.h, multifind.h).    *)
(* A node that is started again reads the chain's history in one thread    *)
(* and what is new in another, and both call update_acct_binding.          *)
(***************************************************************************)
EXTENDS AddressGen, FiniteSetsExt

CONSTANT Nodes   (* the nodes whose lists are followed, gateways or not *)

VARIABLES
  chain,     (* the BIND_DEPOSIT_ADDRESS messages, in the order of the chain *)
  lists,     (* per node acct->msigs of each account and lp->msigs *)
  reader,    (* per node its two scanners, RT and HIST *)
  restarts

vars == <<genVars, chain, lists, reader, restarts>>
RT == "RT"
HIST == "HIST"

ASSUME BindingAssumption == \A c \in Settings : 
  c.restarts \in Nat /\ c.foreign \in Nat /\ c.quiet \in BOOLEAN

(* An array that realloc grows, and how many of its slots are in use; a    *)
(* slot that is counted but was never written holds no msig.               *)
Empty == [slots |-> <<>>, num |-> 0]
NoMsig == [acct |-> NoAcct, multisigaddr |-> <<>>, addrs |-> <<>>, keys |-> <<>>]
Held(l) == [i \in 1..l.num |-> IF i <= Len(l.slots) THEN l.slots[i] ELSE NoMsig]
EmptyLists == [acct |-> [a \in Accts |-> Empty], coin |-> Empty]

(* A scanner: the message it is at, the last one it reads (0: no end), and *)
(* the msig that decode_msigjson made of it.                               *)
From(first, last) == [at |-> "read", next |-> first, last |-> last]
Fresh == [t \in {RT, HIST} |-> IF t = RT THEN From(1, 0) ELSE From(1, -1)]

Init ==
  /\ InitGen
  /\ chain = <<>> /\ restarts = 0
  /\ lists = [n \in Nodes |-> EmptyLists]
  /\ reader = [n \in Nodes |-> Fresh]

(* Has scanner s a message to read?  Its end is fixed for the history.     *)
Reading(s) == s.next <= (IF s.last = 0 THEN Len(chain) ELSE s.last)
InHistory(n) == Reading(reader[n][HIST])

-----------------------------------------------------------------------------
(* call_gen_depositaddr announces what gen_depositaddr returned, or fails  *)
(* to.  quiet: no announcement while a node reads its history.             *)
Announce(g) ==
  /\ job[g].at = "made"
  /\ job' = [job EXCEPT ![g] = Idle]
  /\ \/ /\ setting.quiet => \A n \in Nodes : ~InHistory(n)
        /\ chain' = Append(chain, [sender |-> g, msig |-> Made(g)])
     \/ setting.callsFail /\ UNCHANGED chain
  /\ UNCHANGED <<setting, wallet, server, count, lists, reader, restarts>>

(* Another message of this kind: from an account that is no gateway's, or  *)
(* from a gateway's with other than one key per gateway.                   *)
Foreign(m) == m.sender = STRANGER \/ Len(m.msig.keys) # NumGateways

OtherMessage(a) ==
  /\ Cardinality({i \in DOMAIN chain : Foreign(chain[i])}) < setting.foreign
  /\ a \in setting.asking
  /\ \E sender \in {STRANGER, 1} :
       LET addrs == [i \in 1..(IF sender = STRANGER THEN NumGateways ELSE NumGateways - 1) |->
                       Address(STRANGER, a, 1)]
           keys == [i \in DOMAIN addrs |-> KeyOf(addrs[i])]
       IN  chain' = Append(chain,
             [sender |-> sender,
              msig |-> [acct |-> a, multisigaddr |-> <<"multisig", keys>>,
                        addrs |-> addrs, keys |-> keys]])
  /\ UNCHANGED <<genVars, lists, reader, restarts>>

Message(n, t) == chain[reader[n][t].next]

(* msigcmp: same account, multisig address and keys.                       *)
Same(m, k) == m = k

(* Slip: an account that has an address gets no other. *)
Slip_Known(n, m) == lists[n].acct[m.acct].num > 0

Known(n, m) ==
  \E i \in 1..lists[n].acct[m.acct].num : Same(Held(lists[n].acct[m.acct])[i], m)

(* decode_msigjson takes a message that has a key of each gateway.         *)
Decoded(m) == Len(m.keys) = NumGateways

(* is_gateway_addr(sender), and update_acct_binding's search.              *)
Bindable(n, t) ==
  LET m == Message(n, t)
  IN  m.sender \in Gateways /\ Decoded(m.msig) /\ ~Known(n, m.msig)

(* The message reaches the handler and is passed over, or is to be added.  *)
Meet(n, t) ==
  LET s == reader[n][t] IN
  /\ s.at = "read" /\ Reading(s)
  /\ reader' = [reader EXCEPT ![n][t] =
       IF Bindable(n, t) THEN [s EXCEPT !.at = "add"] ELSE [s EXCEPT !.next = @ + 1]]
  /\ UNCHANGED <<genVars, chain, lists, restarts>>

(* add_multisig_addr: the slot after the last is written, then counted.    *)
(* A slot further out, counted by the other thread, was never written.     *)
Written(l, m) ==
  [l EXCEPT !.slots = IF l.num < Len(l.slots) THEN [l.slots EXCEPT ![l.num + 1] = m]
                      ELSE Append(l.slots, m)]
Counted(l) == [l EXCEPT !.num = @ + 1]

Write(n, t) ==
  LET m == Message(n, t).msig IN
  /\ reader[n][t].at = "add"
  /\ lists' = [lists EXCEPT ![n].acct[m.acct] = Written(@, m), ![n].coin = Written(@, m)]
  /\ reader' = [reader EXCEPT ![n][t].at = "count"]
  /\ UNCHANGED <<genVars, chain, restarts>>

Count(n, t) ==
  LET s == reader[n][t] IN
  /\ s.at = "count"
  /\ lists' = [lists EXCEPT ![n].acct[Message(n, t).msig.acct] = Counted(@),
                            ![n].coin = Counted(@)]
  /\ reader' = [reader EXCEPT ![n][t] = [s EXCEPT !.at = "read", !.next = @ + 1]]
  /\ UNCHANGED <<genVars, chain, restarts>>

(* Slip: the history ends one block early. *)
Slip_Restarted == [t \in {RT, HIST} |->
  IF t = RT THEN From(Len(chain) + 1, 0) ELSE From(1, Max({0, Len(chain) - 1}) - 1)]

(* After a start the history ends where the real time scan begins.         *)
Restarted == [t \in {RT, HIST} |->
  IF t = RT THEN From(Len(chain) + 1, 0)
  ELSE From(1, IF chain = <<>> THEN -1 ELSE Len(chain))]

(* A node stops and is started again: what it knew is gone.                *)
Restart(n) ==
  /\ restarts < setting.restarts /\ restarts' = restarts + 1
  /\ IF n \in Gateways THEN StopGen(n) ELSE UNCHANGED genVars
  /\ IF n \in Nodes
       THEN /\ lists' = [lists EXCEPT ![n] = EmptyLists]
            /\ reader' = [reader EXCEPT ![n] = Restarted]
       ELSE UNCHANGED <<lists, reader>>
  /\ UNCHANGED chain

Scan(n, t) == Meet(n, t) \/ Write(n, t) \/ Count(n, t)

Next ==
  \/ GenNext /\ UNCHANGED <<chain, lists, reader, restarts>>
  \/ \E g \in Gateways : Announce(g)
  \/ \E a \in Accts : OtherMessage(a)
  \/ \E n \in Nodes : Scan(n, RT) \/ Scan(n, HIST)
  \/ \E n \in Nodes \cup Gateways : Restart(n)

Spec == Init /\ [][Next]_vars

(* Every thread goes on; daemons and connections answer or fail.           *)
FairSpec ==
  /\ Spec
  /\ \A g \in Gateways :
       WF_vars(Coinloop(g) /\ UNCHANGED <<chain, lists, reader, restarts>>)
         /\ WF_vars(Serve(g) /\ UNCHANGED <<chain, lists, reader, restarts>>)
         /\ WF_vars(Announce(g))
  /\ \A n \in Nodes : WF_vars(Scan(n, RT)) /\ WF_vars(Scan(n, HIST))

-----------------------------------------------------------------------------
(* get_deposit_addr: what an account is told.                              *)
DepositAddr(n, a) ==
  IF lists[n].acct[a].num = 0 THEN <<>> ELSE Held(lists[n].acct[a])[1].multisigaddr

(* search_multisig_addrs: whose deposits to an address are.                *)
SearchMultisig(n, addr) ==
  LET msigs == Held(lists[n].coin)
      found == {i \in DOMAIN msigs : msigs[i].multisigaddr = addr}
  IN  IF found = {} THEN NoAcct ELSE msigs[Min(found)].acct

BindingTypeOK ==
  /\ GenTypeOK /\ restarts \in 0..setting.restarts
  /\ \A n \in Nodes, t \in {RT, HIST} :
       /\ reader[n][t].at \in {"read", "add", "count"}
       /\ reader[n][t].next \in 1..(Len(chain) + 1)
  /\ \A n \in Nodes : 
       /\ lists[n].coin.num <= Len(lists[n].coin.slots)
       /\ \A a \in Accts : lists[n].acct[a].num <= Len(lists[n].acct[a].slots)

(* Every msig a node holds is of addresses that all gateways gave out for  *)
(* its account, with their keys, whatever failed on the way and whoever    *)
(* else sent messages.                                                     *)
BoundGenuine ==
  \A n \in Nodes : \A i \in 1..lists[n].coin.num : Genuine(Held(lists[n].coin)[i])

(* No msig is on a list twice, and a deposit to the address an account is  *)
(* told is found to be that account's (add_multisig_addr keeps two lists). *)
ListsMatch ==
  \A n \in Nodes :
    /\ IsInjective(Held(lists[n].coin))
    /\ \A a \in Accts :
         DepositAddr(n, a) # <<>> => SearchMultisig(n, DepositAddr(n, a)) = a

MsigsSound == BindingTypeOK /\ OneQuestion /\ MadeGenuine /\ BoundGenuine /\ ListsMatch

AtRest(n) == \A t \in {RT, HIST} : reader[n][t].at = "read" /\ ~Reading(reader[n][t])

(* Nodes that have read the whole chain tell an account the same address,  *)
(* started again or not, with the same msigs in the same order.            *)
NodesBindAlike ==
  \A n, k \in Nodes :
    AtRest(n) /\ AtRest(k) =>
      /\ Held(lists[n].coin) = Held(lists[k].coin)
      /\ \A a \in Accts : DepositAddr(n, a) = DepositAddr(k, a)

(* Every attempt to make a deposit address ends, although gateways wait    *)
(* for one another: the thread that answers never asks.                    *)
EveryAttemptEnds == \A g \in Gateways : (job[g].at # "idle") ~> (job[g].at = "idle")

(* Every address a gateway announces is one that every node comes to hold. *)
Announced(i) == Len(chain) >= i /\ ~Foreign(chain[i])
EveryNodeBinds ==
  \A n \in Nodes, i \in 1..2 : Announced(i) ~>
    Announced(i) /\ chain[i].msig \in ToSet(Held(lists[n].coin))
=============================================================================
