----------------------------- MODULE AddressGen -----------------------------
(***************************************************************************)
(* How the gateways make a deposit address together: multisig.h over the   *)
(* request sockets of NXTsock.h.  The Coinloop thread of a gateway runs    *)
(* gen_depositaddr: it asks every gateway, itself included, for an address *)
(* of the account and then for that address's public key, and has its coin *)
(* daemon build the multisig address.  Another thread, _server_loop,       *)
(* answers the others, one connection after the other and one request per  *)
(* connection.  One coin.                                                  *)
(***************************************************************************)
EXTENDS Integers, Sequences, FiniteSets, SequencesExt

CONSTANTS
  NumGateways,   (* NUM_GATEWAYS *)
  Accts,         (* NXT accounts that ask for a deposit address *)
  MaxHandlers,   (* size of Handlers *)
  Settings       (* the circumstances to look at, see the variable *)

Gateways == 1..NumGateways

(* Who connects: a gateway, or 0 for an address that is in no whitelist.   *)
STRANGER == 0
Peers == Gateways \cup {STRANGER}

NoAcct == "nobody"

ASSUME AddressGenAssumption ==
  /\ NumGateways \in Nat \ {0} /\ MaxHandlers \in Nat \ {0} /\ NoAcct \notin Accts
  /\ \A c \in Settings : 
       /\ c.callsFail \in BOOLEAN /\ c.asking \subseteq Accts
       /\ c.gens \in Nat /\ c.fresh \in Nat /\ c.odd \in Nat

VARIABLES
  setting,   (* callsFail: whether connections break and daemons fail; asking: *)
             (* the accounts addresses are made for;                          *)
             (* bounds: gens, the attempts that are made; fresh, the times a  *)
             (* wallet moves an account on to another address; odd, the other *)
             (* connections that arrive                                       *)
  wallet,    (* the coin daemons: which address each has for an account *)
  job,       (* the Coinloop thread's call of gen_depositaddr *)
  server,    (* connections at a gateway's port, the first in service *)
  count      (* how often each of the bounded things happened *)

genVars == <<setting, wallet, job, server, count>>

(* An address is one of a wallet's for an account; its key is another name *)
(* for it.  A validateaddress that cannot be parsed, or that names no key, *)
(* leaves a text that is no key.                                           *)
Address(g, a, v) == <<g, a, v>>
NoAddr == <<>>
KeyOf(addr) == <<"key", addr>>
NotAKey == <<"error generating pubkey", NoAddr>>
NoKey == <<"", NoAddr>>

(* struct directnet_getpubkey, as far as it is filled in.                  *)
Request(func, a, addr) ==
  [func |-> func, acct |-> a, addr |-> addr, key |-> NoKey, flag |-> 0]
NoRequest == Request("none", NoAcct, NoAddr)

(* addrs and keys: what gen_depositaddr has collected, in gateway order.   *)
Idle == [at |-> "idle", acct |-> NoAcct, addrs |-> <<>>, keys |-> <<>>, reply |-> NoRequest]

-----------------------------------------------------------------------------
(* The handler table (NXTsock.h) *)

(* register_variant_handler: a function id that is there keeps its entry.  *)
Register(table, h) ==
  IF Len(table) > MaxHandlers THEN table
  ELSE IF \E i \in DOMAIN table : table[i].func = h.func
       THEN [i \in DOMAIN table |->
               IF table[i].func = h.func THEN [table[i] EXCEPT !.run = h.run] ELSE table[i]]
       ELSE Append(table, h)

(* What init_multigateway registers, with the list of servers.             *)
Whitelist == Gateways
Table ==
  FoldLeft(Register, <<>>,
           <<[func |-> "SYNCWITHDRAW", run |-> "syncwithdraw", whitelist |-> Whitelist],
             [func |-> "GETCOINADDR", run |-> "getpubkey", whitelist |-> Whitelist],
             [func |-> "GETPUBKEY", run |-> "getpubkey", whitelist |-> Whitelist]>>)

FindHandler(func) == {i \in DOMAIN Table : Table[i].func = func}

InitGen ==
  /\ setting \in Settings
  /\ wallet = [g \in Gateways |-> [a \in Accts |-> 1]]
  /\ job = [g \in Gateways |-> Idle]
  /\ server = [g \in Gateways |-> <<>>]
  /\ count = [gens |-> 0, fresh |-> 0, odd |-> 0]

-----------------------------------------------------------------------------
(* The coin daemon: what a call may give, NoAddr or NoKey for no answer *)

Failed(x) == IF setting.callsFail THEN {x} ELSE {}

(* getaccountaddress of get_coinaddr.                                      *)
GetCoinAddr(g, a) == {Address(g, a, wallet[g][a])} \cup Failed(NoAddr)

(* validateaddress of get_bitcoind_pubkey.                                 *)
GetPubkey(addr) == {KeyOf(addr)} \cup Failed(NoKey) \cup Failed(NotAKey)

(* process_directnet_getpubkey at gateway d: the request comes back with   *)
(* what was asked for and a flag.                                          *)
Answers(d, r) ==
  IF r.func = "GETCOINADDR"
  THEN {[r EXCEPT !.addr = x, !.flag = IF x = NoAddr THEN -1 ELSE 1] : x \in GetCoinAddr(d, r.acct)}
  ELSE {[r EXCEPT !.key = x, !.flag = IF x = NoKey THEN -1 ELSE 1] : x \in GetPubkey(r.addr)}

-----------------------------------------------------------------------------
(* gen_depositaddr *)

(* The gateway whose turn it is, and what it is to be asked.               *)
Turn(g) == Len(job[g].keys) + 1
Asking(g) == job[g].at = "ask" /\ Turn(g) <= NumGateways

(* Slip: the key is asked for by account, without naming the address. *)
Slip_Question(g) ==
  LET j == job[g] IN
  IF Len(j.addrs) < Turn(g) THEN Request("GETCOINADDR", j.acct, NoAddr)
  ELSE Request("GETPUBKEY", j.acct, Address(Turn(g), j.acct, wallet[Turn(g)][j.acct]))

Question(g) ==
  LET j == job[g] IN
  IF Len(j.addrs) < Turn(g) THEN Request("GETCOINADDR", j.acct, NoAddr)
  ELSE Request("GETPUBKEY", NoAcct, Last(j.addrs))

(* Job j goes on with answer r, or ends at the first failure.              *)
Learnt(j, r) ==
  IF r.flag <= 0 THEN Idle
  ELSE IF r.func = "GETCOINADDR"
       THEN [j EXCEPT !.at = "ask", !.addrs = Append(@, r.addr), !.reply = NoRequest]
       ELSE [j EXCEPT !.at = "ask", !.keys = Append(@, r.key), !.reply = NoRequest]

(* The call of cp->gen_depositaddr (call_gen_depositaddr).                 *)
Generate(g, a) ==
  /\ job[g].at = "idle" /\ count.gens < setting.gens /\ a \in setting.asking
  /\ job' = [job EXCEPT ![g] = [Idle EXCEPT !.at = "ask", !.acct = a]]
  /\ count' = [count EXCEPT !.gens = @ + 1]
  /\ UNCHANGED <<setting, wallet, server>>

AskSelf(g) ==
  /\ Asking(g) /\ Turn(g) = g
  /\ \E r \in Answers(g, Question(g)) : job' = [job EXCEPT ![g] = Learnt(@, r)]
  /\ UNCHANGED <<setting, wallet, server, count>>

(* server_request: the connection and the request's bytes go out, or the   *)
(* attempt fails there.                                                    *)
AskOther(g) ==
  LET d == Turn(g) IN
  /\ Asking(g) /\ d # g
  /\ \/ /\ server' = [server EXCEPT ![d] =
             Append(@, [from |-> g, open |-> TRUE, req |-> Question(g)])]
        /\ job' = [job EXCEPT ![g].at = "wait"]
     \/ /\ setting.callsFail
        /\ job' = [job EXCEPT ![g] = Idle] /\ UNCHANGED server
  /\ UNCHANGED <<setting, wallet, count>>

(* wait_for_serverdata has the whole answer.                               *)
Receive(g) ==
  /\ job[g].at = "answered"
  /\ job' = [job EXCEPT ![g] = Learnt(@, job[g].reply)]
  /\ UNCHANGED <<setting, wallet, server, count>>

(* It finds the connection broken; the server may still find the request.  *)
ConnectionBreaks(g) ==
  /\ setting.callsFail /\ job[g].at \in {"wait", "answered"}
  /\ server' = [server EXCEPT ![Turn(g)] =
       [i \in DOMAIN @ |-> IF @[i].from = g THEN [@[i] EXCEPT !.open = FALSE] ELSE @[i]]]
  /\ job' = [job EXCEPT ![g] = Idle]
  /\ UNCHANGED <<setting, wallet, count>>

(* gen_multisig_addr: the daemon refuses what is no key.                   *)
CreateMultisig(g) ==
  /\ job[g].at = "ask" /\ Turn(g) > NumGateways
  /\ \/ /\ \A i \in Gateways : job[g].keys[i] \notin {NotAKey, NoKey}
        /\ job' = [job EXCEPT ![g].at = "made"]
     \/ /\ setting.callsFail
        /\ job' = [job EXCEPT ![g] = Idle]
  /\ UNCHANGED <<setting, wallet, server, count>>

(* The msig it returns: multisigaddr and redeemScript follow from the keys.*)
Made(g) == [acct |-> job[g].acct, multisigaddr |-> <<"multisig", job[g].keys>>,
            addrs |-> job[g].addrs, keys |-> job[g].keys]

-----------------------------------------------------------------------------
(* _server_loop *)

(* Slip: a connection that has gone is not taken off. *)
Slip_Rest(d) == IF Head(server[d]).open THEN Tail(server[d]) ELSE server[d]

Rest(d) == Tail(server[d])

(* process_client_packet: a handler answers who is in its whitelist.       *)
Handled(d, c) ==
  IF \E i \in FindHandler(c.req.func) : c.from \in Table[i].whitelist
  THEN Answers(d, c.req) ELSE {}

(* The connection in service is answered and closed, closed without an     *)
(* answer, or found closed before its request was whole.                   *)
Serve(d) ==
  LET c == Head(server[d]) IN
  /\ server[d] # <<>>
  /\ server' = [server EXCEPT ![d] = Rest(d)]
  /\ IF ~c.open \/ Handled(d, c) = {}
       THEN job' = [g \in Gateways |-> IF c.open /\ g = c.from THEN Idle ELSE job[g]]
       ELSE \E r \in Handled(d, c) : 
              job' = [job EXCEPT ![c.from] = [@ EXCEPT !.at = "answered", !.reply = r]]
  /\ UNCHANGED <<setting, wallet, count>>

(* Somebody else connects: closes at once, asks for something unknown, or  *)
(* asks what only a gateway may ask.                                       *)
OtherConnection(d) ==
  /\ count.odd < setting.odd
  /\ \E func \in {"none", "unknown", "GETCOINADDR"} :
       server' = [server EXCEPT ![d] = 
         Append(@, [from |-> STRANGER, open |-> func # "none",
                    req |-> Request(func, NoAcct, NoAddr)])]
  /\ count' = [count EXCEPT !.odd = @ + 1]
  /\ UNCHANGED <<setting, wallet, job>>

(* The wallet gives an account another address, as daemons do once coins   *)
(* came to the first.                                                      *)
NewAddress(g, a) ==
  /\ count.fresh < setting.fresh /\ a \in setting.asking
  /\ wallet' = [wallet EXCEPT ![g][a] = @ + 1]
  /\ count' = [count EXCEPT !.fresh = @ + 1]
  /\ UNCHANGED <<setting, job, server>>

(* Gateway g stops and starts again: its jobs and connections are gone.    *)
StopGen(g) ==
  /\ job' = [h \in Gateways |->
       IF h = g \/ \E i \in DOMAIN server[g] : server[g][i].from = h /\ server[g][i].open
       THEN Idle ELSE job[h]]
  /\ server' = [d \in Gateways |->
       IF d = g THEN <<>>
       ELSE [i \in DOMAIN server[d] |->
               IF server[d][i].from = g THEN [server[d][i] EXCEPT !.open = FALSE]
               ELSE server[d][i]]]
  /\ UNCHANGED <<setting, wallet, count>>

Coinloop(g) == AskSelf(g) \/ AskOther(g) \/ Receive(g) \/ CreateMultisig(g)

GenNext ==
  \E g \in Gateways :
    \/ Coinloop(g) \/ Serve(g) \/ ConnectionBreaks(g) \/ OtherConnection(g)
    \/ \E a \in Accts : Generate(g, a) \/ NewAddress(g, a)

-----------------------------------------------------------------------------
(* A daemon only ever gave out the addresses up to the one it has now.     *)
Given(g, a) == {Address(g, a, v) : v \in 1..wallet[g][a]}

Genuine(m) ==
  /\ Len(m.addrs) = NumGateways /\ m.multisigaddr = <<"multisig", m.keys>>
  /\ \A i \in Gateways :
       m.addrs[i] \in Given(i, m.acct) /\ m.keys[i] = KeyOf(m.addrs[i])

Addresses == {NoAddr} \cup (Peers \X Accts \X Nat)
Keys == {NotAKey, NoKey} \cup ({"key"} \X Addresses)
Requests ==
  [func : {"none", "unknown", "GETCOINADDR", "GETPUBKEY"}, acct : Accts \cup {NoAcct},
   addr : Addresses, key : Keys, flag : {-1, 0, 1}]
Jobs ==
  [at : {"idle", "ask", "wait", "answered", "made"}, acct : Accts \cup {NoAcct},
   addrs : Seq(Addresses), keys : Seq(Keys), reply : Requests]
Connections == [from : Peers, open : BOOLEAN, req : Requests]

GenTypeOK ==
  /\ setting \in Settings /\ wallet \in [Gateways -> [Accts -> Nat \ {0}]]
  /\ count \in [gens : 0..setting.gens, fresh : 0..setting.fresh, odd : 0..setting.odd]
  /\ job \in [Gateways -> Jobs] /\ server \in [Gateways -> Seq(Connections)]
  /\ \A g \in Gateways :
       Len(job[g].addrs) \in {Len(job[g].keys), Len(job[g].keys) + 1}

(* A gateway has at most one request on its way, and where it waits for an *)
(* answer that request is the question it has asked (server_request runs   *)
(* in one thread; _server_loop answers on the request's own connection).   *)
OneQuestion ==
  \A g \in Gateways :
    LET mine(d) == {i \in DOMAIN server[d] : server[d][i].from = g /\ server[d][i].open}
    IN  IF job[g].at = "wait"
          THEN \E i \in mine(Turn(g)) :
                 /\ server[Turn(g)][i].req = Question(g)
                 /\ \A d \in Gateways : \A k \in mine(d) : d = Turn(g) /\ k = i
          ELSE \A d \in Gateways : mine(d) = {}

(* What a gateway has made is of addresses every gateway gave out for this *)
(* account, with the key of each, in the order of the gateways.            *)
MadeGenuine == \A g \in Gateways : job[g].at = "made" => Genuine(Made(g))
=============================================================================
