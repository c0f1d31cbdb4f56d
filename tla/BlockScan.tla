----------------------------- MODULE BlockScan -----------------------------
(***************************************************************************)
(* How NXTprotocol.c reads the NXT block chain: run_NXTprotocol registers  *)
(* the handlers and becomes the real time scanner (NXTloop), before which  *)
(* it may start a second scanner for the history; both keep the accounts'  *)
(* asset balances and hand every transaction to the handlers.  The idler   *)
(* of the UV loop calls the handlers at the same time.                     *)
(*                                                                         *)
(* The hash tables are those of module HashTable, their calls one step     *)
(* each.  A block is its height; no block is orphaned.                     *)
(***************************************************************************)
EXTENDS Integers, Sequences, FiniteSets, FiniteSetsExt, SequencesExt

CONSTANTS
  Txs,           (* the transactions: function from ids to what getTransaction
                    answers: hash, kind, sender, receiver, asset, qty, type,
                    subtype, sig and genuine (the message names its sender) *)
  Blocks,        (* sequence of blocks, each a sequence of transaction ids *)
  FirstTop,      (* the top of the chain when the program starts *)
  Handlers,      (* the handlers in the order of their registration: type,
                    subtype, sig, priority, assets and white (sets of sets:
                    {} for no list) *)
  MaxHandlers,   (* size of NXThandlers *)
  Width,         (* quantities are kept modulo Width (2^64 in the code) *)
  GENESIS,       (* GENESISACCT *)
  Settings       (* the circumstances to look at, see the variable *)

Ids == DOMAIN Txs
Hashes == {Txs[x].hash : x \in Ids}
Assets == {Txs[x].asset : x \in Ids}
Accts == {GENESIS} \cup {Txs[x].sender : x \in Ids} \cup {Txs[x].receiver : x \in Ids}

ASSUME BlockScanAssumption ==
  /\ Blocks \in Seq(Seq(Ids)) /\ FirstTop \in 1..Len(Blocks)
  /\ MaxHandlers \in Nat /\ Width \in Nat \ {0}
  /\ \A x \in Ids : Txs[x].qty \in Nat
  /\ \A c \in Settings : 
       /\ c.histstart \in 0..FirstTop /\ c.callsFail \in BOOLEAN
       /\ c.maxTop \in FirstTop..Len(Blocks)

VARIABLES
  setting,       (* histstart: the block the history starts at, 0 for none; *)
                 (* callsFail: whether requests to the NXT server may fail; *)
                 (* bound: maxTop, the blocks that appear                   *)
  top,           (* height of the chain's last block *)
  scan,          (* the two scanners: where each stands *)
  guids,         (* NXTguid_tablep: the hashes that are claimed *)
  quantities,    (* acct->quantities, per account and asset *)
  txlists,       (* acct->txlists: which transactions moved the balance,
                    with their sign, in order *)
  handled,       (* how often each transaction went to process_NXT_event *)
  registered,    (* Num_NXThandlers *)
  inited,        (* handlers that have returned from NXTPROTOCOL_INIT *)
  called,        (* handlers that were called for anything else *)
  RTflag,
  Historical_done

books == <<quantities, txlists>>
table == <<registered, inited>>
vars == <<setting, top, scan, guids, books, handled, table, called, RTflag,
          Historical_done>>

RT == "RT"
HIST == "HIST"

(* Where a scanner stands: its struct NXThandler_info (the history has a   *)
(* copy of its own), NXTloop's locals, and the loop over transactions.     *)
Idle(at) == [at |-> at, block |-> 0, lastblock |-> 0, nextblock |-> 0,
             terminationblock |-> 0, txs |-> <<>>, tx |-> "none", reg |-> 0]

Init ==
  /\ setting \in Settings
  /\ top = FirstTop
  /\ scan = [t \in {RT, HIST} |-> Idle(IF t = RT THEN "register" ELSE "off")]
  /\ guids = {} /\ handled = [x \in Ids |-> 0]
  /\ quantities = [a \in Accts |-> [s \in Assets |-> 0]]
  /\ txlists = [a \in Accts |-> [s \in Assets |-> <<>>]]
  /\ registered = 0 /\ inited = {} /\ called = {}
  /\ RTflag = 0 /\ Historical_done = FALSE

At(t, at) == scan[t].at = at
Go(t, at) == scan' = [scan EXCEPT ![t].at = at]

-----------------------------------------------------------------------------
(* Start *)

Room == registered < Min({Len(Handlers), MaxHandlers})

(* Slip: the handler is called in another mode than NXTPROTOCOL_INIT. *)
Slip_CallInit ==
  /\ At(RT, "register") /\ Room /\ Go(RT, "init") /\ UNCHANGED inited
  /\ UNCHANGED <<setting, top, guids, books, handled, registered, called,
                 RTflag, Historical_done>>

(* register_NXT_handler calls the handler once, then puts it in the table; *)
(* handlers for which there is no room are left out.                       *)
CallInit ==
  /\ At(RT, "register") /\ Room /\ Go(RT, "init")
  /\ inited' = inited \cup {registered + 1}
  /\ UNCHANGED <<setting, top, guids, books, handled, registered, called,
                 RTflag, Historical_done>>

EnterTable ==
  /\ At(RT, "init") /\ Go(RT, "register")
  /\ registered' = registered + 1
  /\ UNCHANGED <<setting, top, guids, books, handled, inited, called, RTflag,
                 Historical_done>>

(* The end of run_NXTprotocol.                                             *)
StartLoops ==
  /\ At(RT, "register") /\ ~Room
  /\ scan' = [scan EXCEPT ![RT].at = "start",
                          ![HIST].at = IF setting.histstart # 0 THEN "start" ELSE "off"]
  /\ Historical_done' = (setting.histstart = 0)
  /\ UNCHANGED <<setting, top, guids, books, handled, table, called, RTflag>>

(* call_handlers: whoever is in the table by now.                          *)
Everybody == called \cup (1..registered)

(* NXTprotocol_idler on the UV thread.                                     *)
IdleTime ==
  /\ called' = Everybody
  /\ UNCHANGED <<setting, top, scan, guids, books, handled, table, RTflag, Historical_done>>

-----------------------------------------------------------------------------
(* NXTloop *)

(* set_current_NXTblock gives the top block: the history ends before it,   *)
(* the real time scan starts from it.                                      *)
Begin(t) ==
  /\ At(t, "start")
  /\ scan' = [scan EXCEPT ![t] =
       IF t = HIST
         THEN [@ EXCEPT !.at = "loop", !.nextblock = setting.histstart,
                        !.terminationblock = top]
         ELSE [@ EXCEPT !.at = "loop", !.nextblock = top]]
  /\ UNCHANGED <<setting, top, guids, books, handled, table, called, RTflag, Historical_done>>

More(t) == scan[t].nextblock # scan[t].terminationblock

(* process_NXTblock: getBlock answers, nextBlock being empty for the last  *)
(* block, or it fails and nextblock stays.                                 *)
GetBlock(t) ==
  LET block == scan[t].nextblock IN
  /\ At(t, "loop") /\ More(t) /\ block # 0
  /\ \E ok \in {TRUE, ~setting.callsFail} :
       scan' = [scan EXCEPT ![t] =
         [@ EXCEPT !.at = "txs", !.lastblock = scan[t].block, !.block = block,
                   !.txs = IF ok THEN Blocks[block] ELSE <<>>,
                   !.nextblock = IF ~ok THEN block
                                 ELSE IF block < top THEN block + 1 ELSE 0]]
  /\ UNCHANGED <<setting, top, guids, books, handled, table, called, RTflag, Historical_done>>

(* Does a transaction move a balance, and from whom to whom?  An issue     *)
(* must be addressed to GENESISACCT, which then pays the issuer.           *)
Moves(x) ==
  \/ Txs[x].kind = "issue" /\ Txs[x].receiver = GENESIS
  \/ Txs[x].kind = "transfer"
Payer(x) == IF Txs[x].kind = "issue" THEN GENESIS ELSE Txs[x].sender
Payee(x) == IF Txs[x].kind = "issue" THEN Txs[x].sender ELSE Txs[x].receiver

(* Slip: only a transaction already handed out counts as taken. *)
Slip_Taken(x) == \E y \in Ids : Txs[y].hash = Txs[x].hash /\ handled[y] > 0

Taken(x) == Txs[x].hash \in guids

(* process_NXTtransaction up to the asset's books: a transaction whose     *)
(* getTransaction fails, or whose hash is taken, is passed over.           *)
GetTransaction(t) ==
  LET x == Head(scan[t].txs) IN
  /\ At(t, "txs") /\ scan[t].txs # <<>>
  /\ \/ /\ setting.callsFail \/ Taken(x)
        /\ scan' = [scan EXCEPT ![t].txs = Tail(@)]
        /\ UNCHANGED guids
     \/ /\ ~Taken(x)
        /\ guids' = guids \cup {Txs[x].hash}
        /\ scan' = [scan EXCEPT ![t] =
             [@ EXCEPT !.at = IF Moves(x) THEN "debit" ELSE "event",
                       !.txs = Tail(scan[t].txs), !.tx = x]]
  /\ UNCHANGED <<setting, top, books, handled, table, called, RTflag, Historical_done>>

(* transfer_asset_balance: each side is read, changed and written, and the *)
(* transaction entered in its list; the other scanner may step in between. *)
Side(t) == IF At(t, "debit") \/ At(t, "debited") THEN "payer" ELSE "payee"
Party(t) == IF Side(t) = "payer" THEN Payer(scan[t].tx) ELSE Payee(scan[t].tx)
Amount(t) == IF Side(t) = "payer" THEN -Txs[scan[t].tx].qty ELSE Txs[scan[t].tx].qty

ReadBalance(t) ==
  /\ At(t, "debit") \/ At(t, "credit")
  /\ scan' = [scan EXCEPT
       ![t].at = IF At(t, "debit") THEN "debited" ELSE "credited",
       ![t].reg = quantities[Party(t)][Txs[scan[t].tx].asset]]
  /\ UNCHANGED <<setting, top, guids, books, handled, table, called, RTflag, Historical_done>>

(* Slip: the amount is taken from both sides. *)
Slip_Balance(t) == (scan[t].reg - Txs[scan[t].tx].qty) % Width

Balance(t) == (scan[t].reg + Amount(t)) % Width

WriteBalance(t) ==
  LET asset == Txs[scan[t].tx].asset IN
  /\ At(t, "debited") \/ At(t, "credited")
  /\ quantities' = [quantities EXCEPT ![Party(t)][asset] = Balance(t)]
  /\ txlists' = [txlists EXCEPT ![Party(t)][asset] = Append(@, <<scan[t].tx, Side(t)>>)]
  /\ Go(t, IF At(t, "debited") THEN "credit" ELSE "event")
  /\ UNCHANGED <<setting, top, guids, handled, table, called, RTflag, Historical_done>>

(* process_NXT_event: does handler i want the transaction?  For a message  *)
(* only the signature counts, and a whitelist unless the message itself    *)
(* names its sender or GENESISACCT is a party to it; for anything else     *)
(* type, subtype and asset.                                                *)
Matches(x, i) ==
  LET tx == Txs[x]
      h == Handlers[i]
  IN  IF tx.kind = "message"
        THEN /\ h.sig \in {0, tx.sig}
             /\ \/ GENESIS \in {tx.sender, tx.receiver} \/ tx.genuine
                \/ \A list \in h.white : tx.sender \in list
        ELSE /\ h.type < 0 \/ h.type = tx.type
             /\ h.subtype < 0 \/ h.subtype = tx.subtype
             /\ tx.kind # "payment" => \A list \in h.assets : tx.asset \in list

(* The handlers called: each of higher priority than those called before.  *)
Takers(x) ==
  {i \in 1..registered : Matches(x, i) /\ \A j \in 1..(i - 1) :
     Matches(x, j) => Handlers[j].priority < Handlers[i].priority}

ProcessEvent(t) ==
  /\ At(t, "event") /\ Go(t, "txs")
  /\ handled' = [handled EXCEPT ![scan[t].tx] = @ + 1]
  /\ called' = called \cup Takers(scan[t].tx)
  /\ UNCHANGED <<setting, top, guids, books, table, RTflag, Historical_done>>

(* A block is through.  The real time scanner reports it (NEWBLOCK); the   *)
(* history stops where it fails to get on twice in a row.                  *)
EndBlock(t) ==
  /\ At(t, "txs") /\ scan[t].txs = <<>>
  /\ IF t = RT
       THEN /\ Go(t, "wait")
            /\ called' = Everybody
            /\ RTflag' = IF Historical_done THEN RTflag + 1 ELSE RTflag
       ELSE /\ Go(t, IF scan[t].nextblock = scan[t].lastblock THEN "drain" ELSE "loop")
            /\ UNCHANGED <<called, RTflag>>
  /\ UNCHANGED <<setting, top, guids, books, handled, table, Historical_done>>

(* Slip: the next block is sought from the top of the chain. *)
Slip_NextBlock ==
  /\ At(RT, "wait") /\ scan[RT].block < top
  /\ scan' = [scan EXCEPT ![RT].at = "loop", ![RT].nextblock = top]
  /\ UNCHANGED <<setting, top, guids, books, handled, table, called, RTflag, Historical_done>>

(* set_next_NXTblock gives a successor, and is asked until it does.        *)
NextBlock ==
  /\ At(RT, "wait") /\ scan[RT].block < top
  /\ scan' = [scan EXCEPT ![RT].at = "loop", ![RT].nextblock = scan[RT].block + 1]
  /\ UNCHANGED <<setting, top, guids, books, handled, table, called, RTflag, Historical_done>>

EndHistory ==
  /\ (At(HIST, "loop") /\ ~More(HIST)) \/ At(HIST, "drain")
  /\ Go(HIST, "end")
  /\ Historical_done' = TRUE
  /\ UNCHANGED <<setting, top, guids, books, handled, table, called, RTflag>>

(* The NXT network adds a block.                                           *)
NewBlock ==
  /\ top < setting.maxTop /\ top' = top + 1
  /\ UNCHANGED <<setting, scan, guids, books, handled, table, called, RTflag, Historical_done>>

NXTloop(t) ==
  \/ Begin(t) \/ GetBlock(t) \/ GetTransaction(t) \/ ReadBalance(t)
  \/ WriteBalance(t) \/ ProcessEvent(t) \/ EndBlock(t)

Main == CallInit \/ EnterTable \/ StartLoops \/ NextBlock \/ NXTloop(RT)
History == EndHistory \/ NXTloop(HIST)
Next == Main \/ History \/ IdleTime \/ NewBlock

Spec == Init /\ [][Next]_vars

(* The two scanners are threads that never wait for one another.           *)
FairSpec == Spec /\ WF_vars(Main) /\ WF_vars(History)

-----------------------------------------------------------------------------
Sum(f) == FoldFunction(LAMBDA m, n : m + n, 0, f)

(* A scanner that has claimed a transaction and not yet handed it out.     *)
Busy(t) == scan[t].at \in {"debit", "debited", "credit", "credited", "event"}

Heights == 0..Len(Blocks)
Places == {"off", "register", "init", "start", "loop", "txs", "debit", "debited",
           "credit", "credited", "event", "wait", "drain", "end"}
TypeOK ==
  /\ setting \in Settings /\ top \in Heights
  /\ scan \in [{RT, HIST} ->
       [at : Places, block : Heights, lastblock : Heights, nextblock : Heights,
        terminationblock : Heights, txs : Seq(Ids), tx : Ids \cup {"none"},
        reg : 0..(Width - 1)]]
  /\ \A t \in {RT, HIST} : Busy(t) => scan[t].tx \in Ids
  /\ guids \subseteq Hashes /\ handled \in [Ids -> Nat]
  /\ quantities \in [Accts -> [Assets -> 0..(Width - 1)]]

(* A handler is ready, its INIT call done, before any thread calls it for  *)
(* anything else (register_NXT_handler, call_handlers, process_NXT_event). *)
HandlersReady == called \subseteq inited

(* A transaction is handed out once, whichever scanner meets it, and of    *)
(* two with one hash at most one: NXTguid_tablep.                          *)
HandledOnce ==
  /\ \A x \in Ids : handled[x] <= 1
  /\ \A x, y \in Ids :
       Txs[x].hash = Txs[y].hash /\ handled[x] > 0 /\ handled[y] > 0 => x = y

Listed(a, s) ==
  FoldLeft(LAMBDA n, e : n + (IF e[2] = "payer" THEN -Txs[e[1]].qty ELSE Txs[e[1]].qty),
           0, txlists[a][s])
InTransit(t, s) ==
  IF scan[t].at \in {"credit", "credited"} /\ Txs[scan[t].tx].asset = s
  THEN Txs[scan[t].tx].qty ELSE 0

(* No asset comes from nowhere or disappears: what accounts hold adds up   *)
(* to what GENESISACCT owes, and every balance is that of the transactions *)
(* on the account's list.                                                  *)
BalancesTrue ==
  \A s \in Assets :
    /\ (Sum([a \in Accts |-> quantities[a][s]]) + InTransit(RT, s)
                                               + InTransit(HIST, s)) % Width = 0
    /\ \A a \in Accts : quantities[a][s] = Listed(a, s) % Width

(* So it is with one scanner: two may overwrite each other's change.       *)
BooksBalance == TypeOK /\ (setting.histstart = 0 => BalancesTrue)

(* The block is still before the scanner.                                  *)
Ahead(t, b) ==
  /\ scan[t].block # 0 /\ b >= scan[t].block
  /\ IF t = RT THEN b <= top ELSE b < scan[t].terminationblock

(* Where no request fails, a transaction that is ahead of a scanner is     *)
(* handed to the handlers, unless another of the same hash is.             *)
EveryTxHandled ==
  \A b \in DOMAIN Blocks : \A x \in Range(Blocks[b]) :
    ~setting.callsFail /\ (Ahead(RT, b) \/ Ahead(HIST, b))
      ~> \E y \in Ids : Txs[y].hash = Txs[x].hash /\ handled[y] > 0

(* Once the history is done nothing before the real time scanner is        *)
(* missing (multigateway.h:69).                                            *)
HistoryComplete ==
  Historical_done /\ setting.histstart # 0 =>
    \A b \in setting.histstart..(scan[RT].block - 1) :
      \A x \in Range(Blocks[b]) : Txs[x].hash \in guids
=============================================================================
