-------------------------- MODULE BlockScanProofs --------------------------
(* For every chain, every set of handlers and every circumstance: no       *)
(* transaction is handed out twice.                                        *)
EXTENDS BlockScan, TLAPS

Threads == {RT, HIST}
Same(x, y) == Txs[x].hash = Txs[y].hash

(* What HandledOnce rests on: a hash is claimed before its transaction is  *)
(* handed out, by one scanner, and never given back.                       *)
Claims ==
  /\ \A x \in Ids : handled[x] > 0 => Txs[x].hash \in guids
  /\ \A t \in Threads : Busy(t) =>
       /\ Txs[scan[t].tx].hash \in guids
       /\ \A y \in Ids : Same(scan[t].tx, y) => handled[y] = 0
  /\ \A t, u \in Threads :
       t # u /\ Busy(t) /\ Busy(u) => ~Same(scan[t].tx, scan[u].tx)

Standing ==
  [at : Places, block : Heights, lastblock : Heights, nextblock : Heights,
   terminationblock : Heights, txs : Seq(Ids), tx : Ids \cup {"none"},
   reg : 0..(Width - 1)]

IInv == TypeOK /\ Claims /\ HandledOnce

(* A scanner's record changes as a whole.                                  *)
LEMMA Moved ==
  ASSUME NEW t \in Threads, scan \in [Threads -> Standing], NEW r \in Standing,
         scan' = [scan EXCEPT ![t] = r]
  PROVE  /\ scan' \in [Threads -> Standing] /\ scan'[t] = r
         /\ \A u \in Threads : u # t => scan'[u] = scan[u]
OBVIOUS

LEMMA Went ==
  ASSUME NEW t \in Threads, scan \in [Threads -> Standing], NEW p \in Places, Go(t, p)
  PROVE  /\ scan' \in [Threads -> Standing]
         /\ scan'[t].at = p /\ scan'[t].tx = scan[t].tx /\ scan'[t].txs = scan[t].txs
         /\ \A u \in Threads : u # t => scan'[u] = scan[u]
<1> DEFINE r == [scan[t] EXCEPT !.at = p]
<1>1. r \in Standing /\ r.at = p /\ r.tx = scan[t].tx /\ r.txs = scan[t].txs
  BY DEF Standing
<1>2. scan' = [scan EXCEPT ![t] = r]
  BY DEF Go
<1> HIDE DEF r
<1> QED BY <1>1, <1>2, Moved

(* A step of a scanner that claims nothing and hands nothing out leaves    *)
(* the invariant as it is (ReadBalance, EndBlock, NextBlock and others).   *)
LEMMA QuietStep ==
  ASSUME IInv, TypeOK', UNCHANGED <<guids, handled>>,
         \A t \in Threads : Busy(t)' => Busy(t) /\ scan'[t].tx = scan[t].tx
  PROVE  IInv'
<1>1. HandledOnce'
  BY DEF IInv, HandledOnce
<1>2. Claims'
  <2>1. \A x \in Ids : handled'[x] > 0 => Txs[x].hash \in guids'
    BY DEF IInv, Claims
  <2>2. ASSUME NEW t \in Threads, Busy(t)'
        PROVE  /\ Txs[scan'[t].tx].hash \in guids'
               /\ \A y \in Ids : Same(scan'[t].tx, y) => handled'[y] = 0
    BY <2>2 DEF IInv, Claims
  <2>3. ASSUME NEW t \in Threads, NEW u \in Threads, t # u, Busy(t)', Busy(u)'
        PROVE  ~Same(scan'[t].tx, scan'[u].tx)
    BY <2>3 DEF IInv, Claims
  <2> QED BY <2>1, <2>2, <2>3 DEF Claims, Same
<1> QED BY <1>1, <1>2 DEF IInv

-----------------------------------------------------------------------------
LEMMA InitIInv == Init => IInv
<1> SUFFICES ASSUME Init PROVE IInv
  OBVIOUS
<1>1. TypeOK
  <2>1. FirstTop \in Heights /\ 0 \in Heights
    BY BlockScanAssumption DEF Heights
  <2>2. 0 \in 0..(Width - 1) /\ <<>> \in Seq(Ids)
    BY BlockScanAssumption
  <2>3. scan \in [{RT, HIST} -> Standing]
    BY <2>1, <2>2 DEF Init, Idle, Standing, Places
  <2>4. \A t \in {RT, HIST} : ~Busy(t)
    BY DEF Init, Idle, Busy, RT, HIST
  <2>5. quantities \in [Accts -> [Assets -> 0..(Width - 1)]]
    BY <2>2 DEF Init
  <2>6. setting \in Settings /\ top \in Heights /\ guids \subseteq Hashes
        /\ handled \in [Ids -> Nat]
    BY <2>1 DEF Init
  <2> QED BY <2>3, <2>4, <2>5, <2>6 DEF TypeOK, Standing
<1>2. Claims /\ HandledOnce
  BY DEF Init, Idle, Claims, HandledOnce, Busy, Threads, RT, HIST
<1> QED BY <1>1, <1>2 DEF IInv

(* Both sides of a transaction at hand have an account.                    *)
LEMMA PartyKnown ==
  ASSUME IInv, NEW t \in Threads, Busy(t)
  PROVE  Party(t) \in Accts /\ Txs[scan[t].tx].asset \in Assets
<1>1. scan[t].tx \in Ids
  BY DEF IInv, TypeOK, Threads
<1> QED BY <1>1 DEF Party, Payer, Payee, Accts, Assets

(* The main thread's registration, before it scans.                        *)
LEMMA Starting == IInv /\ (CallInit \/ EnterTable \/ StartLoops) => IInv'
<1> SUFFICES ASSUME IInv, CallInit \/ EnterTable \/ StartLoops PROVE IInv'
  OBVIOUS
<1>0. scan \in [Threads -> Standing]
  BY DEF IInv, TypeOK, Standing, Threads
<1>1. /\ scan' \in [Threads -> Standing]
      /\ \A t \in Threads : Busy(t)' => Busy(t) /\ scan'[t].tx = scan[t].tx
  <2>1. CASE CallInit \/ EnterTable
    <3>1. PICK p \in {"init", "register"} : Go(RT, p)
      BY <2>1 DEF CallInit, EnterTable
    <3> QED BY <1>0, <3>1, Went DEF Busy, Threads, Places
  <2>2. CASE StartLoops
    <3>1. PICK p \in {"start", "off"} :
            scan' = [scan EXCEPT ![RT].at = "start", ![HIST].at = p]
      BY <2>2 DEF StartLoops
    <3>2. scan'[RT] = [scan[RT] EXCEPT !.at = "start"]
          /\ scan'[HIST] = [scan[HIST] EXCEPT !.at = p]
      BY <1>0, <3>1 DEF RT, HIST, Threads
    <3>3. scan' \in [Threads -> Standing]
      <4>1. DOMAIN scan' = Threads /\ scan' = [t \in Threads |-> scan'[t]]
        BY <1>0, <3>1 DEF Threads
      <4>2. scan'[RT] \in Standing /\ scan'[HIST] \in Standing
        BY <1>0, <3>2 DEF Standing, Places, Threads
      <4> QED BY <4>1, <4>2 DEF Threads
    <3>4. \A t \in Threads : ~Busy(t)'
      BY <1>0, <3>2 DEF Busy, Threads, Standing
    <3> QED BY <3>3, <3>4
  <2> QED BY <2>1, <2>2
<1>2. UNCHANGED <<setting, top, guids, quantities, handled>>
  BY DEF CallInit, EnterTable, StartLoops, books
<1>3. TypeOK'
  BY <1>1, <1>2 DEF IInv, TypeOK, Standing, Threads, Busy
<1> QED BY <1>1, <1>2, <1>3, QuietStep

(* The steps of NXTloop that claim nothing and hand nothing out.           *)
LEMMA Quiet ==
  ASSUME IInv, NEW t \in Threads,
         Begin(t) \/ GetBlock(t) \/ ReadBalance(t) \/ WriteBalance(t) \/ EndBlock(t)
  PROVE  IInv'
<1>0. scan \in [Threads -> Standing] /\ top \in Heights /\ setting \in Settings
      /\ scan[t] \in Standing
  BY DEF IInv, TypeOK, Standing, Threads
<1>1. /\ scan' \in [Threads -> Standing]
      /\ \A u \in Threads : Busy(u)' => Busy(u) /\ scan'[u].tx = scan[u].tx
  <2>1. CASE Begin(t)
    <3>1. setting.histstart \in Heights
      BY <1>0, BlockScanAssumption DEF Heights
    <3>2. PICK n \in Heights, m \in Heights :
            scan' = [scan EXCEPT ![t] = [scan[t] EXCEPT !.at = "loop", !.nextblock = n,
                                                        !.terminationblock = m]]
      <4>1. CASE t = HIST
        BY <2>1, <3>1, <1>0, <4>1 DEF Begin
      <4>2. CASE t # HIST
        <5>1. [scan[t] EXCEPT !.at = "loop", !.nextblock = top] =
                [scan[t] EXCEPT !.at = "loop", !.nextblock = top,
                                !.terminationblock = scan[t].terminationblock]
          BY <1>0 DEF Standing
        <5> QED BY <2>1, <1>0, <4>2, <5>1 DEF Begin, Standing
      <4> QED BY <4>1, <4>2
    <3> DEFINE r == [scan[t] EXCEPT !.at = "loop", !.nextblock = n, !.terminationblock = m]
    <3>3. r \in Standing /\ r.at = "loop"
      BY <1>0, <3>2 DEF Standing, Places
    <3> HIDE DEF r
    <3> QED BY <1>0, <3>2, <3>3, Moved DEF Busy, r
  <2>2. CASE GetBlock(t)
    <3> DEFINE b == scan[t].nextblock
               r(l, n) == [scan[t] EXCEPT !.at = "txs", !.lastblock = scan[t].block,
                                          !.block = b, !.txs = l, !.nextblock = n]
    <3>1. b \in 1..Len(Blocks) /\ b \in Heights /\ scan[t].block \in Heights
      BY <2>2, <1>0 DEF GetBlock, Standing, Heights
    <3>2. \A ok \in BOOLEAN :
            /\ (IF ok THEN Blocks[b] ELSE <<>>) \in Seq(Ids)
            /\ (IF ~ok THEN b ELSE IF b < top THEN b + 1 ELSE 0) \in Heights
      BY <1>0, <3>1, BlockScanAssumption DEF Heights
    <3>3. PICK l \in Seq(Ids), n \in Heights : scan' = [scan EXCEPT ![t] = r(l, n)]
      <4>1. setting.callsFail \in BOOLEAN
        BY <1>0, BlockScanAssumption
      <4>2. PICK ok \in BOOLEAN : scan' = [scan EXCEPT ![t] =
               r(IF ok THEN Blocks[b] ELSE <<>>,
                 IF ~ok THEN b ELSE IF b < top THEN b + 1 ELSE 0)]
        BY <2>2, <4>1 DEF GetBlock
      <4> QED BY <3>2, <4>2
    <3>4. r(l, n) \in Standing /\ r(l, n).at = "txs"
      BY <1>0, <3>1, <3>3 DEF Standing, Places
    <3> HIDE DEF r
    <3> QED BY <1>0, <3>3, <3>4, Moved DEF Busy
  <2>3. CASE ReadBalance(t)
    <3>1. Busy(t) /\ quantities[Party(t)][Txs[scan[t].tx].asset] \in 0..(Width - 1)
      BY <2>3, PartyKnown DEF ReadBalance, At, Busy, IInv, TypeOK
    <3>2. PICK p \in {"debited", "credited"}, q \in 0..(Width - 1) :
            scan' = [scan EXCEPT ![t].at = p, ![t].reg = q]
      BY <2>3, <3>1 DEF ReadBalance
    <3> DEFINE r == [scan[t] EXCEPT !.at = p, !.reg = q]
    <3>3. scan' = [scan EXCEPT ![t] = r]
      BY <1>0, <3>2
    <3>4. r \in Standing /\ r.tx = scan[t].tx
      BY <1>0, <3>2 DEF Standing, Places
    <3> HIDE DEF r
    <3> QED BY <1>0, <3>1, <3>3, <3>4, Moved DEF Busy
  <2>4. CASE WriteBalance(t)
    <3>1. PICK p \in {"credit", "event"} : Go(t, p)
      BY <2>4 DEF WriteBalance
    <3>2. Busy(t)
      BY <2>4 DEF WriteBalance, At, Busy
    <3> QED BY <1>0, <3>1, <3>2, Went DEF Busy, Places
  <2>5. CASE EndBlock(t)
    <3>1. PICK p \in {"wait", "drain", "loop"} : Go(t, p)
      BY <2>5 DEF EndBlock
    <3> QED BY <1>0, <3>1, Went DEF Busy, Places
  <2> QED BY <2>1, <2>2, <2>3, <2>4, <2>5
<1>2. UNCHANGED <<setting, top, guids, handled>>
  BY DEF Begin, GetBlock, ReadBalance, WriteBalance, EndBlock
<1>3. quantities' \in [Accts -> [Assets -> 0..(Width - 1)]]
  <2>1. CASE WriteBalance(t)
    <3>1. Busy(t) /\ Party(t) \in Accts /\ Txs[scan[t].tx].asset \in Assets
          /\ Txs[scan[t].tx].qty \in Nat
      BY <2>1, PartyKnown, BlockScanAssumption
      DEF WriteBalance, At, Busy, IInv, TypeOK, Threads
    <3>2. Amount(t) \in Int /\ scan[t].reg \in Int
      BY <1>0, <3>1 DEF Amount, Standing
    <3>3. \A n \in Int : n % Width \in 0..(Width - 1)
      BY BlockScanAssumption
    <3>4. Balance(t) \in 0..(Width - 1)
      BY <3>2, <3>3 DEF Balance
    <3> QED BY <2>1, <3>1, <3>4 DEF WriteBalance, IInv, TypeOK
  <2>2. CASE ~WriteBalance(t)
    BY <2>2 DEF IInv, TypeOK, Begin, GetBlock, ReadBalance, EndBlock, books
  <2> QED BY <2>1, <2>2
<1>4. TypeOK'
  BY <1>1, <1>2, <1>3 DEF IInv, TypeOK, Threads, Busy, Standing
<1> QED BY <1>1, <1>2, <1>4, QuietStep

(* A transaction is claimed: its hash was free, so nobody has claimed or   *)
(* handed out one of the same hash.                                        *)
LEMMA Claiming == ASSUME IInv, NEW t \in Threads, GetTransaction(t) PROVE IInv'
<1> DEFINE x == Head(scan[t].txs)
<1>0. /\ scan \in [Threads -> Standing] /\ scan[t] \in Standing
      /\ x \in Ids /\ Tail(scan[t].txs) \in Seq(Ids)
  BY DEF IInv, TypeOK, Standing, Threads, GetTransaction
<1>1. UNCHANGED <<setting, top, quantities, handled>>
  BY DEF GetTransaction, books
<1> HIDE DEF x
<1>2. CASE guids' = guids /\ scan' = [scan EXCEPT ![t].txs = Tail(@)]
  <2> DEFINE r == [scan[t] EXCEPT !.txs = Tail(scan[t].txs)]
  <2>1. r \in Standing /\ r.at = scan[t].at /\ r.tx = scan[t].tx
    BY <1>0 DEF Standing
  <2>2. scan' = [scan EXCEPT ![t] = r]
    BY <1>0, <1>2 DEF Standing
  <2> HIDE DEF r
  <2>3. /\ scan' \in [Threads -> Standing]
        /\ \A u \in Threads : Busy(u)' => Busy(u) /\ scan'[u].tx = scan[u].tx
    BY <1>0, <2>1, <2>2, Moved DEF Busy
  <2>4. TypeOK'
    BY <1>1, <1>2, <2>3 DEF IInv, TypeOK, Threads, Busy, Standing
  <2> QED BY <1>1, <1>2, <2>3, <2>4, QuietStep
<1>3. CASE /\ ~Taken(x) /\ guids' = guids \cup {Txs[x].hash}
           /\ scan' = [scan EXCEPT ![t] =
                [@ EXCEPT !.at = IF Moves(x) THEN "debit" ELSE "event",
                          !.txs = Tail(scan[t].txs), !.tx = x]]
  <2> DEFINE r == [scan[t] EXCEPT !.at = IF Moves(x) THEN "debit" ELSE "event",
                                  !.txs = Tail(scan[t].txs), !.tx = x]
  <2>1. r \in Standing /\ r.tx = x
    BY <1>0 DEF Standing, Places
  <2>2. scan' = [scan EXCEPT ![t] = r]
    BY <1>0, <1>3
  <2> HIDE DEF r
  <2>3. /\ scan' \in [Threads -> Standing] /\ scan'[t].tx = x
        /\ \A u \in Threads : u # t => scan'[u] = scan[u]
    BY <1>0, <2>1, <2>2, Moved
  <2>4. TypeOK'
    <3>1. guids' \subseteq Hashes
      BY <1>0, <1>3 DEF IInv, TypeOK, Hashes
    <3>2. \A u \in Threads : Busy(u)' => scan'[u].tx \in Ids
      BY <1>0, <2>3 DEF IInv, TypeOK, Threads, Busy
    <3> QED BY <1>1, <2>3, <3>1, <3>2 DEF IInv, TypeOK, Threads, Standing
  <2>5. \A y \in Ids : Same(x, y) => handled[y] = 0
    <3>1. \A y \in Ids : handled[y] > 0 => Txs[y].hash \in guids
      BY DEF IInv, Claims
    <3> QED BY <1>3, <3>1 DEF Same, Taken, IInv, TypeOK
  <2>6. \A u \in Threads : u # t /\ Busy(u) => ~Same(x, scan[u].tx)
    BY <1>3 DEF IInv, Claims, Same, Taken
  <2>7. Claims'
    <3>1. \A y \in Ids : handled'[y] > 0 => Txs[y].hash \in guids'
      BY <1>1, <1>3 DEF IInv, Claims
    <3>2. ASSUME NEW u \in Threads, Busy(u)'
          PROVE  /\ Txs[scan'[u].tx].hash \in guids'
                 /\ \A y \in Ids : Same(scan'[u].tx, y) => handled'[y] = 0
      BY <1>1, <1>3, <2>3, <2>5, <3>2 DEF IInv, Claims, Busy
    <3>3. ASSUME NEW u \in Threads, NEW v \in Threads, u # v, Busy(u)', Busy(v)'
          PROVE  ~Same(scan'[u].tx, scan'[v].tx)
      BY <2>3, <2>6, <3>3 DEF IInv, Claims, Busy, Same
    <3> QED BY <3>1, <3>2, <3>3 DEF Claims, Same
  <2>8. HandledOnce'
    BY <1>1 DEF IInv, HandledOnce
  <2> QED BY <2>4, <2>7, <2>8 DEF IInv
<1> QED BY <1>2, <1>3 DEF GetTransaction, x

(* A transaction is handed out: no other of its hash ever was, and the     *)
(* other scanner's is of another hash.                                     *)
LEMMA Handing == ASSUME IInv, NEW t \in Threads, ProcessEvent(t) PROVE IInv'
<1> DEFINE x == scan[t].tx
<1>0. scan \in [Threads -> Standing] /\ Busy(t) /\ x \in Ids /\ handled \in [Ids -> Nat]
  BY DEF IInv, TypeOK, Standing, Threads, ProcessEvent, At, Busy
<1>1. UNCHANGED <<setting, top, guids, quantities>>
      /\ handled' = [handled EXCEPT ![x] = @ + 1]
  BY DEF ProcessEvent, books
<1>2. /\ scan' \in [Threads -> Standing] /\ ~Busy(t)'
      /\ \A u \in Threads : u # t => scan'[u] = scan[u]
  BY <1>0, Went DEF ProcessEvent, Places, Busy
<1>3. TypeOK'
  <2>1. handled' \in [Ids -> Nat]
    BY <1>0, <1>1
  <2>2. \A u \in Threads : Busy(u)' => scan'[u].tx \in Ids
    BY <1>2 DEF IInv, TypeOK, Threads, Busy
  <2> QED BY <1>1, <1>2, <2>1, <2>2 DEF IInv, TypeOK, Threads, Standing
<1>4. /\ Txs[x].hash \in guids /\ handled'[x] = 1
      /\ \A y \in Ids : Same(x, y) /\ y # x => handled'[y] = 0
      /\ \A y \in Ids : y # x => handled'[y] = handled[y]
  BY <1>0, <1>1 DEF IInv, Claims, Same
<1> HIDE DEF x
<1>5. Claims'
  <2>1. \A y \in Ids : handled'[y] > 0 => Txs[y].hash \in guids'
    BY <1>0, <1>1, <1>4 DEF IInv, Claims
  <2>2. ASSUME NEW u \in Threads, Busy(u)'
        PROVE  /\ Txs[scan'[u].tx].hash \in guids'
               /\ \A y \in Ids : Same(scan'[u].tx, y) => handled'[y] = 0
    <3>1. u # t /\ scan'[u] = scan[u] /\ Busy(u)
      BY <1>2, <2>2 DEF Busy
    <3>2. ~Same(scan[u].tx, x)
      BY <1>0, <3>1 DEF IInv, Claims, Same, x
    <3> QED BY <1>1, <1>4, <3>1, <3>2 DEF IInv, Claims, Same
  <2>3. ASSUME NEW u \in Threads, NEW v \in Threads, u # v, Busy(u)', Busy(v)'
        PROVE  ~Same(scan'[u].tx, scan'[v].tx)
    BY <1>2, <2>3 DEF Threads
  <2> QED BY <2>1, <2>2, <2>3 DEF Claims, Same
<1>6. HandledOnce'
  <2>1. \A y \in Ids : handled'[y] <= 1
    BY <1>4 DEF IInv, HandledOnce
  <2>2. ASSUME NEW y \in Ids, NEW z \in Ids, Same(y, z), handled'[y] > 0, handled'[z] > 0
        PROVE  y = z
    BY <1>0, <1>4, <2>2 DEF IInv, HandledOnce, Same
  <2> QED BY <2>1, <2>2 DEF HandledOnce, Same
<1> QED BY <1>3, <1>5, <1>6 DEF IInv

LEMMA Preserved == IInv /\ [Next]_vars => IInv'
<1> SUFFICES ASSUME IInv, [Next]_vars PROVE IInv'
  OBVIOUS
<1>1. CASE CallInit \/ EnterTable \/ StartLoops
  BY <1>1, Starting
<1>2. CASE NXTloop(RT) \/ NXTloop(HIST)
  <2>1. PICK t \in Threads : NXTloop(t)
    BY <1>2 DEF Threads
  <2>2. CASE GetTransaction(t)
    BY <2>2, Claiming
  <2>3. CASE ProcessEvent(t)
    BY <2>3, Handing
  <2>4. CASE Begin(t) \/ GetBlock(t) \/ ReadBalance(t) \/ WriteBalance(t) \/ EndBlock(t)
    BY <2>4, Quiet
  <2> QED BY <2>1, <2>2, <2>3, <2>4 DEF NXTloop
<1>3. CASE NextBlock
  <2> DEFINE r == [scan[RT] EXCEPT !.at = "loop", !.nextblock = scan[RT].block + 1]
  <2>0. scan \in [Threads -> Standing] /\ RT \in Threads /\ scan[RT] \in Standing
        /\ top \in Heights
    BY DEF IInv, TypeOK, Standing, Threads
  <2>1. r \in Standing /\ r.at = "loop"
    <3>1. scan[RT].block + 1 \in Heights
      BY <1>3, <2>0 DEF NextBlock, Standing, Heights
    <3> QED BY <2>0, <3>1 DEF Standing, Places
  <2>2. scan' = [scan EXCEPT ![RT] = r]
    BY <1>3, <2>0 DEF NextBlock
  <2> HIDE DEF r
  <2>3. /\ scan' \in [Threads -> Standing]
        /\ \A u \in Threads : Busy(u)' => Busy(u) /\ scan'[u].tx = scan[u].tx
    BY <2>0, <2>1, <2>2, Moved DEF Busy
  <2>4. UNCHANGED <<setting, top, guids, handled, quantities>>
    BY <1>3 DEF NextBlock, books
  <2>5. TypeOK'
    BY <2>3, <2>4 DEF IInv, TypeOK, Threads, Busy, Standing
  <2> QED BY <2>3, <2>4, <2>5, QuietStep
<1>4. CASE EndHistory
  <2>0. scan \in [Threads -> Standing] /\ HIST \in Threads
    BY DEF IInv, TypeOK, Standing, Threads
  <2>1. Go(HIST, "end") /\ UNCHANGED <<setting, top, guids, handled, quantities>>
    BY <1>4 DEF EndHistory, books
  <2>2. /\ scan' \in [Threads -> Standing]
        /\ \A u \in Threads : Busy(u)' => Busy(u) /\ scan'[u].tx = scan[u].tx
    BY <2>0, <2>1, Went DEF Busy, Places
  <2>3. TypeOK'
    BY <2>1, <2>2 DEF IInv, TypeOK, Threads, Busy, Standing
  <2> QED BY <2>1, <2>2, <2>3, QuietStep
<1>5. CASE IdleTime \/ NewBlock \/ UNCHANGED vars
  <2>1. UNCHANGED <<setting, scan, guids, handled, quantities>> /\ top' \in Heights
    <3>1. \A c \in Settings : c.maxTop \in 0..Len(Blocks)
      BY BlockScanAssumption
    <3> QED BY <1>5, <3>1 DEF IdleTime, NewBlock, vars, books, IInv, TypeOK, Heights
  <2>2. TypeOK'
    BY <2>1 DEF IInv, TypeOK, Busy
  <2> QED BY <2>1, <2>2, QuietStep DEF Busy
<1> QED BY <1>1, <1>2, <1>3, <1>4, <1>5 DEF Next, Main, History

-----------------------------------------------------------------------------
(* No transaction is handed to the handlers twice, and of two that share   *)
(* a hash at most one is (process_NXTtransaction and NXTguid_tablep).      *)
THEOREM EachHandledOnce == Spec => []HandledOnce
<1>1. IInv => HandledOnce
  BY DEF IInv
<1> QED BY <1>1, InitIInv, Preserved, PTL DEF Spec

-----------------------------------------------------------------------------
(* What HandlersReady rests on: the handlers in the table have returned    *)
(* from INIT, and only they are ever called; while the main thread is      *)
(* between INIT and the table there is one more.                           *)
Ready ==
  /\ registered \in Nat
  /\ inited = 1..(IF At(RT, "init") THEN registered + 1 ELSE registered)
  /\ called \subseteq 1..registered

LEMMA InitReady == Init => Ready
BY DEF Init, Ready, At, Idle, RT, HIST

(* A step that leaves the table alone, and calls whom it finds there.      *)
LEMMA CallsTheTable ==
  ASSUME Ready, UNCHANGED <<registered, inited>>, At(RT, "init")' <=> At(RT, "init"),
         called' \subseteq called \cup 1..registered
  PROVE  Ready'
BY DEF Ready

(* register_NXT_handler.                                                   *)
LEMMA Registering == IInv /\ Ready /\ (CallInit \/ EnterTable \/ StartLoops) => Ready'
<1> SUFFICES ASSUME IInv, Ready, CallInit \/ EnterTable \/ StartLoops PROVE Ready'
  OBVIOUS
<1>0. scan \in [Threads -> Standing] /\ RT \in Threads
  BY DEF IInv, TypeOK, Standing, Threads
<1>1. CASE CallInit
  <2>1. At(RT, "register") /\ At(RT, "init")'
    BY <1>0, <1>1, Went DEF CallInit, At, Places
  <2>2. inited = 1..registered /\ inited' = inited \cup {registered + 1}
    BY <1>1, <2>1 DEF CallInit, Ready, At
  <2> QED BY <1>1, <2>1, <2>2 DEF CallInit, Ready
<1>2. CASE EnterTable
  <2>1. At(RT, "init") /\ ~At(RT, "init")'
    BY <1>0, <1>2, Went DEF EnterTable, At, Places
  <2>2. UNCHANGED <<inited, called>> /\ registered' = registered + 1
    BY <1>2 DEF EnterTable
  <2> QED BY <2>1, <2>2 DEF Ready
<1>3. CASE StartLoops
  <2>1. At(RT, "register")
    BY <1>3 DEF StartLoops
  <2>2. scan'[RT].at = "start"
    BY <1>0, <1>3 DEF StartLoops, RT, HIST, Threads, Standing
  <2> QED BY <1>3, <2>1, <2>2, CallsTheTable DEF StartLoops, table, At
<1> QED BY <1>1, <1>2, <1>3

(* A step of NXTloop is taken by a scanner that is past the registration.  *)
LEMMA Scanning == ASSUME IInv, Ready, NEW t \in Threads, NXTloop(t) PROVE Ready'
<1>0. scan \in [Threads -> Standing] /\ RT \in Threads
  BY DEF IInv, TypeOK, Standing, Threads
<1>1. scan[t].at # "init" /\ scan'[t].at # "init"
      /\ (t # RT => scan'[RT] = scan[RT])
  <2>1. CASE Begin(t)
    BY <1>0, <2>1 DEF Begin, At, Threads, Standing
  <2>2. CASE GetBlock(t)
    BY <1>0, <2>2 DEF GetBlock, At, Threads, Standing
  <2>3. CASE GetTransaction(t)
    BY <1>0, <2>3 DEF GetTransaction, At, Threads, Standing
  <2>4. CASE ReadBalance(t)
    BY <1>0, <2>4 DEF ReadBalance, At, Threads, Standing
  <2>5. CASE WriteBalance(t) \/ ProcessEvent(t) \/ EndBlock(t)
    <3>1. PICK p \in Places \ {"init"} : Go(t, p)
      BY <2>5 DEF WriteBalance, ProcessEvent, EndBlock, Places
    <3>2. ~At(t, "init")
      BY <2>5 DEF WriteBalance, ProcessEvent, EndBlock, At
    <3> QED BY <1>0, <3>1, <3>2, Went DEF At
  <2> QED BY <2>1, <2>2, <2>3, <2>4, <2>5 DEF NXTloop
<1>2. UNCHANGED <<registered, inited>> /\ called' \subseteq called \cup 1..registered
  BY DEF NXTloop, Begin, GetBlock, GetTransaction, ReadBalance, WriteBalance,
         ProcessEvent, EndBlock, Takers, Everybody, table
<1> QED BY <1>1, <1>2, CallsTheTable DEF At

LEMMA StaysReady == IInv /\ Ready /\ [Next]_vars => Ready'
<1> SUFFICES ASSUME IInv, Ready, [Next]_vars PROVE Ready'
  OBVIOUS
<1>0. scan \in [Threads -> Standing] /\ RT \in Threads /\ HIST \in Threads
  BY DEF IInv, TypeOK, Standing, Threads
<1>1. CASE CallInit \/ EnterTable \/ StartLoops
  BY <1>1, Registering
<1>2. CASE NXTloop(RT) \/ NXTloop(HIST)
  BY <1>0, <1>2, Scanning
<1>3. CASE NextBlock
  <2>1. ~At(RT, "init") /\ ~At(RT, "init")'
    BY <1>0, <1>3 DEF NextBlock, At, Standing
  <2> QED BY <1>3, <2>1, CallsTheTable DEF NextBlock, table
<1>4. CASE EndHistory
  <2>1. scan'[RT] = scan[RT]
    BY <1>0, <1>4, Went DEF EndHistory, Places, RT, HIST
  <2> QED BY <1>4, <2>1, CallsTheTable DEF EndHistory, table, At
<1>5. CASE IdleTime \/ NewBlock \/ UNCHANGED vars
  BY <1>5, CallsTheTable DEF IdleTime, NewBlock, vars, table, Everybody, At
<1> QED BY <1>1, <1>2, <1>3, <1>4, <1>5 DEF Next, Main, History

(* No thread calls a handler before it has returned from INIT              *)
(* (register_NXT_handler, call_handlers, process_NXT_event).               *)
THEOREM ReadyBeforeCalled == Spec => []HandlersReady
<1>1. Ready => HandlersReady
  BY DEF Ready, HandlersReady
<1> QED BY <1>1, InitIInv, Preserved, InitReady, StaysReady, PTL DEF Spec
=============================================================================
