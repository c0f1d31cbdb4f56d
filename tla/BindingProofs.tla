--------------------------- MODULE BindingProofs ---------------------------
(***************************************************************************)
(* Proofs about the making and binding of deposit addresses: that the msigs *)
(* gateways make and nodes hold are sound, for every number of gateways,   *)
(* every set of nodes and accounts, every failure and every order of the   *)
(* messages, as long as no address is announced while a node still reads   *)
(* its history (setting.quiet: without it the two scanners of a node write *)
(* into one slot, and BindingTypeOK is false).                             *)
(***************************************************************************)
EXTENDS Binding, FiniteSetTheorems, WellFoundedInduction, TLAPS

-----------------------------------------------------------------------------
(* What holds of the gateways in every state.                              *)

(* Answer r is one to the question that job j has asked. *)
RightAnswer(j, r) ==
  IF Len(j.addrs) = Len(j.keys)
  THEN r.func = "GETCOINADDR" /\ (r.flag > 0 => r.addr \in Given(Len(j.keys) + 1, j.acct))
  ELSE r.func = "GETPUBKEY" /\ (r.flag > 0 => r.key \in {KeyOf(Last(j.addrs)), NotAKey})

(* What a job has collected is what the gateways gave out, in their order; *)
(* the text of a validateaddress that cannot be parsed may be in a key's   *)
(* place until the daemon refuses it.                                      *)
Collected(j) ==
  /\ Len(j.keys) <= NumGateways /\ Len(j.addrs) <= NumGateways
  /\ Len(j.addrs) \in {Len(j.keys), Len(j.keys) + 1}
  /\ \A i \in 1..Len(j.addrs) : j.addrs[i] \in Given(i, j.acct)
  /\ \A i \in 1..Len(j.keys) : j.keys[i] \in {KeyOf(j.addrs[i]), NotAKey}

JobFine(j) ==
  /\ Collected(j)
  /\ IF j.at = "idle" THEN j = Idle ELSE j.acct \in Accts
  /\ j.at \in {"wait", "answered"} => Len(j.keys) < NumGateways
  /\ j.at = "answered" => RightAnswer(j, j.reply)
  /\ j.at = "made" => /\ Len(j.keys) = NumGateways
                      /\ \A i \in Gateways : j.keys[i] # NotAKey

Mine(g, c) == c.from = g /\ c.open

(* OneQuestion, said of each request by itself. *)
OneRequest(g) ==
  /\ \A d \in Gateways : \A i \in 1..Len(server[d]) : Mine(g, server[d][i]) =>
       /\ job[g].at = "wait" /\ d = Turn(g) /\ server[d][i].req = Question(g)
       /\ \A k \in 1..Len(server[d]) : Mine(g, server[d][k]) => k = i
  /\ job[g].at = "wait" =>
       \E i \in 1..Len(server[Turn(g)]) : Mine(g, server[Turn(g)][i])

GenInv == GenTypeOK /\ \A g \in Gateways : JobFine(job[g]) /\ OneRequest(g)

-----------------------------------------------------------------------------
(* What holds of the chain and the nodes.                                  *)

Msigs ==
  [acct : Accts, multisigaddr : {"multisig"} \X Seq(Keys), addrs : Seq(Addresses),
   keys : Seq(Keys)]
Messages == [sender : Peers, msig : Msigs]
Arrays == [slots : Seq(Msigs), num : Nat]
Scanners == [at : {"read", "add", "count"}, next : Nat \ {0}, last : Int]

ChainFine ==
  /\ chain \in Seq(Messages)
  /\ \A i \in 1..Len(chain) : ~Foreign(chain[i]) => Genuine(chain[i].msig)

(* A node's two scanners: the history ends before what the real time scan  *)
(* reads, and while it is read nothing that the other could bind arrives.  *)
ScannersFine(n) ==
  LET hist == reader[n][HIST]
  IN  /\ reader[n][RT].last = 0 /\ hist.last # 0 /\ hist.last <= Len(chain)
      /\ hist.last < reader[n][RT].next
      /\ \A t \in {RT, HIST} :
           /\ reader[n][t].next <= Len(chain) + 1
           /\ reader[n][t].at # "read" =>
                Reading(reader[n][t]) /\ ~Foreign(chain[reader[n][t].next])
      /\ InHistory(n) => \A i \in 1..Len(chain) : i > hist.last => Foreign(chain[i])

Full(l) == l.num = Len(l.slots)
HalfAdded(l, m) == Len(l.slots) = l.num + 1 /\ l.slots[l.num + 1] = m

(* Only the msig that a thread is adding is in a slot and not yet counted; *)
(* it is on neither list.                                                  *)
AddingFine(n) ==
  /\ \A t \in {RT, HIST} : reader[n][t].at # "read" =>
       \A i \in 1..lists[n].coin.num : lists[n].coin.slots[i] # Message(n, t).msig
  /\ \A t \in {RT, HIST} : reader[n][t].at = "count" =>
       LET m == Message(n, t).msig
       IN  /\ HalfAdded(lists[n].coin, m) /\ HalfAdded(lists[n].acct[m.acct], m)
           /\ \A a \in Accts \ {m.acct} : Full(lists[n].acct[a])
  /\ (\A t \in {RT, HIST} : reader[n][t].at # "count") =>
       Full(lists[n].coin) /\ \A a \in Accts : Full(lists[n].acct[a])

(* The two lists hold the same msigs, each once; all of them are genuine. *)
SameMsigs(coin, own) ==
  /\ \A i \in 1..coin.num :
       /\ \E k \in 1..own[coin.slots[i].acct].num :
            own[coin.slots[i].acct].slots[k] = coin.slots[i]
       /\ \A k \in 1..coin.num : coin.slots[k] = coin.slots[i] => k = i
  /\ \A a \in Accts : \A k \in 1..own[a].num :
       /\ own[a].slots[k].acct = a
       /\ \E i \in 1..coin.num : coin.slots[i] = own[a].slots[k]

AllGenuine(n) == \A i \in 1..lists[n].coin.num : Genuine(lists[n].coin.slots[i])

ContentsFine(n) == AllGenuine(n) /\ SameMsigs(lists[n].coin, lists[n].acct)

NodesFine ==
  /\ lists \in [Nodes -> [acct : [Accts -> Arrays], coin : Arrays]]
  /\ reader \in [Nodes -> [{RT, HIST} -> Scanners]]
  /\ restarts \in 0..setting.restarts
  /\ \A n \in Nodes : ScannersFine(n) /\ AddingFine(n) /\ ContentsFine(n)

BindInv == GenInv /\ ChainFine /\ NodesFine
-----------------------------------------------------------------------------
(* Addresses, keys, questions and answers.                                 *)

LEMMA Peer == 0 \notin Gateways /\ Gateways \subseteq Nat /\ Gateways \subseteq Peers
  BY AddressGenAssumption DEF Gateways, Peers

(* An address names its gateway, account and version, and a key its address. *)
LEMMA Names ==
  /\ \A g, a, v, h, b, w : Address(g, a, v) = Address(h, b, w) => g = h /\ a = b /\ v = w
  /\ \A x, y : KeyOf(x) = KeyOf(y) => x = y
  /\ \A x : KeyOf(x) # NotAKey /\ KeyOf(x) # NoKey
  /\ NotAKey # NoKey
  BY DEF Address, KeyOf, NotAKey, NoKey

LEMMA WellFormed ==
  /\ NoAddr \in Addresses /\ NotAKey \in Keys /\ NoKey \in Keys
  /\ \A g \in Peers, a \in Accts, v \in Nat : Address(g, a, v) \in Addresses
  /\ \A x \in Addresses : KeyOf(x) \in Keys
  <1>1. NoAddr \in Addresses /\ NotAKey \in Keys /\ NoKey \in Keys
    BY DEF Addresses, Keys
  <1>2. \A g \in Peers, a \in Accts, v \in Nat : Address(g, a, v) \in Addresses
    BY DEF Addresses, Address
  <1>3. \A x \in Addresses : KeyOf(x) \in Keys
    BY DEF Keys, KeyOf
  <1> QED BY <1>1, <1>2, <1>3

(* The question of a job is a request, of the kind RightAnswer expects. *)
LEMMA QuestionFine ==
  ASSUME NEW g \in Gateways, job \in [Gateways -> Jobs],
         Len(job[g].addrs) \in {Len(job[g].keys), Len(job[g].keys) + 1}
  PROVE  /\ Question(g) \in Requests
         /\ Len(job[g].addrs) = Len(job[g].keys) =>
              Question(g) = Request("GETCOINADDR", job[g].acct, NoAddr)
         /\ Len(job[g].addrs) # Len(job[g].keys) =>
              /\ Question(g) = Request("GETPUBKEY", NoAcct, Last(job[g].addrs))
              /\ Last(job[g].addrs) = job[g].addrs[Len(job[g].addrs)]
  <1> DEFINE j == job[g]
  <1>1. j \in Jobs /\ j.addrs \in Seq(Addresses) /\ j.keys \in Seq(Keys)
        /\ j.acct \in Accts \cup {NoAcct}
    BY DEF Jobs
  <1>2. Len(j.addrs) \in Nat /\ Len(j.keys) \in Nat
    BY <1>1
  <1>3. Question(g) = IF Len(j.addrs) = Len(j.keys)
                      THEN Request("GETCOINADDR", j.acct, NoAddr)
                      ELSE Request("GETPUBKEY", NoAcct, Last(j.addrs))
    BY <1>2 DEF Question, Turn
  <1>4. Request("GETCOINADDR", j.acct, NoAddr) \in Requests
    BY <1>1, WellFormed DEF Request, Requests
  <1>5. CASE Len(j.addrs) = Len(j.keys)
    BY <1>3, <1>4, <1>5
  <1>6. CASE Len(j.addrs) # Len(j.keys)
    <2>1. Last(j.addrs) = j.addrs[Len(j.addrs)] /\ Last(j.addrs) \in Addresses
      BY <1>1, <1>2, <1>6 DEF Last
    <2>2. Request("GETPUBKEY", NoAcct, Last(j.addrs)) \in Requests
      BY <2>1, WellFormed DEF Request, Requests
    <2> QED BY <1>3, <1>6, <2>1, <2>2
  <1> QED BY <1>5, <1>6

(* What a gateway answers to a question is right. *)
LEMMA AnswersAreRight ==
  ASSUME NEW g \in Gateways, GenTypeOK, JobFine(job[g]), job[g].acct \in Accts,
         Turn(g) <= NumGateways,
         NEW r \in Answers(Turn(g), Question(g))
  PROVE  r \in Requests /\ RightAnswer(job[g], r)
  <1> DEFINE j == job[g]  d == Turn(g)
  <1>1. j \in Jobs /\ Len(j.addrs) \in {Len(j.keys), Len(j.keys) + 1}
        /\ Len(j.keys) \in Nat /\ job \in [Gateways -> Jobs]
    BY DEF GenTypeOK, Jobs
  <1>2. d \in Gateways /\ wallet[d][j.acct] \in Nat \ {0}
    <2>1. d = Len(j.keys) + 1
      BY DEF Turn
    <2>2. d \in Gateways
      BY <1>1, <2>1, AddressGenAssumption DEF Gateways
    <2>3. wallet \in [Gateways -> [Accts -> Nat \ {0}]]
      BY DEF GenTypeOK
    <2> QED BY <2>2, <2>3
  <1>3. CASE Len(j.addrs) = Len(j.keys)
    <2>1. Question(g) = Request("GETCOINADDR", j.acct, NoAddr) /\ Question(g) \in Requests
      BY <1>1, <1>3, QuestionFine
    <2>2. Question(g).func = "GETCOINADDR" /\ Question(g).acct = j.acct
      BY <2>1 DEF Request
    <2>3. PICK x \in GetCoinAddr(d, j.acct) :
            r = [Question(g) EXCEPT !.addr = x, !.flag = IF x = NoAddr THEN -1 ELSE 1]
      BY <2>2 DEF Answers
    <2>4. x = Address(d, j.acct, wallet[d][j.acct]) \/ x = NoAddr
      BY <2>3 DEF GetCoinAddr, Failed
    <2>5. x \in Addresses
      BY <2>4, <1>2, WellFormed, Peer
    <2>6. /\ r \in Requests /\ r.func = "GETCOINADDR" /\ r.addr = x
          /\ r.flag = IF x = NoAddr THEN -1 ELSE 1
      BY <2>1, <2>2, <2>3, <2>5 DEF Requests
    <2>7. r.flag > 0 => x = Address(d, j.acct, wallet[d][j.acct])
      BY <2>4, <2>6
    <2>8. Address(d, j.acct, wallet[d][j.acct]) \in Given(d, j.acct)
      <3>1. wallet[d][j.acct] \in 1..wallet[d][j.acct]
        BY <1>2
      <3> QED BY <3>1 DEF Given
    <2> QED BY <2>6, <2>7, <2>8, <1>3 DEF RightAnswer, Turn
  <1>4. CASE Len(j.addrs) # Len(j.keys)
    <2>1. Question(g) = Request("GETPUBKEY", NoAcct, Last(j.addrs)) /\ Question(g) \in Requests
      BY <1>1, <1>4, QuestionFine
    <2>2. /\ Question(g).func = "GETPUBKEY" /\ Question(g).addr = Last(j.addrs)
          /\ Last(j.addrs) \in Addresses
      <3>1. Question(g).func = "GETPUBKEY" /\ Question(g).addr = Last(j.addrs)
        BY <2>1 DEF Request
      <3> QED BY <3>1, <2>1 DEF Requests
    <2>3. PICK x \in GetPubkey(Last(j.addrs)) :
            r = [Question(g) EXCEPT !.key = x, !.flag = IF x = NoKey THEN -1 ELSE 1]
      BY <2>2 DEF Answers
    <2>4. x = KeyOf(Last(j.addrs)) \/ x = NoKey \/ x = NotAKey
      BY <2>3 DEF GetPubkey, Failed
    <2>5. x \in Keys
      BY <2>2, <2>4, WellFormed
    <2>6. /\ r \in Requests /\ r.func = "GETPUBKEY" /\ r.key = x
          /\ r.flag = IF x = NoKey THEN -1 ELSE 1
      BY <2>1, <2>2, <2>3, <2>5 DEF Requests
    <2> QED BY <2>4, <2>6, <1>4 DEF RightAnswer
  <1> QED BY <1>3, <1>4
-----------------------------------------------------------------------------
(* A job, from question to question.                                       *)

LEMMA IdleFine == Idle \in Jobs /\ JobFine(Idle) /\ Idle.at = "idle"
  <1>1. NoRequest \in Requests
    BY WellFormed DEF NoRequest, Request, Requests
  <1>2. Idle \in Jobs /\ Idle.at = "idle"
    BY <1>1 DEF Idle, Jobs
  <1>3. Idle.addrs = <<>> /\ Idle.keys = <<>>
    BY DEF Idle
  <1>4. Len(<<>>) = 0 /\ 0 <= NumGateways
    BY AddressGenAssumption
  <1>5. Collected(Idle)
    BY <1>3, <1>4 DEF Collected
  <1> QED BY <1>2, <1>5 DEF JobFine

(* What is appended to a sequence comes after what was there. *)
LEMMA AppendIs ==
  ASSUME NEW S, NEW s \in Seq(S), NEW x
  PROVE  /\ Len(s) \in Nat /\ Len(Append(s, x)) = Len(s) + 1
         /\ x \in S => Append(s, x) \in Seq(S)
         /\ \A i \in 1..Len(s) : s[i] \in S /\ Append(s, x)[i] = s[i]
         /\ Append(s, x)[Len(s) + 1] = x
  OBVIOUS

(* A right answer takes a job on, or ends it. *)
LEMMA LearntFine ==
  ASSUME NEW j \in Jobs, JobFine(j), j.acct \in Accts, Len(j.keys) < NumGateways,
         NEW r \in Requests, RightAnswer(j, r)
  PROVE  /\ Learnt(j, r) \in Jobs /\ JobFine(Learnt(j, r))
         /\ Learnt(j, r).at \in {"idle", "ask"}
  <1>1. /\ j.addrs \in Seq(Addresses) /\ j.keys \in Seq(Keys) /\ r.addr \in Addresses
        /\ r.key \in Keys /\ r.flag \in {-1, 0, 1} /\ NumGateways \in Nat
        /\ Len(j.addrs) \in Nat /\ Len(j.keys) \in Nat
        /\ Len(j.addrs) \in {Len(j.keys), Len(j.keys) + 1}
    BY AddressGenAssumption DEF Jobs, Requests, JobFine, Collected
  <1>2. NoRequest \in Requests
    BY WellFormed DEF NoRequest, Request, Requests
  <1>3. CASE r.flag <= 0
    <2>1. Learnt(j, r) = Idle
      BY <1>3 DEF Learnt
    <2> QED BY <2>1, IdleFine
  <1>4. CASE ~(r.flag <= 0) /\ Len(j.addrs) = Len(j.keys)
    <2> DEFINE k == [j EXCEPT !.at = "ask", !.addrs = Append(@, r.addr), !.reply = NoRequest]
    <2>1. Learnt(j, r) = k /\ r.addr \in Given(Len(j.keys) + 1, j.acct)
      BY <1>1, <1>4 DEF Learnt, RightAnswer
    <2>2. Append(j.addrs, r.addr) \in Seq(Addresses)
      BY <1>1
    <2>3. /\ k \in Jobs /\ k.at = "ask" /\ k.acct = j.acct /\ k.keys = j.keys
          /\ k.addrs = Append(j.addrs, r.addr)
      BY <1>2, <2>2 DEF Jobs
    <2> HIDE DEF k
    <2>4. /\ Len(k.addrs) = Len(j.keys) + 1 /\ k.addrs[Len(j.keys) + 1] = r.addr
          /\ \A i \in 1..Len(j.addrs) : k.addrs[i] = j.addrs[i]
      <3>1. /\ Len(Append(j.addrs, r.addr)) = Len(j.addrs) + 1
            /\ Append(j.addrs, r.addr)[Len(j.addrs) + 1] = r.addr
            /\ \A i \in 1..Len(j.addrs) : Append(j.addrs, r.addr)[i] = j.addrs[i]
        BY <1>1, AppendIs
      <3> QED BY <1>4, <2>3, <3>1
    <2>5. \A i \in 1..Len(k.addrs) : k.addrs[i] \in Given(i, k.acct)
      BY <1>1, <1>4, <2>1, <2>3, <2>4 DEF JobFine, Collected
    <2>6. \A i \in 1..Len(k.keys) : k.keys[i] \in {KeyOf(k.addrs[i]), NotAKey}
      BY <1>1, <1>4, <2>3, <2>4 DEF JobFine, Collected
    <2>7. Collected(k)
      BY <1>1, <1>4, <2>3, <2>4, <2>5, <2>6 DEF Collected
    <2> QED BY <2>1, <2>3, <2>7 DEF JobFine
  <1>5. CASE ~(r.flag <= 0) /\ Len(j.addrs) = Len(j.keys) + 1
    <2> DEFINE k == [j EXCEPT !.at = "ask", !.keys = Append(@, r.key), !.reply = NoRequest]
    <2>1. Learnt(j, r) = k /\ r.key \in {KeyOf(j.addrs[Len(j.addrs)]), NotAKey}
      <3>1. r.func = "GETPUBKEY" /\ r.key \in {KeyOf(Last(j.addrs)), NotAKey}
        BY <1>1, <1>5 DEF RightAnswer
      <3> QED BY <1>5, <3>1 DEF Learnt, Last
    <2>2. Append(j.keys, r.key) \in Seq(Keys)
      BY <1>1
    <2>3. /\ k \in Jobs /\ k.at = "ask" /\ k.acct = j.acct /\ k.addrs = j.addrs
          /\ k.keys = Append(j.keys, r.key)
      BY <1>2, <2>2 DEF Jobs
    <2> HIDE DEF k
    <2>4. /\ Len(k.keys) = Len(j.keys) + 1 /\ k.keys[Len(j.keys) + 1] = r.key
          /\ \A i \in 1..Len(j.keys) : k.keys[i] = j.keys[i]
      BY <1>1, <2>3, AppendIs
    <2>5. \A i \in 1..Len(k.addrs) : k.addrs[i] \in Given(i, k.acct)
      BY <2>3 DEF JobFine, Collected
    <2>6. \A i \in 1..Len(k.keys) : k.keys[i] \in {KeyOf(k.addrs[i]), NotAKey}
      BY <1>1, <1>5, <2>1, <2>3, <2>4 DEF JobFine, Collected
    <2>7. Collected(k)
      BY <1>1, <1>5, <2>3, <2>4, <2>5, <2>6 DEF JobFine, Collected
    <2> QED BY <2>1, <2>3, <2>7 DEF JobFine
  <1> QED BY <1>1, <1>3, <1>4, <1>5

(* What a daemon gave out stays given out when its wallet moves on. *)
Grown == \A g \in Gateways, a \in Accts : wallet[g][a] <= wallet'[g][a]

LEMMA FineWhenGrown ==
  ASSUME NEW j, JobFine(j), Grown,
         wallet \in [Gateways -> [Accts -> Nat \ {0}]],
         wallet' \in [Gateways -> [Accts -> Nat \ {0}]]
  PROVE  JobFine(j)'
  <1>1. \A g \in Gateways, a \in Accts : Given(g, a) \subseteq Given(g, a)'
    <2> SUFFICES ASSUME NEW g \in Gateways, NEW a \in Accts, NEW x \in Given(g, a)
                 PROVE  x \in Given(g, a)'
      OBVIOUS
    <2>1. PICK v \in 1..wallet[g][a] : x = Address(g, a, v)
      BY DEF Given
    <2>2. wallet[g][a] \in Nat /\ wallet'[g][a] \in Nat /\ wallet[g][a] <= wallet'[g][a]
      BY DEF Grown
    <2>3. v \in 1..wallet'[g][a]
      BY <2>1, <2>2
    <2> QED BY <2>1, <2>3 DEF Given
  <1>2. CASE j.at = "idle"
    <2>1. j = Idle /\ Idle.addrs = <<>> /\ Idle.keys = <<>> /\ Len(<<>>) = 0
      BY <1>2 DEF JobFine, Idle
    <2>2. Collected(j)'
      BY <2>1, AddressGenAssumption DEF Collected
    <2> QED BY <1>2, <2>1, <2>2 DEF JobFine
  <1>3. CASE j.at # "idle"
    <2>1. j.acct \in Accts /\ Collected(j)
      BY <1>3 DEF JobFine
    <2>2. \A i \in 1..Len(j.addrs) : i \in Gateways
      BY <2>1, AddressGenAssumption DEF Collected, Gateways
    <2>3. Collected(j)'
      BY <1>1, <2>1, <2>2 DEF Collected
    <2>4. j.at = "answered" => RightAnswer(j, j.reply)'
      <3> SUFFICES ASSUME j.at = "answered" PROVE RightAnswer(j, j.reply)'
        OBVIOUS
      <3>1. RightAnswer(j, j.reply) /\ Len(j.keys) < NumGateways
        BY DEF JobFine
      <3>2. CASE Len(j.addrs) # Len(j.keys)
        BY <3>1, <3>2 DEF RightAnswer
      <3>3. CASE Len(j.addrs) = Len(j.keys)
        <4>1. Len(j.keys) + 1 \in Gateways
          BY <2>1, <3>1, AddressGenAssumption DEF Collected, Gateways
        <4> QED BY <1>1, <2>1, <3>1, <3>3, <4>1 DEF RightAnswer
      <3> QED BY <3>2, <3>3
    <2> QED BY <1>3, <2>1, <2>3, <2>4 DEF JobFine
  <1> QED BY <1>2, <1>3
-----------------------------------------------------------------------------
(* Each step of the gateways keeps GenInv.                                 *)

Jobless == UNCHANGED <<setting, wallet, server>>

CountOK == count \in [gens : 0..setting.gens, fresh : 0..setting.fresh, odd : 0..setting.odd]

LEMMA SettingFine ==
  ASSUME GenTypeOK
  PROVE  /\ setting \in Settings /\ setting.gens \in Nat /\ setting.fresh \in Nat
         /\ setting.odd \in Nat /\ setting.asking \subseteq Accts
  BY AddressGenAssumption DEF GenTypeOK

(* A gateway asks its next question, or none, only where it asked none. *)
LEMMA JobStep ==
  ASSUME GenInv, Jobless, CountOK', NEW g \in Gateways, NEW j \in Jobs, JobFine(j),
         job[g].at # "wait", j.at # "wait", job' = [job EXCEPT ![g] = j]
  PROVE  GenInv'
  <1>1. job \in [Gateways -> Jobs] /\ job' \in [Gateways -> Jobs] /\ job'[g] = j
        /\ \A h \in Gateways \ {g} : job'[h] = job[h]
    BY DEF GenInv, GenTypeOK
  <1>2. GenTypeOK'
    <2>1. \A h \in Gateways : Len(job'[h].addrs) \in {Len(job'[h].keys), Len(job'[h].keys) + 1}
      BY <1>1 DEF GenInv, GenTypeOK, JobFine, Collected
    <2> QED BY <1>1, <2>1 DEF GenInv, GenTypeOK, Jobless, CountOK
  <1>3. ASSUME NEW h \in Gateways PROVE JobFine(job[h])'
    <2>1. \A k : JobFine(k)' <=> JobFine(k)
      BY DEF Jobless, JobFine, Collected, RightAnswer, Given
    <2> QED BY <1>1, <2>1 DEF GenInv
  <1>4. ASSUME NEW h \in Gateways PROVE OneRequest(h)'
    <2>1. OneRequest(h) /\ server' = server
      BY DEF GenInv, Jobless
    <2>2. CASE h = g
      BY <1>1, <2>1, <2>2 DEF OneRequest
    <2>3. CASE h # g
      <3>1. Turn(h)' = Turn(h) /\ Question(h)' = Question(h) /\ job'[h] = job[h]
        BY <1>1, <2>3 DEF Turn, Question
      <3> QED BY <2>1, <3>1 DEF OneRequest
    <2> QED BY <2>2, <2>3
  <1> QED BY <1>2, <1>3, <1>4 DEF GenInv

LEMMA GenerateStep ==
  ASSUME GenInv, NEW g \in Gateways, NEW a \in Accts, Generate(g, a)
  PROVE  GenInv'
  <1> DEFINE j == [Idle EXCEPT !.at = "ask", !.acct = a]
  <1>1. j \in Jobs /\ j.at = "ask" /\ j.acct = a /\ j.addrs = <<>> /\ j.keys = <<>>
    <2>1. Idle.addrs = <<>> /\ Idle.keys = <<>>
      BY DEF Idle
    <2> QED BY <2>1, IdleFine DEF Jobs
  <1>2. JobFine(j)
    <2> HIDE DEF j
    <2>1. Collected(j)
      BY <1>1, AddressGenAssumption DEF Collected
    <2> QED BY <1>1, <2>1 DEF JobFine
  <1>3. CountOK'
    <2>1. count.gens < setting.gens /\ count' = [count EXCEPT !.gens = @ + 1]
          /\ setting' = setting
      BY DEF Generate
    <2>2. count \in [gens : 0..setting.gens, fresh : 0..setting.fresh, odd : 0..setting.odd]
          /\ setting.gens \in Nat
      BY SettingFine DEF GenInv, GenTypeOK
    <2>3. count.gens + 1 \in 0..setting.gens
      BY <2>1, <2>2
    <2> QED BY <2>1, <2>2, <2>3 DEF CountOK
  <1>4. job' = [job EXCEPT ![g] = j] /\ job[g].at = "idle" /\ Jobless
    BY DEF Generate, Jobless
  <1> HIDE DEF j
  <1> QED BY <1>1, <1>2, <1>3, <1>4, JobStep

LEMMA CountKept ==
  ASSUME GenInv, UNCHANGED <<setting, count>>
  PROVE  CountOK'
  BY DEF CountOK, GenInv, GenTypeOK

LEMMA AskSelfStep ==
  ASSUME GenInv, NEW g \in Gateways, AskSelf(g)
  PROVE  GenInv'
  <1>1. /\ job[g].at = "ask" /\ Turn(g) <= NumGateways /\ Turn(g) = g
        /\ Jobless /\ UNCHANGED <<setting, count>>
    BY DEF AskSelf, Asking, Jobless
  <1>2. PICK r \in Answers(g, Question(g)) : job' = [job EXCEPT ![g] = Learnt(job[g], r)]
    BY DEF AskSelf
  <1>3. /\ job[g] \in Jobs /\ JobFine(job[g]) /\ job[g].acct \in Accts /\ GenTypeOK
        /\ Len(job[g].keys) \in Nat /\ NumGateways \in Nat
    BY <1>1, AddressGenAssumption DEF GenInv, GenTypeOK, JobFine, Jobs
  <1>4. Len(job[g].keys) < NumGateways
    BY <1>1, <1>3 DEF Turn
  <1>5. r \in Requests /\ RightAnswer(job[g], r)
    BY <1>1, <1>2, <1>3, AnswersAreRight
  <1>6. /\ Learnt(job[g], r) \in Jobs /\ JobFine(Learnt(job[g], r))
        /\ Learnt(job[g], r).at \in {"idle", "ask"}
    BY <1>3, <1>4, <1>5, LearntFine
  <1>7. CountOK'
    BY <1>1, CountKept
  <1> QED BY <1>1, <1>2, <1>6, <1>7, JobStep

LEMMA ReceiveStep ==
  ASSUME GenInv, NEW g \in Gateways, Receive(g)
  PROVE  GenInv'
  <1> DEFINE r == job[g].reply
  <1>1. /\ job[g].at = "answered" /\ job' = [job EXCEPT ![g] = Learnt(job[g], r)]
        /\ Jobless /\ UNCHANGED <<setting, count>>
    BY DEF Receive, Jobless
  <1>2. /\ job[g] \in Jobs /\ JobFine(job[g]) /\ job[g].acct \in Accts /\ r \in Requests
        /\ Len(job[g].keys) < NumGateways /\ RightAnswer(job[g], r)
    BY <1>1 DEF GenInv, GenTypeOK, JobFine, Jobs
  <1>3. /\ Learnt(job[g], r) \in Jobs /\ JobFine(Learnt(job[g], r))
        /\ Learnt(job[g], r).at \in {"idle", "ask"}
    BY <1>2, LearntFine
  <1>4. CountOK'
    BY <1>1, CountKept
  <1> QED BY <1>1, <1>3, <1>4, JobStep

LEMMA EndsStep ==
  ASSUME GenInv, NEW g \in Gateways, job[g].at # "wait", Jobless, UNCHANGED count,
         job' = [job EXCEPT ![g] = Idle]
  PROVE  GenInv'
  BY CountKept, IdleFine, JobStep DEF Jobless

LEMMA CreateMultisigStep ==
  ASSUME GenInv, NEW g \in Gateways, CreateMultisig(g)
  PROVE  GenInv'
  <1>1. /\ job[g].at = "ask" /\ Turn(g) > NumGateways /\ Jobless /\ UNCHANGED <<setting, count>>
    BY DEF CreateMultisig, Jobless
  <1>2. CASE job' = [job EXCEPT ![g] = Idle]
    BY <1>1, <1>2, EndsStep
  <1>3. CASE /\ \A i \in Gateways : job[g].keys[i] \notin {NotAKey, NoKey}
             /\ job' = [job EXCEPT ![g].at = "made"]
    <2> DEFINE j == [job[g] EXCEPT !.at = "made"]
    <2>1. /\ job[g] \in Jobs /\ JobFine(job[g]) /\ job[g].acct \in Accts
          /\ Len(job[g].keys) \in Nat /\ Len(job[g].keys) <= NumGateways /\ NumGateways \in Nat
      BY <1>1, AddressGenAssumption DEF GenInv, GenTypeOK, JobFine, Collected, Jobs
    <2>2. Len(job[g].keys) = NumGateways
      BY <1>1, <2>1 DEF Turn
    <2>3. /\ j \in Jobs /\ j.at = "made" /\ j.acct = job[g].acct /\ j.keys = job[g].keys
          /\ j.addrs = job[g].addrs
      BY <2>1 DEF Jobs
    <2>4. job' = [job EXCEPT ![g] = j]
      BY <1>3
    <2> HIDE DEF j
    <2>5. JobFine(j)
      BY <1>3, <2>1, <2>2, <2>3 DEF JobFine, Collected
    <2>6. CountOK'
      BY <1>1, CountKept
    <2> QED BY <1>1, <2>3, <2>4, <2>5, <2>6, JobStep
  <1> QED BY <1>2, <1>3 DEF CreateMultisig
(* The facts about one gateway's requests that the next steps rest on. *)
LEMMA RequestFacts ==
  ASSUME GenInv, NEW g \in Gateways
  PROVE  /\ job[g] \in Jobs /\ JobFine(job[g]) /\ OneRequest(g)
         /\ Len(job[g].keys) \in Nat /\ Turn(g) = Len(job[g].keys) + 1 /\ NumGateways \in Nat
         /\ \A d \in Gateways : server[d] \in Seq(Connections) /\ Len(server[d]) \in Nat
         /\ job[g].at \in {"wait", "answered"} =>
              job[g].acct \in Accts /\ Turn(g) \in Gateways
         /\ job[g].at = "ask" /\ Turn(g) <= NumGateways => Turn(g) \in Gateways
  <1>1. job[g] \in Jobs /\ JobFine(job[g]) /\ OneRequest(g)
    BY DEF GenInv, GenTypeOK
  <1>2. Len(job[g].keys) \in Nat /\ Turn(g) = Len(job[g].keys) + 1 /\ NumGateways \in Nat
    BY <1>1, AddressGenAssumption DEF Jobs, Turn
  <1>3. \A d \in Gateways : server[d] \in Seq(Connections) /\ Len(server[d]) \in Nat
    BY DEF GenInv, GenTypeOK
  <1>4. job[g].at \in {"wait", "answered"} => job[g].acct \in Accts /\ Turn(g) \in Gateways
    BY <1>1, <1>2 DEF JobFine, Gateways
  <1>5. job[g].at = "ask" /\ Turn(g) <= NumGateways => Turn(g) \in Gateways
    BY <1>2 DEF Gateways
  <1> QED BY <1>1, <1>2, <1>3, <1>4, <1>5

(* What a step leaves of gateway h's job leaves its question and its turn. *)
LEMMA SameQuestion ==
  ASSUME NEW h, job'[h] = job[h]
  PROVE  Turn(h)' = Turn(h) /\ Question(h)' = Question(h)
  BY DEF Turn, Question

LEMMA SameFine ==
  ASSUME UNCHANGED wallet, NEW j, JobFine(j)
  PROVE  JobFine(j)'
  BY DEF JobFine, Collected, RightAnswer, Given

(* What a connection that comes last adds. *)
LEMMA Comes ==
  ASSUME server \in [Gateways -> Seq(Connections)], NEW d \in Gateways, NEW c \in Connections,
         server' = [server EXCEPT ![d] = Append(@, c)]
  PROVE  /\ server' \in [Gateways -> Seq(Connections)]
         /\ Len(server[d]) + 1 \in 1..Len(server'[d]) /\ server'[d][Len(server[d]) + 1] = c
         /\ \A e \in Gateways : \A i \in 1..Len(server[e]) :
              i \in 1..Len(server'[e]) /\ server'[e][i] = server[e][i]
         /\ \A e \in Gateways : \A i \in 1..Len(server'[e]) :
              \/ i \in 1..Len(server[e]) /\ server'[e][i] = server[e][i]
              \/ e = d /\ i = Len(server[d]) + 1
  <1>1. /\ server' \in [Gateways -> Seq(Connections)] /\ server'[d] = Append(server[d], c)
        /\ \A e \in Gateways \ {d} : server'[e] = server[e]
    OBVIOUS
  <1>2. /\ Len(server[d]) \in Nat /\ Len(server'[d]) = Len(server[d]) + 1
        /\ \A i \in 1..Len(server[d]) : server'[d][i] = server[d][i]
        /\ server'[d][Len(server[d]) + 1] = c
    BY <1>1, AppendIs
  <1>3. ASSUME NEW e \in Gateways, NEW i \in 1..Len(server[e])
        PROVE  i \in 1..Len(server'[e]) /\ server'[e][i] = server[e][i]
    <2>1. CASE e = d
      BY <1>2, <2>1
    <2>2. CASE e # d
      BY <1>1, <2>2
    <2> QED BY <2>1, <2>2
  <1>4. ASSUME NEW e \in Gateways, NEW i \in 1..Len(server'[e])
        PROVE  \/ i \in 1..Len(server[e]) /\ server'[e][i] = server[e][i]
               \/ e = d /\ i = Len(server[d]) + 1
    <2>1. CASE e = d
      BY <1>2, <2>1
    <2>2. CASE e # d
      BY <1>1, <2>2
    <2> QED BY <2>1, <2>2
  <1> QED BY <1>1, <1>2, <1>3, <1>4

(* A connection that is not of gateway h comes last: its request stays. *)
LEMMA OthersComes ==
  ASSUME GenInv, NEW d \in Gateways, NEW c \in Connections,
         server' = [server EXCEPT ![d] = Append(@, c)],
         NEW h \in Gateways, c.from # h, job'[h] = job[h]
  PROVE  OneRequest(h)'
  <1>1. /\ OneRequest(h) /\ Turn(h)' = Turn(h) /\ Question(h)' = Question(h)
        /\ server \in [Gateways -> Seq(Connections)]
    BY SameQuestion DEF GenInv, GenTypeOK
  <1>2. ~Mine(h, c)
    BY DEF Mine
  <1>3. /\ server'[d][Len(server[d]) + 1] = c
        /\ \A e \in Gateways : \A i \in 1..Len(server[e]) :
             i \in 1..Len(server'[e]) /\ server'[e][i] = server[e][i]
        /\ \A e \in Gateways : \A i \in 1..Len(server'[e]) :
             \/ i \in 1..Len(server[e]) /\ server'[e][i] = server[e][i]
             \/ e = d /\ i = Len(server[d]) + 1
    BY <1>1, Comes
  <1>4. \A e \in Gateways : \A i \in 1..Len(server'[e]) : Mine(h, server'[e][i]) =>
          i \in 1..Len(server[e]) /\ server'[e][i] = server[e][i]
    BY <1>2, <1>3
  <1>5. job[h].at = "wait" => Turn(h) \in Gateways
    BY RequestFacts
  <1> QED BY <1>1, <1>3, <1>4, <1>5 DEF OneRequest

(* A request is appended to another gateway's connections. *)
LEMMA AskOtherStep ==
  ASSUME GenInv, NEW g \in Gateways, AskOther(g)
  PROVE  GenInv'
  <1> DEFINE d == Turn(g)
             c == [from |-> g, open |-> TRUE, req |-> Question(g)]
             j == [job[g] EXCEPT !.at = "wait"]
  <1>1. /\ job[g].at = "ask" /\ d <= NumGateways /\ d # g /\ UNCHANGED <<setting, wallet, count>>
    BY DEF AskOther, Asking
  <1>2. CASE job' = [job EXCEPT ![g] = Idle] /\ UNCHANGED server
    BY <1>1, <1>2, EndsStep DEF Jobless
  <1>3. CASE /\ server' = [server EXCEPT ![d] = Append(@, c)]
             /\ job' = [job EXCEPT ![g].at = "wait"]
    <2>1. /\ d \in Gateways /\ job[g] \in Jobs /\ JobFine(job[g]) /\ d = Len(job[g].keys) + 1
          /\ Len(job[g].keys) \in Nat /\ NumGateways \in Nat /\ job[g].acct \in Accts
      BY <1>1, RequestFacts DEF JobFine
    <2>2. /\ j \in Jobs /\ j.at = "wait" /\ j.acct = job[g].acct /\ j.keys = job[g].keys
          /\ j.addrs = job[g].addrs /\ j.reply = job[g].reply
      BY <2>1 DEF Jobs
    <2>3. JobFine(j)
      <3> HIDE DEF j
      <3> QED BY <1>1, <2>1, <2>2 DEF JobFine, Collected
    <2>4. /\ job \in [Gateways -> Jobs] /\ server \in [Gateways -> Seq(Connections)]
          /\ \A h \in Gateways : Len(job[h].addrs) \in {Len(job[h].keys), Len(job[h].keys) + 1}
      BY DEF GenInv, GenTypeOK
    <2>5. /\ job' \in [Gateways -> Jobs] /\ job'[g] = j
          /\ \A h \in Gateways \ {g} : job'[h] = job[h]
      BY <1>3, <2>2, <2>4
    <2>6. c \in Connections
      BY <2>4, QuestionFine, Peer DEF Connections
    <2>7. /\ server' \in [Gateways -> Seq(Connections)]
          /\ \A e \in Gateways \ {d} : server'[e] = server[e]
          /\ server'[d] = Append(server[d], c)
      BY <1>3, <2>1, <2>4, <2>6
    <2>8. /\ Len(server[d]) + 1 \in 1..Len(server'[d])
          /\ server'[d][Len(server[d]) + 1] = c
          /\ \A e \in Gateways : \A i \in 1..Len(server'[e]) :
               \/ i \in 1..Len(server[e]) /\ server'[e][i] = server[e][i]
               \/ e = d /\ i = Len(server[d]) + 1
      BY <1>3, <2>1, <2>4, <2>6, Comes
    <2>9. Turn(g)' = d /\ Question(g)' = Question(g)
      <3> HIDE DEF j
      <3>1. Turn(g)' = d
        BY <2>2, <2>5 DEF Turn
      <3> QED BY <2>2, <2>5, <3>1 DEF Question
    <2> HIDE DEF j
    <2>10. GenTypeOK'
      <3>1. \A h \in Gateways : Len(job'[h].addrs) \in {Len(job'[h].keys), Len(job'[h].keys) + 1}
        BY <2>2, <2>4, <2>5
      <3> QED BY <1>1, <2>5, <2>7, <3>1 DEF GenInv, GenTypeOK
    <2>11. ASSUME NEW h \in Gateways PROVE JobFine(job[h])'
      BY <1>1, <2>3, <2>5, SameFine DEF GenInv
    <2>12. \A e \in Gateways : \A i \in 1..Len(server[e]) : ~Mine(g, server[e][i])
      BY <1>1, RequestFacts DEF OneRequest
    <2>13. OneRequest(g)'
      <3>1. c.from = g /\ c.open /\ c.req = Question(g)
        OBVIOUS
      <3> HIDE DEF c
      <3>2. Mine(g, server'[d][Len(server[d]) + 1])
        BY <2>8, <3>1 DEF Mine
      <3>3. \A e \in Gateways : \A i \in 1..Len(server'[e]) :
              Mine(g, server'[e][i]) => e = d /\ i = Len(server[d]) + 1
        BY <2>8, <2>12
      <3>4. job'[g].at = "wait"
        BY <2>2, <2>5
      <3>5. \A e \in Gateways : \A i \in 1..Len(server'[e]) : Mine(g, server'[e][i]) =>
              server'[e][i].req = Question(g)
        BY <2>8, <3>1, <3>3
      <3> QED BY <2>1, <2>8, <2>9, <3>2, <3>3, <3>4, <3>5 DEF OneRequest
    <2>14. ASSUME NEW h \in Gateways \ {g} PROVE OneRequest(h)'
      <3>1. c.from # h /\ job'[h] = job[h]
        BY <2>5
      <3> HIDE DEF c
      <3> QED BY <1>3, <2>1, <2>6, <3>1, OthersComes
    <2> QED BY <2>10, <2>11, <2>13, <2>14 DEF GenInv
  <1> QED BY <1>1, <1>2, <1>3 DEF AskOther

LEMMA NewAddressStep ==
  ASSUME GenInv, NEW g \in Gateways, NEW a \in Accts, NewAddress(g, a)
  PROVE  GenInv'
  <1>1. /\ wallet' = [wallet EXCEPT ![g][a] = @ + 1] /\ UNCHANGED <<setting, job, server>>
        /\ count.fresh < setting.fresh /\ count' = [count EXCEPT !.fresh = @ + 1]
    BY DEF NewAddress
  <1>2. wallet \in [Gateways -> [Accts -> Nat \ {0}]]
    BY DEF GenInv, GenTypeOK
  <1>3. wallet' \in [Gateways -> [Accts -> Nat \ {0}]] /\ Grown
    BY <1>1, <1>2 DEF Grown
  <1>4. CountOK'
    <2>1. count \in [gens : 0..setting.gens, fresh : 0..setting.fresh, odd : 0..setting.odd]
          /\ setting.fresh \in Nat
      BY SettingFine DEF GenInv, GenTypeOK
    <2>2. count.fresh + 1 \in 0..setting.fresh
      BY <1>1, <2>1
    <2> QED BY <1>1, <2>1, <2>2 DEF CountOK
  <1>5. GenTypeOK'
    BY <1>1, <1>3, <1>4 DEF GenInv, GenTypeOK, CountOK
  <1>6. ASSUME NEW h \in Gateways PROVE JobFine(job[h])' /\ OneRequest(h)'
    <2>1. JobFine(job[h])'
      <3>1. JobFine(job[h]) /\ job'[h] = job[h]
        BY <1>1 DEF GenInv
      <3>2. \A j : JobFine(j) => JobFine(j)'
        BY <1>2, <1>3, FineWhenGrown
      <3> QED BY <3>1, <3>2
    <2>2. OneRequest(h) /\ Turn(h)' = Turn(h) /\ Question(h)' = Question(h)
      BY <1>1, SameQuestion DEF GenInv
    <2> QED BY <1>1, <2>1, <2>2 DEF OneRequest
  <1> QED BY <1>5, <1>6 DEF GenInv
LEMMA OtherConnectionStep ==
  ASSUME GenInv, NEW d \in Gateways, OtherConnection(d)
  PROVE  GenInv'
  <1>1. PICK func \in {"none", "unknown", "GETCOINADDR"} :
          server' = [server EXCEPT ![d] =
            Append(@, [from |-> STRANGER, open |-> func # "none",
                       req |-> Request(func, NoAcct, NoAddr)])]
    BY DEF OtherConnection
  <1> DEFINE c == [from |-> STRANGER, open |-> func # "none",
                   req |-> Request(func, NoAcct, NoAddr)]
  <1>2. /\ UNCHANGED <<setting, wallet, job>>
        /\ count.odd < setting.odd /\ count' = [count EXCEPT !.odd = @ + 1]
    BY DEF OtherConnection
  <1>3. c \in Connections /\ c.from = 0
    <2>1. Request(func, NoAcct, NoAddr) \in Requests
      BY WellFormed DEF Request, Requests
    <2> QED BY <2>1 DEF Connections, Peers, STRANGER
  <1>4. server' = [server EXCEPT ![d] = Append(@, c)]
    BY <1>1
  <1> HIDE DEF c
  <1>5. server' \in [Gateways -> Seq(Connections)]
    BY <1>3, <1>4, Comes DEF GenInv, GenTypeOK
  <1>6. CountOK'
    <2>1. count \in [gens : 0..setting.gens, fresh : 0..setting.fresh, odd : 0..setting.odd]
          /\ setting.odd \in Nat
      BY SettingFine DEF GenInv, GenTypeOK
    <2>2. count.odd + 1 \in 0..setting.odd
      BY <1>2, <2>1
    <2> QED BY <1>2, <2>1, <2>2 DEF CountOK
  <1>7. GenTypeOK'
    BY <1>2, <1>5, <1>6 DEF GenInv, GenTypeOK, CountOK
  <1>8. ASSUME NEW h \in Gateways PROVE JobFine(job[h])' /\ OneRequest(h)'
    <2>1. JobFine(job[h])'
      BY <1>2, SameFine DEF GenInv
    <2>2. c.from # h /\ job'[h] = job[h]
      BY <1>2, <1>3, Peer
    <2> QED BY <1>3, <1>4, <2>1, <2>2, OthersComes
  <1> QED BY <1>7, <1>8 DEF GenInv

(* Gateway h's request is where it was, and as it was. *)
LEMMA RequestStays ==
  ASSUME GenInv, NEW h \in Gateways, job'[h] = job[h],
         \A e \in Gateways : \A i \in 1..Len(server'[e]) : Mine(h, server'[e][i]) =>
           i \in 1..Len(server[e]) /\ server'[e][i] = server[e][i],
         \A e \in Gateways : \A i \in 1..Len(server[e]) : Mine(h, server[e][i]) =>
           i \in 1..Len(server'[e]) /\ server'[e][i] = server[e][i]
  PROVE  OneRequest(h)'
  <1>1. OneRequest(h) /\ Turn(h)' = Turn(h) /\ Question(h)' = Question(h)
    BY SameQuestion DEF GenInv
  <1>2. job[h].at = "wait" => Turn(h) \in Gateways
    BY RequestFacts
  <1> QED BY <1>1, <1>2 DEF OneRequest

(* Connections of gateway g that are found broken. *)
Broken(s, g) == [i \in DOMAIN s |-> IF s[i].from = g THEN [s[i] EXCEPT !.open = FALSE] ELSE s[i]]

Intact(s, t, g) ==
  /\ t \in Seq(Connections) /\ Len(t) = Len(s)
  /\ \A i \in 1..Len(s) : 
       /\ s[i].from # g => t[i] = s[i]
       /\ \A h \in Gateways : Mine(h, t[i]) => h # g /\ t[i] = s[i]

LEMMA BrokenFine ==
  ASSUME NEW s \in Seq(Connections), NEW g \in Gateways
  PROVE  Broken(s, g) \in Seq(Connections) /\ Intact(s, Broken(s, g), g)
  <1>1. \A i \in 1..Len(s) : s[i] \in Connections
    OBVIOUS
  <1>2. \A c \in Connections : /\ [c EXCEPT !.open = FALSE] \in Connections
                               /\ ~([c EXCEPT !.open = FALSE]).open
    BY DEF Connections
  <1>3. Broken(s, g) \in Seq(Connections) /\ Len(Broken(s, g)) = Len(s)
    BY <1>1, <1>2 DEF Broken
  <1>4. ASSUME NEW i \in 1..Len(s)
        PROVE  Broken(s, g)[i] = IF s[i].from = g THEN [s[i] EXCEPT !.open = FALSE] ELSE s[i]
    <2>1. i \in DOMAIN s
      OBVIOUS
    <2> QED BY <2>1 DEF Broken
  <1>5. \A i \in 1..Len(s) : /\ s[i].from # g => Broken(s, g)[i] = s[i]
                             /\ \A h \in Gateways : Mine(h, Broken(s, g)[i]) =>
                                  h # g /\ Broken(s, g)[i] = s[i]
    BY <1>1, <1>2, <1>4 DEF Mine
  <1> QED BY <1>3, <1>5 DEF Intact

LEMMA ConnectionBreaksStep ==
  ASSUME GenInv, NEW g \in Gateways, ConnectionBreaks(g)
  PROVE  GenInv'
  <1> DEFINE d == Turn(g)
  <1>1. /\ job[g].at \in {"wait", "answered"} /\ job' = [job EXCEPT ![g] = Idle]
        /\ server' = [server EXCEPT ![d] = Broken(@, g)] /\ UNCHANGED <<setting, wallet, count>>
    BY DEF ConnectionBreaks, Broken
  <1>2. /\ d \in Gateways /\ job \in [Gateways -> Jobs] /\ OneRequest(g)
        /\ server \in [Gateways -> Seq(Connections)]
    BY <1>1, RequestFacts DEF GenInv, GenTypeOK
  <1>3. /\ job' \in [Gateways -> Jobs] /\ job'[g] = Idle
        /\ \A h \in Gateways \ {g} : job'[h] = job[h]
    BY <1>1, <1>2, IdleFine
  <1>4. /\ server' \in [Gateways -> Seq(Connections)] /\ server'[d] = Broken(server[d], g)
        /\ \A e \in Gateways \ {d} : server'[e] = server[e]
    BY <1>1, <1>2, BrokenFine
  <1>5. GenTypeOK'
    <2>1. \A h \in Gateways : Len(job'[h].addrs) \in {Len(job'[h].keys), Len(job'[h].keys) + 1}
      BY <1>3, IdleFine DEF GenInv, JobFine, Collected
    <2> QED BY <1>1, <1>3, <1>4, <2>1 DEF GenInv, GenTypeOK
  <1>6. ASSUME NEW h \in Gateways PROVE JobFine(job[h])'
    BY <1>1, <1>3, IdleFine, SameFine DEF GenInv
  <1>7. ASSUME NEW e \in Gateways, NEW h \in Gateways, NEW i \in 1..Len(server'[e]),
               Mine(h, server'[e][i])
        PROVE  h # g /\ i \in 1..Len(server[e]) /\ server'[e][i] = server[e][i]
    <2>0. server[d] \in Seq(Connections) /\ Intact(server[d], Broken(server[d], g), g)
      BY <1>2, BrokenFine
    <2>1. CASE e = d
      BY <1>4, <1>7, <2>0, <2>1 DEF Intact
    <2>2. CASE e # d
      BY <1>2, <1>4, <1>7, <2>2 DEF OneRequest
    <2> QED BY <2>1, <2>2
  <1>8. ASSUME NEW e \in Gateways, NEW h \in Gateways \ {g}, NEW i \in 1..Len(server[e]),
               Mine(h, server[e][i])
        PROVE  i \in 1..Len(server'[e]) /\ server'[e][i] = server[e][i]
    <2>0. server[d] \in Seq(Connections) /\ Intact(server[d], Broken(server[d], g), g)
      BY <1>2, BrokenFine
    <2>1. CASE e = d
      BY <1>4, <1>8, <2>0, <2>1 DEF Mine, Intact
    <2>2. CASE e # d
      BY <1>4, <2>2
    <2> QED BY <2>1, <2>2
  <1>9. OneRequest(g)'
    BY <1>3, <1>7, IdleFine DEF OneRequest
  <1>10. ASSUME NEW h \in Gateways \ {g} PROVE OneRequest(h)'
    BY <1>3, <1>7, <1>8, RequestStays
  <1> QED BY <1>5, <1>6, <1>9, <1>10 DEF GenInv

LEMMA StopGenStep ==
  ASSUME GenInv, NEW g \in Gateways, StopGen(g)
  PROVE  GenInv'
  <1> DEFINE hangs(h) == h = g \/ \E i \in 1..Len(server[g]) : Mine(h, server[g][i])
  <1>1. /\ UNCHANGED <<setting, wallet, count>> /\ job \in [Gateways -> Jobs]
        /\ server \in [Gateways -> Seq(Connections)]
    BY DEF StopGen, GenInv, GenTypeOK
  <1>2. \A h \in Gateways : job'[h] = IF hangs(h) THEN Idle ELSE job[h]
    <2>1. DOMAIN server[g] = 1..Len(server[g])
      BY <1>1
    <2> QED BY <2>1 DEF StopGen, Mine
  <1>3. job' \in [Gateways -> Jobs]
    BY <1>1, IdleFine DEF StopGen
  <1>4. \A e \in Gateways : server'[e] = IF e = g THEN <<>> ELSE Broken(server[e], g)
    BY DEF StopGen, Broken
  <1>5. server' \in [Gateways -> Seq(Connections)]
    <2>1. server' = [e \in Gateways |-> IF e = g THEN <<>> ELSE Broken(server[e], g)]
      BY DEF StopGen, Broken
    <2> QED BY <1>1, <2>1, BrokenFine
  <1> HIDE DEF hangs
  <1>6. GenTypeOK'
    <2>1. \A h \in Gateways : Len(job'[h].addrs) \in {Len(job'[h].keys), Len(job'[h].keys) + 1}
      BY <1>2, IdleFine DEF GenInv, JobFine, Collected
    <2> QED BY <1>1, <1>3, <1>5, <2>1 DEF GenInv, GenTypeOK
  <1>7. ASSUME NEW h \in Gateways PROVE JobFine(job[h])'
    BY <1>1, <1>2, IdleFine, SameFine DEF GenInv
  <1>8. ASSUME NEW e \in Gateways, NEW h \in Gateways, NEW i \in 1..Len(server'[e]),
               Mine(h, server'[e][i])
        PROVE  e # g /\ h # g /\ i \in 1..Len(server[e]) /\ server'[e][i] = server[e][i]
    <2>1. e # g /\ server'[e] = Broken(server[e], g)
      <3>1. Len(<<>>) = 0
        OBVIOUS
      <3> QED BY <1>4, <1>8, <3>1
    <2>2. server[e] \in Seq(Connections) /\ Intact(server[e], Broken(server[e], g), g)
      BY <1>1, BrokenFine
    <2> QED BY <1>8, <2>1, <2>2 DEF Intact
  <1>9. ASSUME NEW e \in Gateways, e # g, NEW h \in Gateways \ {g}, NEW i \in 1..Len(server[e]),
               Mine(h, server[e][i])
        PROVE  i \in 1..Len(server'[e]) /\ server'[e][i] = server[e][i]
    <2>1. server'[e] = Broken(server[e], g)
      BY <1>4, <1>9
    <2>2. server[e] \in Seq(Connections) /\ Intact(server[e], Broken(server[e], g), g)
      BY <1>1, BrokenFine
    <2> QED BY <1>9, <2>1, <2>2 DEF Mine, Intact
  <1>10. ASSUME NEW h \in Gateways, hangs(h) PROVE OneRequest(h)'
    <2>1. job'[h].at # "wait"
      BY <1>2, <1>10, IdleFine
    <2>2. ASSUME NEW e \in Gateways, NEW i \in 1..Len(server'[e]), Mine(h, server'[e][i])
          PROVE  FALSE
      <3>1. h # g /\ e # g /\ i \in 1..Len(server[e]) /\ Mine(h, server[e][i])
        BY <1>8, <2>2
      <3>2. e = Turn(h) /\ OneRequest(h)
        BY <3>1 DEF GenInv, OneRequest
      <3>3. PICK k \in 1..Len(server[g]) : Mine(h, server[g][k])
        BY <1>10, <3>1 DEF hangs
      <3> QED BY <3>1, <3>2, <3>3 DEF OneRequest
    <2> QED BY <2>1, <2>2 DEF OneRequest
  <1>11. ASSUME NEW h \in Gateways, ~hangs(h) PROVE OneRequest(h)'
    <2>1. h # g /\ job'[h] = job[h]
      BY <1>2, <1>11 DEF hangs
    <2>2. ASSUME NEW e \in Gateways, NEW i \in 1..Len(server[e]), Mine(h, server[e][i])
          PROVE  i \in 1..Len(server'[e]) /\ server'[e][i] = server[e][i]
      <3>1. e # g
        BY <1>11, <2>2 DEF hangs
      <3> QED BY <1>9, <2>1, <2>2, <3>1
    <2> QED BY <1>8, <2>1, <2>2, RequestStays
  <1> QED BY <1>6, <1>7, <1>10, <1>11 DEF GenInv
(* The first connection goes, the others move up. *)
LEMMA TailIs ==
  ASSUME NEW S, NEW s \in Seq(S), s # <<>>
  PROVE  /\ Tail(s) \in Seq(S) /\ Len(s) \in Nat \ {0} /\ Len(Tail(s)) = Len(s) - 1
         /\ Head(s) = s[1] /\ s[1] \in S
         /\ \A i \in 1..Len(Tail(s)) : i + 1 \in 1..Len(s) /\ Tail(s)[i] = s[i + 1]
         /\ \A i \in 1..Len(s) : i # 1 => i - 1 \in 1..Len(Tail(s)) /\ Tail(s)[i - 1] = s[i]
  OBVIOUS

LEMMA Served ==
  ASSUME GenInv, NEW d \in Gateways, server[d] # <<>>, server' = [server EXCEPT ![d] = Rest(d)]
  PROVE  /\ server' \in [Gateways -> Seq(Connections)] /\ Head(server[d]) \in Connections
         /\ \A h \in Gateways : Mine(h, Head(server[d])) =>
              /\ job[h].at = "wait" /\ d = Turn(h) /\ Head(server[d]).req = Question(h)
              /\ \A e \in Gateways : \A i \in 1..Len(server'[e]) : ~Mine(h, server'[e][i])
         /\ \A h \in Gateways : ~Mine(h, Head(server[d])) /\ job'[h] = job[h] => OneRequest(h)'
  <1> DEFINE c == Head(server[d])
  <1>1. server \in [Gateways -> Seq(Connections)]
    BY DEF GenInv, GenTypeOK
  <1>2. /\ Tail(server[d]) \in Seq(Connections) /\ Len(server[d]) \in Nat \ {0}
        /\ c = server[d][1] /\ c \in Connections
        /\ \A i \in 1..Len(Tail(server[d])) :
             i + 1 \in 1..Len(server[d]) /\ Tail(server[d])[i] = server[d][i + 1]
        /\ \A i \in 1..Len(server[d]) : i # 1 =>
             i - 1 \in 1..Len(Tail(server[d])) /\ Tail(server[d])[i - 1] = server[d][i]
    BY <1>1, TailIs
  <1>3. /\ server' \in [Gateways -> Seq(Connections)] /\ server'[d] = Tail(server[d])
        /\ \A e \in Gateways \ {d} : server'[e] = server[e]
    BY <1>1, <1>2 DEF Rest
  <1> HIDE DEF c
  <1>4. ASSUME NEW h \in Gateways, Mine(h, c)
        PROVE  /\ job[h].at = "wait" /\ d = Turn(h) /\ c.req = Question(h)
               /\ \A e \in Gateways : \A i \in 1..Len(server'[e]) : ~Mine(h, server'[e][i])
    <2>1. OneRequest(h) /\ 1 \in 1..Len(server[d])
      BY <1>2 DEF GenInv
    <2>2. /\ job[h].at = "wait" /\ d = Turn(h) /\ c.req = Question(h)
          /\ \A k \in 1..Len(server[d]) : Mine(h, server[d][k]) => k = 1
      BY <1>2, <1>4, <2>1 DEF OneRequest
    <2>3. ASSUME NEW e \in Gateways, NEW i \in 1..Len(server'[e]), Mine(h, server'[e][i])
          PROVE  FALSE
      <3>1. CASE e = d
        <4>1. i \in 1..Len(Tail(server[d])) /\ server'[e][i] = Tail(server[d])[i]
          BY <1>3, <3>1
        <4>2. i + 1 \in 1..Len(server[d]) /\ Mine(h, server[d][i + 1])
          BY <1>2, <2>3, <4>1
        <4>3. i + 1 = 1 /\ i \in Nat \ {0}
          BY <2>2, <4>1, <4>2
        <4> QED BY <4>3
      <3>2. CASE e # d
        BY <1>3, <2>1, <2>2, <2>3, <3>2 DEF OneRequest
      <3> QED BY <3>1, <3>2
    <2> QED BY <2>2, <2>3
  <1>5. ASSUME NEW h \in Gateways, ~Mine(h, c), job'[h] = job[h] PROVE OneRequest(h)'
    <2>1. OneRequest(h) /\ Turn(h)' = Turn(h) /\ Question(h)' = Question(h)
      BY <1>5, SameQuestion DEF GenInv
    <2>2. job[h].at = "wait" => Turn(h) \in Gateways
      BY RequestFacts
    <2>3. ASSUME NEW e \in Gateways, NEW i \in 1..Len(server'[e]), Mine(h, server'[e][i])
          PROVE  /\ job[h].at = "wait" /\ e = Turn(h) /\ server'[e][i].req = Question(h)
                 /\ \A k \in 1..Len(server'[e]) : Mine(h, server'[e][k]) => k = i
      <3>1. CASE e = d
        <4>1. \A k \in 1..Len(server'[d]) :
                k \in Nat /\ k + 1 \in 1..Len(server[d]) /\ server'[d][k] = server[d][k + 1]
          <5>1. server'[d] = Tail(server[d])
            BY <1>3
          <5>2. \A k \in 1..Len(Tail(server[d])) :
                  k + 1 \in 1..Len(server[d]) /\ Tail(server[d])[k] = server[d][k + 1]
            BY <1>2
          <5>3. ASSUME NEW k \in 1..Len(server'[d])
                PROVE  k \in Nat /\ k + 1 \in 1..Len(server[d]) /\ server'[d][k] = server[d][k + 1]
            <6>1. k \in 1..Len(Tail(server[d]))
              BY <5>1
            <6>2. k + 1 \in 1..Len(server[d]) /\ Tail(server[d])[k] = server[d][k + 1]
              BY <5>2, <6>1
            <6>3. Len(Tail(server[d])) \in Nat
              BY <1>2
            <6>4. k \in Nat
              BY <6>1, <6>3
            <6>5. server'[d][k] = server[d][k + 1]
              BY <5>1, <6>2, Zenon
            <6> QED BY <6>2, <6>4, <6>5, Zenon
          <5> QED BY <5>3
        <4>2. /\ job[h].at = "wait" /\ e = Turn(h) /\ server'[e][i].req = Question(h)
              /\ \A k \in 1..Len(server[d]) : Mine(h, server[d][k]) => k = i + 1
          BY <2>1, <2>3, <3>1, <4>1 DEF OneRequest
        <4>3. ASSUME NEW k \in 1..Len(server'[e]), Mine(h, server'[e][k]) PROVE k = i
          <5>1. k \in Nat /\ i \in Nat /\ k + 1 \in 1..Len(server[d]) /\ Mine(h, server[d][k + 1])
            BY <3>1, <4>1, <4>3
          <5>2. k + 1 = i + 1
            BY <4>2, <5>1
          <5> QED BY <5>1, <5>2
        <4> QED BY <4>2, <4>3
      <3>2. CASE e # d
        BY <1>3, <2>1, <2>3, <3>2 DEF OneRequest
      <3> QED BY <3>1, <3>2
    <2>4. ASSUME job[h].at = "wait"
          PROVE  \E i \in 1..Len(server'[Turn(h)]) : Mine(h, server'[Turn(h)][i])
      <3>1. PICK i \in 1..Len(server[Turn(h)]) : Mine(h, server[Turn(h)][i])
        BY <2>1, <2>4 DEF OneRequest
      <3>2. CASE Turn(h) = d
        <4>1. i # 1 /\ i \in 1..Len(server[d])
          BY <1>2, <1>5, <3>1, <3>2
        <4>2. i - 1 \in 1..Len(server'[d]) /\ server'[d][i - 1] = server[d][i]
          BY <1>2, <1>3, <4>1
        <4> QED BY <3>1, <3>2, <4>2
      <3>3. CASE Turn(h) # d
        BY <1>3, <2>2, <2>4, <3>1, <3>3
      <3> QED BY <3>2, <3>3
    <2> QED BY <1>5, <2>1, <2>3, <2>4 DEF OneRequest
  <1> QED BY <1>2, <1>3, <1>4, <1>5 DEF c

LEMMA ServeStep ==
  ASSUME GenInv, NEW d \in Gateways, Serve(d)
  PROVE  GenInv'
  <1> DEFINE c == Head(server[d])
  <1>1. /\ server[d] # <<>> /\ server' = [server EXCEPT ![d] = Rest(d)]
        /\ UNCHANGED <<setting, wallet, count>> /\ job \in [Gateways -> Jobs]
    <2>1. job \in [Gateways -> Jobs]
      BY DEF GenInv, GenTypeOK
    <2> QED BY <2>1 DEF Serve
  <1>2. \/ job' = [g \in Gateways |-> IF c.open /\ g = c.from THEN Idle ELSE job[g]]
        \/ /\ c.open
           /\ \E r \in Answers(d, c.req) :
                job' = [job EXCEPT ![c.from] = [@ EXCEPT !.at = "answered", !.reply = r]]
    <2>1. CASE ~c.open \/ Handled(d, c) = {}
      BY <2>1 DEF Serve
    <2>2. CASE ~(~c.open \/ Handled(d, c) = {})
      <3>1. Handled(d, c) = Answers(d, c.req)
        BY <2>2 DEF Handled
      <3>2. \E r \in Handled(d, c) :
              job' = [job EXCEPT ![c.from] = [@ EXCEPT !.at = "answered", !.reply = r]]
        BY <2>2 DEF Serve
      <3> QED BY <2>2, <3>1, <3>2
    <2> QED BY <2>1, <2>2
  <1>3. /\ server' \in [Gateways -> Seq(Connections)] /\ c \in Connections
        /\ \A h \in Gateways : Mine(h, c) =>
             /\ job[h].at = "wait" /\ d = Turn(h) /\ c.req = Question(h)
             /\ \A e \in Gateways : \A i \in 1..Len(server'[e]) : ~Mine(h, server'[e][i])
        /\ \A h \in Gateways : ~Mine(h, c) /\ job'[h] = job[h] => OneRequest(h)'
    BY <1>1, Served
  <1> HIDE DEF c
  <1>4. /\ job' \in [Gateways -> Jobs]
        /\ \A h \in Gateways :
             /\ ~Mine(h, c) => job'[h] = job[h]
             /\ Mine(h, c) => job'[h].at # "wait" /\ JobFine(job'[h])
    <2>1. CASE job' = [g \in Gateways |-> IF c.open /\ g = c.from THEN Idle ELSE job[g]]
      BY <1>1, <2>1, IdleFine DEF Mine
    <2>2. CASE c.open /\ c.from \notin Gateways /\ \E r \in Answers(d, c.req) :
                 job' = [job EXCEPT ![c.from] = [@ EXCEPT !.at = "answered", !.reply = r]]
      <3>1. job' = job
        BY <1>1, <2>2
      <3> QED BY <1>1, <2>2, <3>1 DEF Mine
    <2>3. CASE c.open /\ c.from \in Gateways /\ \E r \in Answers(d, c.req) :
                 job' = [job EXCEPT ![c.from] = [@ EXCEPT !.at = "answered", !.reply = r]]
      <3> DEFINE g == c.from
      <3>1. PICK r \in Answers(d, c.req) :
              job' = [job EXCEPT ![g] = [@ EXCEPT !.at = "answered", !.reply = r]]
        BY <2>3
      <3> DEFINE j == [job[g] EXCEPT !.at = "answered", !.reply = r]
      <3>2. g \in Gateways /\ job[g].at = "wait" /\ d = Turn(g) /\ c.req = Question(g)
        BY <1>3, <2>3 DEF Mine
      <3>3. /\ job[g] \in Jobs /\ JobFine(job[g]) /\ job[g].acct \in Accts
            /\ Turn(g) = Len(job[g].keys) + 1 /\ Len(job[g].keys) \in Nat
            /\ NumGateways \in Nat /\ Len(job[g].keys) < NumGateways
        BY <3>2, RequestFacts DEF JobFine
      <3>4. r \in Requests /\ RightAnswer(job[g], r)
        <4>1. Turn(g) <= NumGateways /\ r \in Answers(Turn(g), Question(g)) /\ GenTypeOK
          BY <3>1, <3>2, <3>3 DEF GenInv
        <4> QED BY <3>2, <3>3, <4>1, AnswersAreRight
      <3>5. /\ j \in Jobs /\ j.at = "answered" /\ j.acct = job[g].acct /\ j.keys = job[g].keys
            /\ j.addrs = job[g].addrs /\ j.reply = r
        BY <3>3, <3>4 DEF Jobs
      <3>6. job' = [job EXCEPT ![g] = j]
        BY <3>1
      <3> HIDE DEF j
      <3>7. JobFine(j)
        BY <3>2, <3>3, <3>4, <3>5 DEF JobFine, Collected, RightAnswer
      <3>8. \A h \in Gateways : Mine(h, c) => h = g
        BY DEF Mine
      <3>9. \A h \in Gateways : ~Mine(h, c) => h # g
        BY <2>3 DEF Mine
      <3> QED BY <1>1, <3>2, <3>5, <3>6, <3>7, <3>8, <3>9
    <2> QED BY <1>2, <2>1, <2>2, <2>3
  <1>5. ASSUME NEW h \in Gateways PROVE JobFine(job[h])' /\ OneRequest(h)'
    <2>1. CASE Mine(h, c)
      <3>1. JobFine(job[h])'
        BY <1>1, <1>4, <2>1, SameFine
      <3> QED BY <1>3, <1>4, <2>1, <3>1 DEF OneRequest
    <2>2. CASE ~Mine(h, c)
      <3>1. JobFine(job[h]) /\ job'[h] = job[h]
        BY <1>4, <2>2 DEF GenInv
      <3> QED BY <1>1, <1>3, <2>2, <3>1, SameFine
    <2> QED BY <2>1, <2>2
  <1>6. GenTypeOK'
    <2>1. \A h \in Gateways : Len(job'[h].addrs) \in {Len(job'[h].keys), Len(job'[h].keys) + 1}
      BY <1>5 DEF JobFine, Collected
    <2> QED BY <1>1, <1>3, <1>4, <2>1 DEF GenInv, GenTypeOK
  <1> QED BY <1>5, <1>6 DEF GenInv
(* Of call_gen_depositaddr only the job matters here. *)
LEMMA AnnounceStep ==
  ASSUME GenInv, NEW g \in Gateways, Announce(g)
  PROVE  GenInv'
  BY EndsStep DEF Announce, Jobless

LEMMA GenStep ==
  ASSUME GenInv, GenNext
  PROVE  GenInv'
  <1>1. PICK g \in Gateways :
          \/ Coinloop(g) \/ Serve(g) \/ ConnectionBreaks(g) \/ OtherConnection(g)
          \/ \E a \in Accts : Generate(g, a) \/ NewAddress(g, a)
    BY DEF GenNext
  <1>2. CASE Coinloop(g)
    BY <1>2, AskSelfStep, AskOtherStep, ReceiveStep, CreateMultisigStep DEF Coinloop
  <1>3. CASE Serve(g)
    BY <1>3, ServeStep
  <1>4. CASE ConnectionBreaks(g)
    BY <1>4, ConnectionBreaksStep
  <1>5. CASE OtherConnection(g)
    BY <1>5, OtherConnectionStep
  <1>6. CASE \E a \in Accts : Generate(g, a) \/ NewAddress(g, a)
    BY <1>6, GenerateStep, NewAddressStep
  <1> QED BY <1>1, <1>2, <1>3, <1>4, <1>5, <1>6

LEMMA GenStutter ==
  ASSUME GenInv, UNCHANGED genVars
  PROVE  GenInv'
  <1>1. UNCHANGED <<setting, wallet, job, server, count>>
    BY DEF genVars
  <1>2. GenTypeOK'
    BY <1>1 DEF GenInv, GenTypeOK
  <1>3. ASSUME NEW h \in Gateways PROVE JobFine(job[h])' /\ OneRequest(h)'
    <2>1. JobFine(job[h])'
      BY <1>1, SameFine DEF GenInv
    <2>2. OneRequest(h) /\ Turn(h)' = Turn(h) /\ Question(h)' = Question(h)
      BY <1>1, SameQuestion DEF GenInv
    <2> QED BY <1>1, <2>1, <2>2 DEF OneRequest
  <1> QED BY <1>2, <1>3 DEF GenInv

LEMMA GenInit ==
  ASSUME InitGen
  PROVE  GenInv
  <1>1. /\ setting \in Settings /\ wallet = [g \in Gateways |-> [a \in Accts |-> 1]]
        /\ job = [g \in Gateways |-> Idle] /\ server = [g \in Gateways |-> <<>>]
        /\ count = [gens |-> 0, fresh |-> 0, odd |-> 0]
    BY DEF InitGen
  <1>2. count \in [gens : 0..setting.gens, fresh : 0..setting.fresh, odd : 0..setting.odd]
    <2>1. setting.gens \in Nat /\ setting.fresh \in Nat /\ setting.odd \in Nat
      BY <1>1, AddressGenAssumption
    <2> QED BY <1>1, <2>1
  <1>3. \A g \in Gateways : Len(job[g].addrs) \in {Len(job[g].keys), Len(job[g].keys) + 1}
    BY <1>1, IdleFine DEF JobFine, Collected
  <1>4. <<>> \in Seq(Connections) /\ Len(<<>>) = 0
    OBVIOUS
  <1>5. server \in [Gateways -> Seq(Connections)]
    BY <1>1, <1>4
  <1>6. GenTypeOK
    BY <1>1, <1>2, <1>3, <1>5, IdleFine DEF GenTypeOK
  <1>7. ASSUME NEW g \in Gateways PROVE JobFine(job[g]) /\ OneRequest(g)
    BY <1>1, <1>4, IdleFine DEF OneRequest
  <1> QED BY <1>6, <1>7 DEF GenInv

-----------------------------------------------------------------------------
(* What GenInv says of a state.                                            *)

LEMMA GenInvMeans ==
  ASSUME GenInv
  PROVE  GenTypeOK /\ OneQuestion /\ MadeGenuine
  <1>1. ASSUME NEW g \in Gateways
        PROVE  LET mine(d) == {i \in DOMAIN server[d] : server[d][i].from = g /\ server[d][i].open}
               IN  IF job[g].at = "wait"
                     THEN \E i \in mine(Turn(g)) :
                            /\ server[Turn(g)][i].req = Question(g)
                            /\ \A d \in Gateways : \A k \in mine(d) : d = Turn(g) /\ k = i
                     ELSE \A d \in Gateways : mine(d) = {}
    <2> DEFINE mine(d) == {i \in DOMAIN server[d] : server[d][i].from = g /\ server[d][i].open}
    <2>1. \A d \in Gateways : mine(d) = {i \in 1..Len(server[d]) : Mine(g, server[d][i])}
      BY RequestFacts DEF Mine
    <2> HIDE DEF mine
    <2>2. OneRequest(g) /\ (job[g].at = "wait" => Turn(g) \in Gateways)
      BY RequestFacts
    <2>3. CASE job[g].at = "wait"
      <3>1. PICK i \in 1..Len(server[Turn(g)]) : Mine(g, server[Turn(g)][i])
        BY <2>2, <2>3 DEF OneRequest
      <3>2. i \in mine(Turn(g)) /\ server[Turn(g)][i].req = Question(g)
        BY <2>1, <2>2, <2>3, <3>1 DEF OneRequest
      <3>3. ASSUME NEW d \in Gateways, NEW k \in mine(d) PROVE d = Turn(g) /\ k = i
        <4>1. k \in 1..Len(server[d]) /\ Mine(g, server[d][k])
          BY <2>1, <3>3
        <4> QED BY <2>2, <3>1, <4>1 DEF OneRequest
      <3> QED BY <2>3, <3>2, <3>3 DEF mine
    <2>4. CASE job[g].at # "wait"
      <3>1. \A d \in Gateways : mine(d) = {}
        BY <2>1, <2>2, <2>4 DEF OneRequest
      <3> QED BY <2>4, <3>1 DEF mine
    <2> QED BY <2>3, <2>4
  <1>2. ASSUME NEW g \in Gateways, job[g].at = "made" PROVE Genuine(Made(g))
    <2>1. /\ Len(job[g].keys) = NumGateways /\ Collected(job[g]) /\ NumGateways \in Nat
          /\ \A i \in Gateways : job[g].keys[i] # NotAKey
      BY <1>2, AddressGenAssumption DEF GenInv, JobFine
    <2>2. Len(job[g].addrs) = NumGateways /\ Gateways = 1..NumGateways
      BY <2>1, RequestFacts DEF Collected, Gateways
    <2>3. \A i \in Gateways : /\ job[g].addrs[i] \in Given(i, job[g].acct)
                              /\ job[g].keys[i] = KeyOf(job[g].addrs[i])
      BY <2>1, <2>2 DEF Collected
    <2> QED BY <2>2, <2>3 DEF Genuine, Made
  <1> QED BY <1>1, <1>2 DEF GenInv, OneQuestion, MadeGenuine
-----------------------------------------------------------------------------
(* The wallets only grow, and what is genuine stays so.                    *)

Keeps == \A m : m.acct \in Accts /\ Genuine(m) => Genuine(m)'

LEMMA KeepsWhenGrown ==
  ASSUME GenTypeOK, GenTypeOK', Grown
  PROVE  Keeps
  <1> SUFFICES ASSUME NEW m, m.acct \in Accts, Genuine(m) PROVE Genuine(m)'
    BY DEF Keeps
  <1>1. ASSUME NEW i \in Gateways PROVE Given(i, m.acct) \subseteq Given(i, m.acct)'
    <2>1. wallet[i][m.acct] \in Nat /\ wallet'[i][m.acct] \in Nat
          /\ wallet[i][m.acct] <= wallet'[i][m.acct]
      <3>1. wallet \in [Gateways -> [Accts -> Nat \ {0}]]
        BY DEF GenTypeOK
      <3>2. wallet' \in [Gateways -> [Accts -> Nat \ {0}]]
        BY DEF GenTypeOK
      <3>3. wallet[i][m.acct] <= wallet'[i][m.acct]
        BY <1>1 DEF Grown
      <3> QED BY <3>1, <3>2, <3>3
    <2>2. \A v \in 1..wallet[i][m.acct] : v \in 1..wallet'[i][m.acct]
      BY <2>1
    <2> QED BY <2>2 DEF Given
  <1> QED BY <1>1 DEF Genuine

LEMMA KeepsWhenSame ==
  ASSUME UNCHANGED wallet
  PROVE  Keeps
  BY DEF Keeps, Genuine, Given

LEMMA WalletStep ==
  ASSUME GenInv, GenNext
  PROVE  Keeps /\ UNCHANGED setting
  <1>1. GenTypeOK /\ GenTypeOK'
    BY GenStep DEF GenInv
  <1>2. CASE UNCHANGED <<setting, wallet>>
    BY <1>2, KeepsWhenSame
  <1>3. CASE \E g \in Gateways, a \in Accts : NewAddress(g, a)
    <2>1. PICK g \in Gateways, a \in Accts : NewAddress(g, a)
      BY <1>3
    <2>2. wallet' = [wallet EXCEPT ![g][a] = @ + 1] /\ UNCHANGED setting
          /\ wallet \in [Gateways -> [Accts -> Nat \ {0}]]
      BY <1>1, <2>1 DEF NewAddress, GenTypeOK
    <2>3. Grown
      BY <2>2 DEF Grown
    <2> QED BY <1>1, <2>2, <2>3, KeepsWhenGrown
  <1> QED BY <1>2, <1>3 DEF GenNext, Coinloop, AskSelf, AskOther, Receive, CreateMultisig, Serve,
            ConnectionBreaks, OtherConnection, Generate

-----------------------------------------------------------------------------
(* The chain grows.                                                        *)

(* The facts about one node that the steps rest on. *)
LEMMA NodeFacts ==
  ASSUME BindInv, NEW n \in Nodes
  PROVE  /\ ScannersFine(n) /\ AddingFine(n) /\ ContentsFine(n)
         /\ chain \in Seq(Messages) /\ Len(chain) \in Nat
         /\ \A t \in {RT, HIST} : reader[n][t] \in Scanners
         /\ lists[n] \in [acct : [Accts -> Arrays], coin : Arrays]
         /\ lists[n].coin.num <= Len(lists[n].coin.slots)
         /\ \A a \in Accts : lists[n].acct[a].num <= Len(lists[n].acct[a].slots)
         /\ \A i \in 1..lists[n].coin.num : lists[n].coin.slots[i] \in Msigs
         /\ \A a \in Accts : \A k \in 1..lists[n].acct[a].num : lists[n].acct[a].slots[k] \in Msigs
         /\ \A t \in {RT, HIST} : reader[n][t].at # "read" =>
              /\ reader[n][t].next \in 1..Len(chain)
              /\ Message(n, t) \in Messages /\ ~Foreign(Message(n, t))
              /\ Genuine(Message(n, t).msig)
  <1>1. /\ ScannersFine(n) /\ AddingFine(n) /\ ContentsFine(n)
        /\ chain \in Seq(Messages) /\ Len(chain) \in Nat
        /\ \A t \in {RT, HIST} : reader[n][t] \in Scanners
        /\ lists[n] \in [acct : [Accts -> Arrays], coin : Arrays]
    BY DEF BindInv, ChainFine, NodesFine
  <1>2. ASSUME NEW t \in {RT, HIST}, reader[n][t].at # "read"
        PROVE  /\ reader[n][t].next \in 1..Len(chain)
               /\ Message(n, t) \in Messages /\ ~Foreign(Message(n, t))
               /\ Genuine(Message(n, t).msig)
    <2>1. /\ Reading(reader[n][t]) /\ ~Foreign(chain[reader[n][t].next])
          /\ reader[n][t].next \in Nat \ {0} /\ reader[n][t].last \in Int
      BY <1>1, <1>2 DEF ScannersFine, Scanners
    <2>2. reader[n][RT].last = 0 /\ reader[n][HIST].last # 0 /\ reader[n][HIST].last <= Len(chain)
      BY <1>1 DEF ScannersFine
    <2>3. CASE t = RT
      <3>1. reader[n][t].next \in 1..Len(chain)
        BY <1>1, <2>1, <2>2, <2>3 DEF Reading
      <3> QED BY <1>1, <2>1, <3>1 DEF Message, BindInv, ChainFine
    <2>4. CASE t = HIST
      <3>1. reader[n][t].next \in 1..Len(chain)
        BY <1>1, <2>1, <2>2, <2>4 DEF Reading
      <3> QED BY <1>1, <2>1, <3>1 DEF Message, BindInv, ChainFine
    <2> QED BY <2>3, <2>4
  <1>3. /\ \A l \in Arrays : l.slots \in Seq(Msigs) /\ l.num \in Nat /\ Len(l.slots) \in Nat
        /\ lists[n].coin \in Arrays /\ \A a \in Accts : lists[n].acct[a] \in Arrays
    <2>1. \A l \in Arrays : l.slots \in Seq(Msigs) /\ l.num \in Nat
      BY DEF Arrays
    <2>2. \A l \in Arrays : Len(l.slots) \in Nat
      BY <2>1
    <2> QED BY <1>1, <2>1, <2>2
  <1>4. /\ lists[n].coin.num <= Len(lists[n].coin.slots)
        /\ \A a \in Accts : lists[n].acct[a].num <= Len(lists[n].acct[a].slots)
    <2>1. CASE \A t \in {RT, HIST} : reader[n][t].at # "count"
      BY <1>1, <1>3, <2>1 DEF AddingFine, Full
    <2>2. CASE \E t \in {RT, HIST} : reader[n][t].at = "count"
      <3>1. PICK t \in {RT, HIST} : reader[n][t].at = "count"
        BY <2>2
      <3> DEFINE m == Message(n, t).msig
      <3>2. /\ HalfAdded(lists[n].coin, m) /\ HalfAdded(lists[n].acct[m.acct], m)
            /\ \A a \in Accts \ {m.acct} : Full(lists[n].acct[a])
        BY <1>1, <3>1 DEF AddingFine
      <3>3. \A l \in Arrays : Full(l) \/ HalfAdded(l, m) => l.num <= Len(l.slots)
        BY <1>3 DEF Full, HalfAdded
      <3> HIDE DEF m
      <3> QED BY <1>3, <3>2, <3>3
    <2> QED BY <2>1, <2>2
  <1>5. /\ \A i \in 1..lists[n].coin.num : lists[n].coin.slots[i] \in Msigs
        /\ \A a \in Accts : \A k \in 1..lists[n].acct[a].num : lists[n].acct[a].slots[k] \in Msigs
    <2>1. \A l \in Arrays : l.num <= Len(l.slots) => \A i \in 1..l.num : l.slots[i] \in Msigs
      BY <1>3
    <2> QED BY <1>3, <1>4, <2>1
  <1> QED BY <1>1, <1>2, <1>4, <1>5

(* What is on an account's own list is on the node's list, and conversely. *)
LEMMA OwnInCoin ==
  ASSUME NEW coin, NEW own, SameMsigs(coin, own), NEW a \in Accts, NEW k \in 1..own[a].num
  PROVE  /\ own[a].slots[k].acct = a
         /\ \E i \in 1..coin.num : coin.slots[i] = own[a].slots[k]
  BY DEF SameMsigs

LEMMA CoinInOwn ==
  ASSUME NEW coin, NEW own, SameMsigs(coin, own), NEW i \in 1..coin.num
  PROVE  \E k \in 1..own[coin.slots[i].acct].num :
            own[coin.slots[i].acct].slots[k] = coin.slots[i]
  BY DEF SameMsigs

LEMMA ContentsStay ==
  ASSUME BindInv, NEW n \in Nodes, lists'[n] = lists[n], Keeps
  PROVE  ContentsFine(n)'
  <1>1. /\ ContentsFine(n)
        /\ \A i \in 1..lists[n].coin.num : lists[n].coin.slots[i].acct \in Accts
    BY NodeFacts DEF Msigs
  <1> QED BY <1>1 DEF ContentsFine, AllGenuine, Keeps

(* Nothing changes at a node but perhaps the end of the chain. *)
LEMMA NodeStays ==
  ASSUME BindInv, NEW n \in Nodes, lists'[n] = lists[n], reader'[n] = reader[n], Keeps,
         chain' = chain \/ \E m \in Messages :
           chain' = Append(chain, m) /\ (InHistory(n) => Foreign(m))
  PROVE  ScannersFine(n)' /\ AddingFine(n)' /\ ContentsFine(n)'
  <1>1. /\ ScannersFine(n) /\ AddingFine(n) /\ Len(chain) \in Nat
        /\ \A t \in {RT, HIST} : reader[n][t] \in Scanners
        /\ \A t \in {RT, HIST} : reader[n][t].at # "read" =>
              reader[n][t].next \in 1..Len(chain)
    BY NodeFacts
  <1>2. /\ \A i \in 1..Len(chain) : chain'[i] = chain[i]
        /\ Len(chain') \in {Len(chain), Len(chain) + 1}
        /\ InHistory(n) /\ Len(chain') = Len(chain) + 1 => Foreign(chain'[Len(chain) + 1])
    BY AppendIs DEF BindInv, ChainFine
  <1>3. InHistory(n)' <=> InHistory(n)
    BY <1>1 DEF InHistory, Reading, ScannersFine
  <1>4. ASSUME NEW t \in {RT, HIST}, reader[n][t].at # "read"
        PROVE  Reading(reader[n][t])' /\ ~Foreign(chain'[reader[n][t].next])
               /\ Message(n, t)' = Message(n, t)
    <2>1. Reading(reader[n][t]) /\ ~Foreign(chain[reader[n][t].next])
      BY <1>1, <1>4 DEF ScannersFine
    <2>2. reader[n][t].next \in Nat /\ reader[n][t].last \in Int
          /\ reader[n][t].next \in 1..Len(chain)
      BY <1>1, <1>4 DEF Scanners
    <2>3. Reading(reader[n][t])'
      BY <1>1, <1>2, <2>1, <2>2 DEF Reading
    <2> QED BY <1>2, <2>1, <2>2, <2>3 DEF Message
  <1>5. ScannersFine(n)'
    <2>1. \A t \in {RT, HIST} : reader[n][t].next \in Nat
      BY <1>1 DEF Scanners
    <2>2. reader[n][HIST].last \in Int
      BY <1>1 DEF Scanners
    <2>3. InHistory(n) => \A i \in 1..Len(chain') : i > reader[n][HIST].last => Foreign(chain'[i])
      BY <1>1, <1>2 DEF ScannersFine, Foreign
    <2> QED BY <1>1, <1>2, <1>3, <1>4, <2>1, <2>2, <2>3 DEF ScannersFine, Foreign
  <1>6. AddingFine(n)'
    <2>1. \A t \in {RT, HIST} : reader[n][t].at = "count" => reader[n][t].at # "read"
      OBVIOUS
    <2>2. \A t \in {RT, HIST} : reader[n][t].at # "read" =>
            \A i \in 1..lists[n].coin.num : lists[n].coin.slots[i] # Message(n, t)'.msig
      BY <1>1, <1>4 DEF AddingFine
    <2>3. ASSUME NEW t \in {RT, HIST}, reader[n][t].at = "count"
          PROVE  LET m == Message(n, t)'.msig
                 IN  /\ HalfAdded(lists[n].coin, m) /\ HalfAdded(lists[n].acct[m.acct], m)
                     /\ \A a \in Accts \ {m.acct} : Full(lists[n].acct[a])
      <3>1. Message(n, t)' = Message(n, t)
        BY <1>4, <2>1, <2>3
      <3> QED BY <1>1, <2>3, <3>1 DEF AddingFine
    <2>4. (\A t \in {RT, HIST} : reader[n][t].at # "count") =>
             Full(lists[n].coin) /\ \A a \in Accts : Full(lists[n].acct[a])
      BY <1>1 DEF AddingFine
    <2> QED BY <2>2, <2>3, <2>4 DEF AddingFine, Full, HalfAdded
  <1> QED BY <1>5, <1>6, ContentsStay
(* A message that no node must bind while it reads its history arrives. *)
LEMMA ChainStep ==
  ASSUME BindInv, UNCHANGED <<wallet, setting, lists, reader, restarts>>, NEW m \in Messages,
         chain' = Append(chain, m), ~Foreign(m) => Genuine(m.msig),
         Foreign(m) \/ \A n \in Nodes : ~InHistory(n)
  PROVE  ChainFine' /\ NodesFine'
  <1>1. Keeps
    BY KeepsWhenSame
  <1>2. \A n \in Nodes : ScannersFine(n)' /\ AddingFine(n)' /\ ContentsFine(n)'
    BY <1>1, NodeStays
  <1>3. NodesFine'
    BY <1>2 DEF BindInv, NodesFine
  <1>4. ChainFine'
    <2>1. chain \in Seq(Messages)
      BY DEF BindInv, ChainFine
    <2>2. /\ Len(chain) \in Nat /\ chain' \in Seq(Messages) /\ Len(chain') = Len(chain) + 1
          /\ chain'[Len(chain) + 1] = m
          /\ \A i \in 1..Len(chain) : chain'[i] = chain[i] /\ chain[i] \in Messages
      BY <2>1, AppendIs
    <2>3. ASSUME NEW i \in 1..Len(chain'), ~Foreign(chain'[i]) PROVE Genuine(chain[i].msig)'
      <3>1. \A x : x \in Messages /\ Genuine(x.msig) => Genuine(x.msig)'
        BY <1>1 DEF Keeps, Messages, Msigs
      <3>2. CASE i = Len(chain) + 1
        BY <2>2, <2>3, <3>1, <3>2
      <3>3. CASE i # Len(chain) + 1
        BY <2>2, <2>3, <3>1, <3>3 DEF BindInv, ChainFine
      <3> QED BY <3>2, <3>3
    <2> QED BY <2>2, <2>3 DEF ChainFine, Foreign
  <1> QED BY <1>3, <1>4

(* Nothing is announced, and no node reads: the wallets may grow. *)
LEMMA StillStep ==
  ASSUME BindInv, UNCHANGED <<setting, chain, lists, reader, restarts>>, Keeps
  PROVE  ChainFine' /\ NodesFine'
  <1>1. \A n \in Nodes : ScannersFine(n)' /\ AddingFine(n)' /\ ContentsFine(n)'
    BY NodeStays
  <1>2. \A i \in 1..Len(chain) : chain[i].msig.acct \in Accts
    <2>1. chain \in Seq(Messages)
      BY DEF BindInv, ChainFine
    <2>2. \A i \in 1..Len(chain) : chain[i] \in Messages
      BY <2>1
    <2> QED BY <2>2 DEF Messages, Msigs
  <1> QED BY <1>1, <1>2 DEF BindInv, NodesFine, ChainFine, Keeps, Foreign

LEMMA AnnounceBind ==
  ASSUME BindInv, \A c \in Settings : c.quiet, NEW g \in Gateways, Announce(g)
  PROVE  ChainFine' /\ NodesFine'
  <1>1. job[g].at = "made" /\ UNCHANGED <<setting, wallet, lists, reader, restarts>>
    BY DEF Announce
  <1>2. CASE UNCHANGED chain
    BY <1>1, <1>2, StillStep, KeepsWhenSame
  <1>3. CASE /\ setting.quiet => \A n \in Nodes : ~InHistory(n)
             /\ chain' = Append(chain, [sender |-> g, msig |-> Made(g)])
    <2> DEFINE m == [sender |-> g, msig |-> Made(g)]
    <2>1. setting.quiet /\ job[g] \in Jobs /\ job[g].acct \in Accts /\ Genuine(Made(g))
      BY <1>1, GenInvMeans DEF BindInv, GenInv, GenTypeOK, JobFine, MadeGenuine
    <2>2. Made(g) \in Msigs
      BY <2>1 DEF Made, Msigs, Jobs
    <2>3. m \in Messages /\ m.msig = Made(g)
      BY <2>2, Peer DEF Messages
    <2>4. chain' = Append(chain, m)
      BY <1>3
    <2> HIDE DEF m
    <2> QED BY <1>1, <1>3, <2>1, <2>3, <2>4, ChainStep
  <1> QED BY <1>2, <1>3 DEF Announce

(* A sequence of one thing, n times. *)
LEMMA Repeated ==
  ASSUME NEW S, NEW x \in S, NEW n \in Nat
  PROVE  [i \in 1..n |-> x] \in Seq(S) /\ Len([i \in 1..n |-> x]) = n
  OBVIOUS

LEMMA OtherMessageBind ==
  ASSUME BindInv, NEW a \in Accts, OtherMessage(a)
  PROVE  ChainFine' /\ NodesFine'
  <1> DEFINE addrs(s) == [i \in 1..(IF s = STRANGER THEN NumGateways ELSE NumGateways - 1) |->
                            Address(STRANGER, a, 1)]
             keys(s) == [i \in DOMAIN addrs(s) |-> KeyOf(addrs(s)[i])]
             m(s) == [sender |-> s,
                      msig |-> [acct |-> a, multisigaddr |-> <<"multisig", keys(s)>>,
                                addrs |-> addrs(s), keys |-> keys(s)]]
  <1>1. UNCHANGED <<setting, wallet, lists, reader, restarts>>
    BY DEF OtherMessage, genVars
  <1>2. PICK s \in {STRANGER, 1} : chain' = Append(chain, m(s))
    BY DEF OtherMessage
  <1>3. NumGateways \in Nat \ {0} /\ 0 \in Peers /\ 1 \in Peers
    BY AddressGenAssumption DEF Peers, Gateways, STRANGER
  <1>4. Address(STRANGER, a, 1) \in Addresses
    BY <1>3, WellFormed DEF STRANGER
  <1>5. /\ addrs(s) \in Seq(Addresses) /\ keys(s) \in Seq(Keys)
        /\ Len(keys(s)) = IF s = STRANGER THEN NumGateways ELSE NumGateways - 1
    <2> DEFINE n == IF s = STRANGER THEN NumGateways ELSE NumGateways - 1
    <2>1. n \in Nat
      BY <1>3
    <2>2. DOMAIN addrs(s) = 1..n /\ \A i \in 1..n : addrs(s)[i] = Address(STRANGER, a, 1)
      OBVIOUS
    <2>3. addrs(s) \in Seq(Addresses)
      <3> HIDE DEF n
      <3> QED BY <1>4, <2>1, Repeated DEF n
    <2>4. keys(s) = [i \in 1..n |-> KeyOf(Address(STRANGER, a, 1))]
      <3> HIDE DEF n, addrs
      <3> QED BY <2>2
    <2>5. KeyOf(Address(STRANGER, a, 1)) \in Keys
      BY <1>4, WellFormed
    <2>6. keys(s) \in Seq(Keys) /\ Len(keys(s)) = n
      <3> HIDE DEF n, keys
      <3> QED BY <2>1, <2>4, <2>5, Repeated
    <2> QED BY <2>3, <2>6 DEF n
  <1> HIDE DEF addrs, keys
  <1>6. m(s) \in Messages /\ Foreign(m(s))
    <2>1. m(s).msig \in Msigs
      BY <1>5 DEF Msigs
    <2>2. m(s) \in Messages
      BY <1>2, <1>3, <2>1 DEF Messages, STRANGER
    <2>3. m(s).sender = s /\ m(s).msig.keys = keys(s)
      OBVIOUS
    <2>4. s = STRANGER \/ NumGateways - 1 # NumGateways
      BY <1>3
    <2> QED BY <1>3, <1>5, <2>2, <2>3, <2>4 DEF Foreign
  <1> HIDE DEF m
  <1> QED BY <1>1, <1>2, <1>6, ChainStep
-----------------------------------------------------------------------------
(* A node's scanners.                                                      *)

(* Only one of a node's two scanners adds at a time: what the real time    *)
(* scan meets while the other reads is nothing to bind.                    *)
LEMMA OneAdds ==
  ASSUME BindInv, NEW n \in Nodes
  PROVE  reader[n][RT].at = "read" \/ reader[n][HIST].at = "read"
  <1> SUFFICES ASSUME reader[n][RT].at # "read", reader[n][HIST].at # "read" PROVE FALSE
    OBVIOUS
  <1>1. /\ reader[n][RT].next \in 1..Len(chain) /\ ~Foreign(Message(n, RT))
        /\ ScannersFine(n) /\ Len(chain) \in Nat
        /\ reader[n][HIST] \in Scanners
    BY NodeFacts
  <1>2. InHistory(n) /\ reader[n][HIST].last < reader[n][RT].next /\ reader[n][HIST].last \in Int
    BY <1>1 DEF ScannersFine, InHistory, Scanners
  <1>3. Foreign(chain[reader[n][RT].next])
    BY <1>1, <1>2 DEF ScannersFine
  <1> QED BY <1>1, <1>3 DEF Message

(* A step of one node's scanner leaves the other nodes alone. *)
LEMMA OthersStay ==
  ASSUME BindInv, UNCHANGED <<genVars, chain, restarts>>, NEW n \in Nodes,
         \A k \in Nodes \ {n} : lists'[k] = lists[k] /\ reader'[k] = reader[k],
         lists' \in [Nodes -> [acct : [Accts -> Arrays], coin : Arrays]],
         reader' \in [Nodes -> [{RT, HIST} -> Scanners]],
         ScannersFine(n)', AddingFine(n)', ContentsFine(n)'
  PROVE  BindInv'
  <1>1. UNCHANGED <<setting, wallet>>
    BY DEF genVars
  <1>2. Keeps
    BY <1>1, KeepsWhenSame
  <1>3. \A k \in Nodes \ {n} : ScannersFine(k)' /\ AddingFine(k)' /\ ContentsFine(k)'
    BY <1>2, NodeStays
  <1>4. NodesFine'
    BY <1>1, <1>3 DEF BindInv, NodesFine
  <1>5. ChainFine'
    <2>1. \A i \in 1..Len(chain) : chain[i] \in Messages
      BY NodeFacts
    <2> QED BY <1>2, <2>1 DEF BindInv, ChainFine, Keeps, Foreign, Messages, Msigs
  <1> QED BY <1>4, <1>5, GenStutter DEF BindInv

(* The msigs of an array are those in its first slots. *)
LEMMA HeldIs ==
  ASSUME NEW l \in Arrays, l.num <= Len(l.slots)
  PROVE  DOMAIN Held(l) = 1..l.num /\ \A k \in 1..l.num : Held(l)[k] = l.slots[k]
  <1>1. l.num \in Nat /\ l.slots \in Seq(Msigs)
    BY DEF Arrays
  <1>2. \A k \in 1..l.num : k <= Len(l.slots)
    BY <1>1
  <1> QED BY <1>2 DEF Held

LEMMA MeetStep ==
  ASSUME BindInv, NEW n \in Nodes, NEW t \in {RT, HIST}, Meet(n, t)
  PROVE  BindInv'
  <1> DEFINE s == reader[n][t]  m == Message(n, t)
             r == IF Bindable(n, t) THEN [s EXCEPT !.at = "add"] ELSE [s EXCEPT !.next = @ + 1]
  <1>1. /\ s.at = "read" /\ Reading(s) /\ UNCHANGED <<genVars, chain, lists, restarts>>
        /\ reader' = [reader EXCEPT ![n][t] = r]
    BY DEF Meet
  <1>2. /\ ScannersFine(n) /\ AddingFine(n) /\ ContentsFine(n) /\ Len(chain) \in Nat
        /\ \A u \in {RT, HIST} : reader[n][u] \in Scanners
        /\ reader \in [Nodes -> [{RT, HIST} -> Scanners]]
        /\ lists \in [Nodes -> [acct : [Accts -> Arrays], coin : Arrays]]
        /\ chain \in Seq(Messages)
    BY NodeFacts DEF BindInv, NodesFine
  <1>3. s.next \in 1..Len(chain) /\ s.last \in Int /\ s.next \in Nat \ {0}
    <2>1. s.next \in Nat \ {0} /\ s.last \in Int
      BY <1>2 DEF Scanners
    <2>2. s.last = 0 \/ s.last <= Len(chain)
      BY <1>2 DEF ScannersFine
    <2> QED BY <1>1, <1>2, <2>1, <2>2 DEF Reading
  <1>4. m \in Messages
    BY <1>2, <1>3 DEF Message
  <1>5. r \in Scanners
    BY <1>2, <1>3 DEF Scanners
  <1>6. /\ r.last = s.last
        /\ \/ r.at = "add" /\ r.next = s.next /\ Bindable(n, t)
           \/ r.at = "read" /\ r.next = s.next + 1
    BY <1>1, <1>2, <1>3 DEF Scanners
  <1> HIDE DEF r
  <1>7. /\ reader' \in [Nodes -> [{RT, HIST} -> Scanners]] /\ reader'[n][t] = r
        /\ \A u \in {RT, HIST} : u # t => reader'[n][u] = reader[n][u]
        /\ \A k \in Nodes \ {n} : reader'[k] = reader[k]
    BY <1>1, <1>2, <1>5
  <1>8. Bindable(n, t) => ~Foreign(m) /\
          \A i \in 1..lists[n].coin.num : lists[n].coin.slots[i] # m.msig
    <2> SUFFICES ASSUME Bindable(n, t)
                 PROVE  ~Foreign(m) /\
                        \A i \in 1..lists[n].coin.num : lists[n].coin.slots[i] # m.msig
      OBVIOUS
    <2>1. m.sender \in Gateways /\ Len(m.msig.keys) = NumGateways /\ ~Known(n, m.msig)
      BY DEF Bindable, Decoded
    <2>2. ASSUME NEW i \in 1..lists[n].coin.num, lists[n].coin.slots[i] = m.msig PROVE FALSE
      <3> DEFINE own == lists[n].acct[m.msig.acct]
      <3>1. m.msig.acct \in Accts
        BY <1>4 DEF Messages, Msigs
      <3>2. PICK k \in 1..own.num : own.slots[k] = m.msig
        <4>1. PICK coin, all : coin = lists[n].coin /\ all = lists[n].acct
          OBVIOUS
        <4>2. SameMsigs(coin, all) /\ i \in 1..coin.num /\ coin.slots[i] = m.msig
          BY <1>2, <2>2, <4>1 DEF ContentsFine
        <4> HIDE DEF m
        <4>3. \E k \in 1..all[m.msig.acct].num : all[m.msig.acct].slots[k] = m.msig
          BY <4>2, CoinInOwn
        <4> QED BY <4>1, <4>3
      <3>3. own.num <= Len(own.slots)
        BY <3>1, NodeFacts
      <3>4. own \in Arrays
        BY <1>2, <3>1
      <3>6. Held(own)[k] = m.msig
        BY <3>2, <3>3, <3>4, HeldIs
      <3> QED BY <2>1, <3>2, <3>6 DEF Known, Same
    <2> QED BY <2>1, <2>2, Peer DEF Foreign, STRANGER
  <1>9. InHistory(n)' => InHistory(n)
    <2>1. CASE t = RT
      BY <1>1, <1>2, <1>7, <2>1 DEF InHistory, Reading, RT, HIST
    <2>2. CASE t = HIST
      BY <1>1, <2>2 DEF InHistory
    <2> QED BY <2>1, <2>2
  <1>10. ScannersFine(n)'
    <2>1. /\ reader'[n][RT].last = 0 /\ reader'[n][HIST].last # 0
          /\ reader'[n][HIST].last <= Len(chain)
      BY <1>2, <1>6, <1>7 DEF ScannersFine
    <2>2. reader'[n][HIST].last = reader[n][HIST].last /\ reader[n][HIST].last \in Int
      BY <1>2, <1>6, <1>7 DEF Scanners
    <2>3. reader'[n][RT].next >= reader[n][RT].next /\ reader[n][RT].next \in Nat
          /\ reader'[n][RT].next \in Nat
      BY <1>2, <1>3, <1>6, <1>7 DEF Scanners
    <2>4. reader'[n][HIST].last < reader'[n][RT].next
      BY <1>2, <2>2, <2>3 DEF ScannersFine
    <2>5. ASSUME NEW u \in {RT, HIST}
          PROVE  /\ reader'[n][u].next <= Len(chain) + 1
                 /\ reader'[n][u].at # "read" =>
                      Reading(reader[n][u])' /\ ~Foreign(chain[reader'[n][u].next])
      <3>1. CASE u = t
        BY <1>1, <1>2, <1>3, <1>6, <1>7, <1>8, <3>1 DEF Reading, Message
      <3>2. CASE u # t
        BY <1>1, <1>2, <1>7, <3>2 DEF ScannersFine, Reading
      <3> QED BY <3>1, <3>2
    <2> QED BY <1>1, <1>2, <1>9, <2>1, <2>2, <2>4, <2>5 DEF ScannersFine, Foreign
  <1>11. AddingFine(n)'
    <2>1. \A u \in {RT, HIST} : reader'[n][u].at = "count" =>
            reader[n][u].at = "count" /\ u # t
      BY <1>6, <1>7
    <2>2. \A u \in {RT, HIST} : reader[n][u].at = "count" => reader'[n][u].at = "count"
      BY <1>1, <1>7
    <2>3. \A u \in {RT, HIST} : reader'[n][u].at # "read" => Message(n, u)' = Message(n, u)
      BY <1>1, <1>6, <1>7 DEF Message
    <2>4. \A u \in {RT, HIST} : reader'[n][u].at # "read" =>
            \A i \in 1..lists[n].coin.num : lists[n].coin.slots[i] # Message(n, u).msig
      BY <1>2, <1>6, <1>7, <1>8 DEF AddingFine
    <2> QED BY <1>1, <1>2, <2>1, <2>2, <2>3, <2>4 DEF AddingFine, Full, HalfAdded
  <1>12. ContentsFine(n)'
    <2>1. UNCHANGED wallet
      BY <1>1 DEF genVars
    <2> QED BY <1>1, <2>1, ContentsStay, KeepsWhenSame
  <1> QED BY <1>1, <1>2, <1>7, <1>10, <1>11, <1>12, OthersStay
(* The facts about a scanner that adds a msig. *)
LEMMA Adding ==
  ASSUME BindInv, NEW n \in Nodes, NEW t \in {RT, HIST}, reader[n][t].at # "read"
  PROVE  /\ Message(n, t).msig \in Msigs /\ Message(n, t).msig.acct \in Accts
         /\ Genuine(Message(n, t).msig) /\ ~Foreign(Message(n, t))
         /\ Reading(reader[n][t]) /\ reader[n][t].next \in 1..Len(chain)
         /\ \A i \in 1..lists[n].coin.num : lists[n].coin.slots[i] # Message(n, t).msig
         /\ \A u \in {RT, HIST} : u # t => reader[n][u].at = "read"
  <1>1. /\ Message(n, t) \in Messages /\ Genuine(Message(n, t).msig) /\ ~Foreign(Message(n, t))
        /\ reader[n][t].next \in 1..Len(chain) /\ ScannersFine(n) /\ AddingFine(n)
    BY NodeFacts
  <1>2. Message(n, t).msig \in Msigs /\ Message(n, t).msig.acct \in Accts
    BY <1>1 DEF Messages, Msigs
  <1>3. \A u \in {RT, HIST} : u # t => reader[n][u].at = "read"
    BY OneAdds
  <1> QED BY <1>1, <1>2, <1>3 DEF ScannersFine, AddingFine

(* The slot after a full array's last is new. *)
LEMMA WrittenIs ==
  ASSUME NEW l \in Arrays, NEW m \in Msigs, Full(l)
  PROVE  /\ Written(l, m) \in Arrays /\ Written(l, m).num = l.num /\ HalfAdded(Written(l, m), m)
         /\ \A i \in 1..l.num : Written(l, m).slots[i] = l.slots[i]
  <1>1. l.slots \in Seq(Msigs) /\ l.num \in Nat /\ Len(l.slots) = l.num
    BY DEF Arrays, Full
  <1>2. Written(l, m) = [l EXCEPT !.slots = Append(l.slots, m)]
    BY <1>1 DEF Written
  <1>3. Append(l.slots, m) \in Seq(Msigs)
    BY <1>1
  <1>4. Written(l, m) \in Arrays /\ Written(l, m).num = l.num
        /\ Written(l, m).slots = Append(l.slots, m)
    BY <1>2, <1>3 DEF Arrays
  <1> QED BY <1>1, <1>4, AppendIs DEF HalfAdded

LEMMA CountedIs ==
  ASSUME NEW l \in Arrays, NEW m, HalfAdded(l, m)
  PROVE  /\ Counted(l) \in Arrays /\ Counted(l).num = l.num + 1 /\ Counted(l).slots = l.slots
         /\ Full(Counted(l)) /\ Counted(l).slots[l.num + 1] = m
  <1>1. Counted(l) \in Arrays /\ Counted(l).num = l.num + 1 /\ Counted(l).slots = l.slots
    BY DEF Counted, Arrays
  <1> QED BY <1>1 DEF Full, HalfAdded

(* Msigs that are written beyond what is counted change nothing. *)
LEMMA SameMsigsStay ==
  ASSUME NEW coin, NEW own, SameMsigs(coin, own), NEW coin2, NEW own2, coin2.num = coin.num,
         \A i \in 1..coin.num : coin2.slots[i] = coin.slots[i] /\ coin.slots[i].acct \in Accts,
         \A a \in Accts : /\ own2[a].num = own[a].num
                          /\ \A k \in 1..own[a].num : own2[a].slots[k] = own[a].slots[k]
  PROVE  SameMsigs(coin2, own2)
  <1>1. ASSUME NEW i \in 1..coin.num
        PROVE  /\ \E k \in 1..own2[coin2.slots[i].acct].num :
                    own2[coin2.slots[i].acct].slots[k] = coin2.slots[i]
               /\ \A k \in 1..coin.num : coin2.slots[k] = coin2.slots[i] => k = i
    BY DEF SameMsigs
  <1>2. ASSUME NEW a \in Accts, NEW k \in 1..own2[a].num
        PROVE  /\ own2[a].slots[k].acct = a
               /\ \E i \in 1..coin.num : coin2.slots[i] = own2[a].slots[k]
    BY DEF SameMsigs
  <1> QED BY <1>1, <1>2 DEF SameMsigs

LEMMA WriteStep ==
  ASSUME BindInv, NEW n \in Nodes, NEW t \in {RT, HIST}, Write(n, t)
  PROVE  BindInv'
  <1> DEFINE m == Message(n, t).msig
             own == lists[n].acct
             coin == lists[n].coin
  <1>1. /\ reader[n][t].at = "add" /\ UNCHANGED <<genVars, chain, restarts>>
        /\ lists' = [lists EXCEPT ![n].acct[m.acct] = Written(@, m), ![n].coin = Written(@, m)]
        /\ reader' = [reader EXCEPT ![n][t].at = "count"]
    BY DEF Write
  <1>2. /\ lists \in [Nodes -> [acct : [Accts -> Arrays], coin : Arrays]]
        /\ reader \in [Nodes -> [{RT, HIST} -> Scanners]]
        /\ ScannersFine(n) /\ AddingFine(n) /\ ContentsFine(n)
    BY NodeFacts DEF BindInv, NodesFine
  <1>3. /\ m \in Msigs /\ m.acct \in Accts /\ Reading(reader[n][t])
        /\ \A i \in 1..coin.num : coin.slots[i] # m
        /\ \A u \in {RT, HIST} : u # t => reader[n][u].at = "read"
    BY <1>1, Adding
  <1> HIDE DEF m
  <1>4. \A a \in Accts : Full(own[a])
    BY <1>1, <1>2, <1>3 DEF AddingFine
  <1>5. Full(coin)
    BY <1>1, <1>2, <1>3 DEF AddingFine
  <1>6. coin \in Arrays /\ own \in [Accts -> Arrays]
    BY <1>2
  <1> DEFINE c == Written(coin, m)  o == Written(own[m.acct], m)
  <1>7. /\ c \in Arrays /\ c.num = coin.num /\ HalfAdded(c, m)
        /\ \A i \in 1..coin.num : c.slots[i] = coin.slots[i]
    BY <1>3, <1>5, <1>6, WrittenIs
  <1>8. /\ o \in Arrays /\ o.num = own[m.acct].num /\ HalfAdded(o, m)
        /\ \A i \in 1..own[m.acct].num : o.slots[i] = own[m.acct].slots[i]
    BY <1>3, <1>4, <1>6, WrittenIs
  <1>9. lists' = [lists EXCEPT ![n].acct[m.acct] = o, ![n].coin = c]
    BY <1>1
  <1> HIDE DEF c, o
  <1>10. /\ lists' \in [Nodes -> [acct : [Accts -> Arrays], coin : Arrays]]
         /\ lists'[n].coin = c /\ lists'[n].acct[m.acct] = o
         /\ \A a \in Accts \ {m.acct} : lists'[n].acct[a] = own[a]
         /\ \A k \in Nodes \ {n} : lists'[k] = lists[k]
    BY <1>2, <1>3, <1>7, <1>8, <1>9
  <1>11. /\ reader' \in [Nodes -> [{RT, HIST} -> Scanners]]
         /\ reader'[n][t].at = "count" /\ reader'[n][t].next = reader[n][t].next
         /\ reader'[n][t].last = reader[n][t].last
         /\ \A u \in {RT, HIST} : u # t => reader'[n][u] = reader[n][u]
         /\ \A k \in Nodes \ {n} : reader'[k] = reader[k]
    <2> DEFINE r == [reader[n][t] EXCEPT !.at = "count"]
    <2>1. /\ r \in Scanners /\ r.at = "count" /\ r.next = reader[n][t].next
          /\ r.last = reader[n][t].last
      <3>1. PICK s \in Scanners : s = reader[n][t]
        BY <1>2
      <3>2. r = [s EXCEPT !.at = "count"]
        BY <3>1
      <3> HIDE DEF r
      <3> QED BY <3>1, <3>2 DEF Scanners
    <2>2. reader' = [reader EXCEPT ![n][t] = r]
      BY <1>1
    <2> HIDE DEF r
    <2> QED BY <1>2, <2>1, <2>2
  <1>12. /\ \A u \in {RT, HIST} : /\ reader'[n][u].next = reader[n][u].next
                                  /\ reader'[n][u].last = reader[n][u].last
                                  /\ Message(n, u)' = Message(n, u)
                                  /\ Reading(reader[n][u])' <=> Reading(reader[n][u])
         /\ Message(n, t).msig = m
    <2>1. \A u \in {RT, HIST} : /\ reader'[n][u].next = reader[n][u].next
                                /\ reader'[n][u].last = reader[n][u].last
      BY <1>11
    <2>2. chain' = chain /\ Message(n, t).msig = m
      BY <1>1 DEF m
    <2>3. \A u \in {RT, HIST} : Message(n, u)' = Message(n, u)
      BY <2>1, <2>2 DEF Message
    <2>4. \A u \in {RT, HIST} : Reading(reader[n][u])' <=> Reading(reader[n][u])
      BY <2>1, <2>2 DEF Reading
    <2> QED BY <2>1, <2>2, <2>3, <2>4
  <1>13. ScannersFine(n)'
    <2>1. InHistory(n)' <=> InHistory(n)
      BY <1>12 DEF InHistory
    <2>2. \A u \in {RT, HIST} : reader'[n][u].at # "read" => reader[n][u].at # "read"
      BY <1>1, <1>11
    <2> QED BY <1>1, <1>2, <1>12, <2>1, <2>2 DEF ScannersFine, Foreign
  <1>14. AddingFine(n)'
    <2>1. \A u \in {RT, HIST} : reader'[n][u].at # "read" => u = t
      BY <1>3, <1>11
    <2>2. \A u \in {RT, HIST} : reader'[n][u].at # "read" =>
            \A i \in 1..c.num : c.slots[i] # m
      BY <1>3, <1>7
    <2>3. HalfAdded(c, m) /\ HalfAdded(o, m) /\ \A a \in Accts \ {m.acct} : Full(lists'[n].acct[a])
      BY <1>4, <1>7, <1>8, <1>10 DEF Full
    <2>4. Message(n, t)' = Message(n, t)
      BY <1>12
    <2> QED BY <1>10, <1>11, <1>12, <2>1, <2>2, <2>3, <2>4 DEF AddingFine
  <1>15. ContentsFine(n)'
    <2>1. UNCHANGED wallet
      BY <1>1 DEF genVars
    <2>2. \A a \in Accts : /\ lists'[n].acct[a].num = own[a].num
                           /\ \A k \in 1..own[a].num : lists'[n].acct[a].slots[k] = own[a].slots[k]
      BY <1>8, <1>10
    <2>3. \A i \in 1..coin.num : coin.slots[i].acct \in Accts
      BY NodeFacts DEF Msigs
    <2>4. SameMsigs(coin, own) /\ AllGenuine(n)
      BY <1>2 DEF ContentsFine
    <2>5. SameMsigs(lists'[n].coin, lists'[n].acct)
      BY <1>7, <1>10, <2>2, <2>3, <2>4, SameMsigsStay
    <2>6. AllGenuine(n)'
      BY <1>7, <1>10, <2>1, <2>3, <2>4, KeepsWhenSame DEF AllGenuine, Keeps
    <2> QED BY <2>5, <2>6 DEF ContentsFine
  <1> QED BY <1>1, <1>10, <1>11, <1>13, <1>14, <1>15, OthersStay
(* A msig that is on neither list is counted on both. *)
LEMMA SameMsigsCount ==
  ASSUME NEW coin, NEW own, SameMsigs(coin, own), NEW coin2, NEW own2, NEW m,
         m.acct \in Accts, coin.num \in Nat, \A a \in Accts : own[a].num \in Nat,
         coin2.num = coin.num + 1, coin2.slots = coin.slots, coin.slots[coin.num + 1] = m,
         \A i \in 1..coin.num : coin.slots[i] # m /\ coin.slots[i].acct \in Accts,
         own2[m.acct].num = own[m.acct].num + 1, own2[m.acct].slots = own[m.acct].slots,
         own[m.acct].slots[own[m.acct].num + 1] = m,
         \A a \in Accts \ {m.acct} : own2[a] = own[a]
  PROVE  SameMsigs(coin2, own2)
  <1>1. \A i \in 1..coin2.num : i \in 1..coin.num \/ (i = coin.num + 1 /\ coin2.slots[i] = m)
    OBVIOUS
  <1>2. \A a \in Accts : \A k \in 1..own2[a].num :
          \/ k \in 1..own[a].num
          \/ a = m.acct /\ own2[a].slots[k] = m
    OBVIOUS
  <1>3. \A a \in Accts : \A k \in 1..own[a].num :
          k \in 1..own2[a].num /\ own2[a].slots[k] = own[a].slots[k]
    OBVIOUS
  <1>4. ASSUME NEW i \in 1..coin2.num
        PROVE  \E k \in 1..own2[coin2.slots[i].acct].num :
                 own2[coin2.slots[i].acct].slots[k] = coin2.slots[i]
    <2>1. CASE i \in 1..coin.num
      <3>1. PICK k \in 1..own[coin.slots[i].acct].num :
              own[coin.slots[i].acct].slots[k] = coin.slots[i]
        BY <2>1 DEF SameMsigs
      <3> QED BY <1>3, <2>1, <3>1
    <2>2. CASE coin2.slots[i] = m
      <3>1. own[m.acct].num + 1 \in 1..own2[m.acct].num
        OBVIOUS
      <3> QED BY <2>2, <3>1
    <2> QED BY <1>1, <2>1, <2>2
  <1>5. ASSUME NEW i \in 1..coin2.num, NEW k \in 1..coin2.num, coin2.slots[k] = coin2.slots[i]
        PROVE  k = i
    <2>1. CASE i \in 1..coin.num /\ k \in 1..coin.num
      BY <1>5, <2>1 DEF SameMsigs
    <2>2. CASE i \notin 1..coin.num \/ k \notin 1..coin.num
      BY <1>1, <1>5, <2>2
    <2> QED BY <2>1, <2>2
  <1>6. ASSUME NEW a \in Accts, NEW k \in 1..own2[a].num
        PROVE  /\ own2[a].slots[k].acct = a
               /\ \E i \in 1..coin2.num : coin2.slots[i] = own2[a].slots[k]
    <2>1. CASE k \in 1..own[a].num
      <3>1. own[a].slots[k].acct = a /\ \E i \in 1..coin.num : coin.slots[i] = own[a].slots[k]
        BY <2>1 DEF SameMsigs
      <3>2. \A i \in 1..coin.num : i \in 1..coin2.num
        OBVIOUS
      <3> QED BY <1>3, <2>1, <3>1, <3>2
    <2>2. CASE a = m.acct /\ own2[a].slots[k] = m
      <3>1. coin.num + 1 \in 1..coin2.num
        OBVIOUS
      <3> QED BY <2>2, <3>1
    <2> QED BY <1>2, <2>1, <2>2
  <1> QED BY <1>4, <1>5, <1>6 DEF SameMsigs

LEMMA CountStep ==
  ASSUME BindInv, NEW n \in Nodes, NEW t \in {RT, HIST}, Count(n, t)
  PROVE  BindInv'
  <1> DEFINE m == Message(n, t).msig
             own == lists[n].acct
             coin == lists[n].coin
             r == [reader[n][t] EXCEPT !.at = "read", !.next = @ + 1]
  <1>1. /\ reader[n][t].at = "count" /\ UNCHANGED <<genVars, chain, restarts>>
        /\ lists' = [lists EXCEPT ![n].acct[m.acct] = Counted(@), ![n].coin = Counted(@)]
        /\ reader' = [reader EXCEPT ![n][t] = r]
    BY DEF Count
  <1>2. /\ lists \in [Nodes -> [acct : [Accts -> Arrays], coin : Arrays]]
        /\ reader \in [Nodes -> [{RT, HIST} -> Scanners]]
        /\ ScannersFine(n) /\ AddingFine(n) /\ ContentsFine(n) /\ Len(chain) \in Nat
    BY NodeFacts DEF BindInv, NodesFine
  <1>3. /\ m \in Msigs /\ m.acct \in Accts /\ Reading(reader[n][t]) /\ Genuine(m)
        /\ reader[n][t].next \in 1..Len(chain)
        /\ \A i \in 1..coin.num : coin.slots[i] # m
        /\ \A u \in {RT, HIST} : u # t => reader[n][u].at = "read"
    BY <1>1, Adding
  <1>4. /\ HalfAdded(coin, m) /\ HalfAdded(own[m.acct], m)
        /\ \A a \in Accts \ {m.acct} : Full(own[a])
    BY <1>1, <1>2 DEF AddingFine
  <1>5. r \in Scanners /\ r.at = "read" /\ r.next = reader[n][t].next + 1
        /\ r.last = reader[n][t].last
    <2>1. reader[n][t] \in Scanners /\ reader[n][t].next + 1 \in Nat \ {0}
      BY <1>2, <1>3
    <2> QED BY <2>1 DEF Scanners
  <1> HIDE DEF m, r
  <1>6. coin \in Arrays /\ own \in [Accts -> Arrays]
    BY <1>2
  <1> DEFINE c == Counted(coin)  o == Counted(own[m.acct])
  <1>7. /\ c \in Arrays /\ c.num = coin.num + 1 /\ c.slots = coin.slots /\ Full(c)
        /\ coin.slots[coin.num + 1] = m
    BY <1>4, <1>6, CountedIs DEF HalfAdded
  <1>8. /\ o \in Arrays /\ o.num = own[m.acct].num + 1 /\ o.slots = own[m.acct].slots /\ Full(o)
        /\ own[m.acct].slots[own[m.acct].num + 1] = m
    BY <1>3, <1>4, <1>6, CountedIs DEF HalfAdded
  <1>9. lists' = [lists EXCEPT ![n].acct[m.acct] = o, ![n].coin = c]
    BY <1>1
  <1> HIDE DEF c, o
  <1>10. /\ lists' \in [Nodes -> [acct : [Accts -> Arrays], coin : Arrays]]
         /\ lists'[n].coin = c /\ lists'[n].acct[m.acct] = o
         /\ \A a \in Accts \ {m.acct} : lists'[n].acct[a] = own[a]
         /\ \A k \in Nodes \ {n} : lists'[k] = lists[k]
    BY <1>2, <1>3, <1>7, <1>8, <1>9
  <1>11. /\ reader' \in [Nodes -> [{RT, HIST} -> Scanners]] /\ reader'[n][t] = r
         /\ \A u \in {RT, HIST} : u # t => reader'[n][u] = reader[n][u]
         /\ \A u \in {RT, HIST} : reader'[n][u].at = "read"
         /\ \A k \in Nodes \ {n} : reader'[k] = reader[k]
    BY <1>1, <1>2, <1>3, <1>5
  <1>12. ScannersFine(n)'
    <2>1. InHistory(n)' => InHistory(n)
      <3>1. CASE t = RT
        BY <1>1, <1>11, <3>1 DEF InHistory, Reading, RT, HIST
      <3>2. CASE t = HIST
        BY <1>3, <3>2 DEF InHistory
      <3> QED BY <3>1, <3>2
    <2>2. reader[n][t].next \in Nat /\ reader[n][RT].next \in Nat /\ reader[n][HIST].last \in Int
      BY <1>2 DEF Scanners
    <2>3. /\ reader'[n][RT].last = 0 /\ reader'[n][HIST].last = reader[n][HIST].last
          /\ reader'[n][RT].next \in {reader[n][RT].next, reader[n][RT].next + 1}
          /\ \A u \in {RT, HIST} : reader'[n][u].next <= Len(chain) + 1
      BY <1>2, <1>3, <1>5, <1>11, <2>2 DEF ScannersFine
    <2>4. reader'[n][HIST].last < reader'[n][RT].next
      BY <1>2, <2>2, <2>3 DEF ScannersFine
    <2> QED BY <1>1, <1>2, <1>11, <2>1, <2>3, <2>4 DEF ScannersFine, Foreign
  <1>13. AddingFine(n)'
    <2>1. \A a \in Accts : Full(lists'[n].acct[a])
      BY <1>4, <1>8, <1>10
    <2> QED BY <1>7, <1>10, <1>11, <2>1 DEF AddingFine, Full
  <1>14. ContentsFine(n)'
    <2>1. UNCHANGED wallet
      BY <1>1 DEF genVars
    <2>2. \A i \in 1..coin.num : coin.slots[i].acct \in Accts
      BY NodeFacts DEF Msigs
    <2>3. SameMsigs(coin, own) /\ AllGenuine(n)
      BY <1>2 DEF ContentsFine
    <2>4. coin.num \in Nat /\ \A a \in Accts : own[a].num \in Nat
      BY <1>6 DEF Arrays
    <2>5. SameMsigs(lists'[n].coin, lists'[n].acct)
      <3> HIDE DEF coin, own
      <3> QED BY <1>3, <1>7, <1>8, <1>10, <2>2, <2>3, <2>4, SameMsigsCount
    <2>6. AllGenuine(n)'
      <3>1. \A x : Genuine(x) /\ x.acct \in Accts => Genuine(x)'
        BY <2>1, KeepsWhenSame DEF Keeps
      <3>2. \A i \in 1..c.num : i \in 1..coin.num \/ c.slots[i] = m
        BY <1>7, <2>4
      <3> QED BY <1>3, <1>7, <1>10, <2>2, <2>3, <3>1, <3>2 DEF AllGenuine
    <2> QED BY <2>5, <2>6 DEF ContentsFine
  <1> QED BY <1>1, <1>10, <1>11, <1>12, <1>13, <1>14, OthersStay

(* A node that has read nothing yet. *)
StartsAfresh(n) ==
  /\ lists[n] = EmptyLists /\ chain \in Seq(Messages) /\ Len(chain) \in Nat
  /\ \/ reader[n] = Fresh /\ Len(chain) = 0
     \/ reader[n] = [t \in {RT, HIST} |->
          IF t = RT THEN From(Len(chain) + 1, 0)
          ELSE From(1, IF chain = <<>> THEN -1 ELSE Len(chain))]

StartsFine(n) ==
  /\ reader[n] \in [{RT, HIST} -> Scanners]
  /\ lists[n] \in [acct : [Accts -> Arrays], coin : Arrays]
  /\ ScannersFine(n) /\ AddingFine(n) /\ ContentsFine(n)

NewNodesFine == \A n : StartsAfresh(n) => StartsFine(n)

LEMMA NewNode == NewNodesFine
  <1> SUFFICES ASSUME NEW n, StartsAfresh(n) PROVE StartsFine(n)
    BY DEF NewNodesFine
  <1> USE DEF StartsAfresh
  <1>1. /\ Empty \in Arrays /\ Empty.num = 0 /\ Full(Empty)
        /\ lists[n].coin = Empty /\ \A a \in Accts : lists[n].acct[a] = Empty
        /\ lists[n] \in [acct : [Accts -> Arrays], coin : Arrays]
    <2>1. <<>> \in Seq(Msigs) /\ Len(<<>>) = 0
      OBVIOUS
    <2>2. Empty \in Arrays /\ Empty.num = 0 /\ Full(Empty)
      BY <2>1 DEF Empty, Arrays, Full
    <2> QED BY <2>2 DEF EmptyLists
  <1>2. RT # HIST
    BY DEF RT, HIST
  <1>3. /\ reader[n][RT] = From(Len(chain) + 1, 0)
        /\ reader[n][HIST] \in {From(1, -1), From(1, Len(chain))}
        /\ Len(chain) = 0 => reader[n][HIST] = From(1, -1)
        /\ reader[n] = [t \in {RT, HIST} |-> IF t = RT THEN reader[n][RT] ELSE reader[n][HIST]]
    <2>1. CASE reader[n] = Fresh /\ Len(chain) = 0
      BY <1>2, <2>1 DEF Fresh
    <2>2. CASE reader[n] = [t \in {RT, HIST} |->
                 IF t = RT THEN From(Len(chain) + 1, 0)
                 ELSE From(1, IF chain = <<>> THEN -1 ELSE Len(chain))]
      <3>1. Len(chain) = 0 => chain = <<>>
        OBVIOUS
      <3> QED BY <1>2, <2>2, <3>1
    <2> QED BY <2>1, <2>2
  <1>4. \A f \in Nat \ {0}, l \in Int : /\ From(f, l) \in Scanners /\ From(f, l).at = "read"
                                        /\ From(f, l).next = f /\ From(f, l).last = l
    BY DEF From, Scanners
  <1>5. /\ reader[n][RT].at = "read" /\ reader[n][RT].next = Len(chain) + 1
        /\ reader[n][RT].last = 0 /\ reader[n][HIST].at = "read" /\ reader[n][HIST].next = 1
        /\ reader[n][HIST].last = -1 \/ (Len(chain) # 0 /\ reader[n][HIST].last = Len(chain))
        /\ reader[n][RT] \in Scanners /\ reader[n][HIST] \in Scanners
    BY <1>3, <1>4
  <1>6. reader[n] \in [{RT, HIST} -> Scanners]
    BY <1>3, <1>5
  <1>7. ScannersFine(n)
    <2>1. /\ reader[n][RT].last = 0 /\ reader[n][HIST].last # 0
          /\ reader[n][HIST].last <= Len(chain) /\ reader[n][HIST].last < reader[n][RT].next
          /\ \A t \in {RT, HIST} : reader[n][t].next <= Len(chain) + 1 /\ reader[n][t].at = "read"
      BY <1>5
    <2>2. InHistory(n) => \A i \in 1..Len(chain) : i > reader[n][HIST].last => Foreign(chain[i])
      BY <1>5 DEF InHistory, Reading
    <2> QED BY <2>1, <2>2 DEF ScannersFine
  <1>8. AddingFine(n)
    BY <1>1, <1>5 DEF AddingFine
  <1>9. ContentsFine(n)
    BY <1>1 DEF ContentsFine, AllGenuine, SameMsigs
  <1> QED BY <1>1, <1>6, <1>7, <1>8, <1>9 DEF StartsFine
LEMMA RestartStep ==
  ASSUME BindInv, NEW n, Restart(n)
  PROVE  BindInv'
  <1>1. /\ restarts' = restarts + 1 /\ restarts < setting.restarts /\ UNCHANGED chain
        /\ restarts \in 0..setting.restarts /\ setting.restarts \in Nat
        /\ chain \in Seq(Messages) /\ Len(chain) \in Nat
    BY BindingAssumption DEF Restart, BindInv, GenInv, GenTypeOK, NodesFine, ChainFine
  <1>2. GenInv' /\ UNCHANGED <<setting, wallet>>
    <2>1. CASE n \in Gateways
      BY <2>1, StopGenStep DEF Restart, BindInv, StopGen
    <2>2. CASE n \notin Gateways
      BY <2>2, GenStutter DEF Restart, BindInv, genVars
    <2> QED BY <2>1, <2>2
  <1>3. Keeps
    BY <1>2, KeepsWhenSame
  <1>4. ChainFine'
    <2>1. \A i \in 1..Len(chain) : chain[i] \in Messages
      BY <1>1
    <2> QED BY <1>1, <1>3, <2>1 DEF BindInv, ChainFine, Keeps, Foreign, Messages, Msigs
  <1>5. restarts' \in 0..setting'.restarts
    BY <1>1, <1>2
  <1>6. CASE n \notin Nodes
    <2>1. UNCHANGED <<lists, reader>>
      BY <1>6 DEF Restart
    <2>2. \A k \in Nodes : ScannersFine(k)' /\ AddingFine(k)' /\ ContentsFine(k)'
      BY <1>1, <1>3, <2>1, NodeStays
    <2> QED BY <1>2, <1>4, <1>5, <2>1, <2>2 DEF BindInv, NodesFine
  <1>7. CASE n \in Nodes
    <2>1. /\ lists' = [lists EXCEPT ![n] = EmptyLists] /\ reader' = [reader EXCEPT ![n] = Restarted]
          /\ lists \in [Nodes -> [acct : [Accts -> Arrays], coin : Arrays]]
          /\ reader \in [Nodes -> [{RT, HIST} -> Scanners]]
      BY <1>7 DEF Restart, BindInv, NodesFine
    <2>2. lists'[n] = EmptyLists /\ reader'[n] = Restarted
      BY <1>7, <2>1
    <2>3. reader'[n] = [t \in {RT, HIST} |->
              IF t = RT THEN From(Len(chain) + 1, 0)
              ELSE From(1, IF chain = <<>> THEN -1 ELSE Len(chain))]
      BY <2>2 DEF Restarted
    <2>4. /\ reader'[n] \in [{RT, HIST} -> Scanners]
          /\ lists'[n] \in [acct : [Accts -> Arrays], coin : Arrays]
          /\ ScannersFine(n)' /\ AddingFine(n)' /\ ContentsFine(n)'
      <3>1. NewNodesFine'
        BY NewNode, PTL
      <3>2. StartsAfresh(n)'
        BY <1>1, <2>2, <2>3 DEF StartsAfresh
      <3> QED BY <3>1, <3>2 DEF NewNodesFine, StartsFine
    <2>5. \A k \in Nodes \ {n} : lists'[k] = lists[k] /\ reader'[k] = reader[k]
      BY <1>7, <2>1
    <2>6. \A k \in Nodes \ {n} : ScannersFine(k)' /\ AddingFine(k)' /\ ContentsFine(k)'
      BY <1>1, <1>3, <2>5, NodeStays
    <2>7. /\ lists' \in [Nodes -> [acct : [Accts -> Arrays], coin : Arrays]]
          /\ reader' \in [Nodes -> [{RT, HIST} -> Scanners]]
      <3>1. /\ lists' = [lists EXCEPT ![n] = lists'[n]] /\ reader' = [reader EXCEPT ![n] = reader'[n]]
        BY <1>7, <2>1
      <3> QED BY <2>1, <2>4, <3>1
    <2> QED BY <1>2, <1>4, <1>5, <2>4, <2>6, <2>7 DEF BindInv, NodesFine
  <1> QED BY <1>6, <1>7

-----------------------------------------------------------------------------
(* BindInv is inductive, and it is what MsigsSound says.                   *)

LEMMA BindInit ==
  ASSUME Init
  PROVE  BindInv
  <1>1. /\ InitGen /\ chain = <<>> /\ restarts = 0 /\ lists = [n \in Nodes |-> EmptyLists]
        /\ reader = [n \in Nodes |-> Fresh]
    BY DEF Init
  <1>2. GenInv
    BY <1>1, GenInit
  <1>3. chain \in Seq(Messages) /\ Len(chain) = 0
    BY <1>1
  <1>4. ChainFine
    BY <1>3 DEF ChainFine
  <1>5. ASSUME NEW n \in Nodes
        PROVE  /\ reader[n] \in [{RT, HIST} -> Scanners]
               /\ lists[n] \in [acct : [Accts -> Arrays], coin : Arrays]
               /\ ScannersFine(n) /\ AddingFine(n) /\ ContentsFine(n)
    <2>1. lists[n] = EmptyLists /\ reader[n] = Fresh
      BY <1>1
    <2>2. StartsAfresh(n)
      BY <1>3, <2>1 DEF StartsAfresh
    <2> QED BY <2>2, NewNode DEF NewNodesFine, StartsFine
  <1>6. restarts \in 0..setting.restarts
    BY <1>1, <1>2, BindingAssumption DEF GenInv, GenTypeOK
  <1> QED BY <1>1, <1>2, <1>4, <1>5, <1>6 DEF BindInv, NodesFine

LEMMA BindStep ==
  ASSUME BindInv, \A c \in Settings : c.quiet, [Next]_vars
  PROVE  BindInv'
  <1>1. CASE GenNext /\ UNCHANGED <<chain, lists, reader, restarts>>
    <2>1. GenInv' /\ Keeps /\ UNCHANGED setting
      BY <1>1, GenStep, WalletStep DEF BindInv
    <2> QED BY <1>1, <2>1, StillStep DEF BindInv
  <1>2. ASSUME NEW g \in Gateways, Announce(g) PROVE BindInv'
    BY <1>2, AnnounceStep, AnnounceBind DEF BindInv
  <1>3. ASSUME NEW a \in Accts, OtherMessage(a) PROVE BindInv'
    <2>1. UNCHANGED genVars
      BY <1>3 DEF OtherMessage
    <2> QED BY <1>3, <2>1, OtherMessageBind, GenStutter DEF BindInv
  <1>4. ASSUME NEW n \in Nodes, NEW t \in {RT, HIST}, Scan(n, t) PROVE BindInv'
    BY <1>4, MeetStep, WriteStep, CountStep DEF Scan
  <1>5. ASSUME NEW n, Restart(n) PROVE BindInv'
    BY <1>5, RestartStep
  <1>6. CASE UNCHANGED vars
    <2>1. UNCHANGED <<genVars, chain, lists, reader, restarts>>
      BY <1>6 DEF vars
    <2>2. UNCHANGED <<setting, wallet>>
      BY <2>1 DEF genVars
    <2> QED BY <2>1, <2>2, StillStep, KeepsWhenSame, GenStutter DEF BindInv
  <1> QED BY <1>1, <1>2, <1>3, <1>4, <1>5, <1>6 DEF Next
(* A set of natural numbers that is not empty has a least element. *)
LEMMA LeastFound ==
  ASSUME NEW S \in SUBSET Nat, S # {}
  PROVE  Min(S) \in S /\ \A n \in S : Min(S) <= n
  <1> DEFINE R == {ss \in Nat \X Nat : ss[1] < ss[2]}
  <1>1. IsWellFoundedOn(R, Nat)
    BY NatLessThanWellFounded DEF OpToRel
  <1>2. PICK m \in S : \A n \in S : <<n, m>> \notin R
    <2> HIDE DEF R
    <2> QED BY <1>1, WFMin
  <1>3. ASSUME NEW n \in S PROVE m <= n
    <2>1. m \in Nat /\ n \in Nat /\ <<n, m>> \notin R
      BY <1>2
    <2> QED BY <2>1
  <1> QED BY <1>2, <1>3 DEF Min

(* Two genuine msigs with one multisig address are of one account. *)
LEMMA OneOwner ==
  ASSUME NEW m, NEW k, Genuine(m), Genuine(k), m.multisigaddr = k.multisigaddr
  PROVE  m.acct = k.acct
  <1>1. m.keys = k.keys
    BY DEF Genuine
  <1>2. 1 \in Gateways
    BY AddressGenAssumption DEF Gateways
  <1>3. m.keys[1] = KeyOf(m.addrs[1]) /\ k.keys[1] = KeyOf(k.addrs[1])
    BY <1>2 DEF Genuine
  <1>4. m.addrs[1] = k.addrs[1]
    BY <1>1, <1>3, Names
  <1>5. m.addrs[1] \in Given(1, m.acct) /\ k.addrs[1] \in Given(1, k.acct)
    BY <1>2 DEF Genuine
  <1>6. PICK v \in 1..wallet[1][m.acct], w \in 1..wallet[1][k.acct] :
          m.addrs[1] = Address(1, m.acct, v) /\ k.addrs[1] = Address(1, k.acct, w)
    BY <1>5 DEF Given
  <1>7. Address(1, m.acct, v) = Address(1, k.acct, w)
    BY <1>4, <1>6
  <1> QED BY <1>7 DEF Address

LEMMA BindInvMeans ==
  ASSUME BindInv
  PROVE  MsigsSound
  <1>1. GenTypeOK /\ OneQuestion /\ MadeGenuine
    BY GenInvMeans DEF BindInv
  <1>2. BindingTypeOK
    <2>1. ASSUME NEW n \in Nodes, NEW t \in {RT, HIST}
          PROVE  /\ reader[n][t].at \in {"read", "add", "count"}
                 /\ reader[n][t].next \in 1..(Len(chain) + 1)
      <3>1. /\ reader[n][t] \in Scanners /\ Len(chain) \in Nat
            /\ reader[n][t].next <= Len(chain) + 1
        BY NodeFacts DEF ScannersFine
      <3>2. reader[n][t].next \in Nat \ {0} /\ reader[n][t].at \in {"read", "add", "count"}
        BY <3>1 DEF Scanners
      <3> QED BY <3>1, <3>2
    <2> QED BY <1>1, <2>1, NodeFacts DEF BindingTypeOK, BindInv, NodesFine
  <1>3. ASSUME NEW n \in Nodes
        PROVE  /\ DOMAIN Held(lists[n].coin) = 1..lists[n].coin.num
               /\ \A i \in 1..lists[n].coin.num : /\ Held(lists[n].coin)[i] = lists[n].coin.slots[i]
                                                  /\ Genuine(lists[n].coin.slots[i])
               /\ SameMsigs(lists[n].coin, lists[n].acct) /\ lists[n].coin \in Arrays
    <2>1. lists[n].coin \in Arrays /\ lists[n].coin.num <= Len(lists[n].coin.slots)
      BY NodeFacts
    <2>2. AllGenuine(n) /\ SameMsigs(lists[n].coin, lists[n].acct)
      BY NodeFacts DEF ContentsFine
    <2> QED BY <2>1, <2>2, HeldIs DEF AllGenuine
  <1>4. BoundGenuine
    BY <1>3 DEF BoundGenuine
  <1>5. ASSUME NEW n \in Nodes PROVE IsInjective(Held(lists[n].coin))
    <2> DEFINE held == Held(lists[n].coin)
    <2>1. ASSUME NEW i \in DOMAIN held, NEW k \in DOMAIN held, held[i] = held[k] PROVE i = k
      <3>1. /\ i \in 1..lists[n].coin.num /\ k \in 1..lists[n].coin.num
            /\ lists[n].coin.slots[i] = lists[n].coin.slots[k]
        BY <1>3, <2>1
      <3>2. SameMsigs(lists[n].coin, lists[n].acct)
        BY <1>3
      <3> QED BY <3>1, <3>2 DEF SameMsigs
    <2> HIDE DEF held
    <2>2. IsInjective(held)
      BY <2>1 DEF IsInjective
    <2> QED BY <2>2 DEF held
  <1>6. ASSUME NEW n \in Nodes, NEW a \in Accts, DepositAddr(n, a) # <<>>
        PROVE  SearchMultisig(n, DepositAddr(n, a)) = a
    <2> DEFINE addr == DepositAddr(n, a)
               coin == lists[n].coin
               own == lists[n].acct[a]
               found == {i \in DOMAIN Held(coin) : Held(coin)[i].multisigaddr = addr}
    <2>1. own \in Arrays /\ own.num <= Len(own.slots) /\ own.num # 0
      BY <1>6, NodeFacts DEF DepositAddr
    <2>2. 1 \in 1..own.num
      <3>1. own.num \in Nat
        BY <2>1 DEF Arrays
      <3> QED BY <2>1, <3>1
    <2>3. own.slots[1].acct = a /\ \E i \in 1..coin.num : coin.slots[i] = own.slots[1]
      <3>1. SameMsigs(coin, lists[n].acct)
        BY <1>3
      <3> HIDE DEF coin
      <3> QED BY <2>2, <3>1, OwnInCoin
    <2>4. PICK i \in 1..coin.num : coin.slots[i] = own.slots[1]
      BY <2>3
    <2>5. addr = own.slots[1].multisigaddr
      BY <2>1, <2>2, HeldIs DEF DepositAddr
    <2>6. found # {} /\ found \in SUBSET Nat
      <3>1. i \in found
        BY <1>3, <2>4, <2>5
      <3>2. coin.num \in Nat /\ DOMAIN Held(coin) = 1..coin.num
        BY <1>3 DEF Arrays
      <3> QED BY <3>1, <3>2
    <2>7. Min(found) \in found
      BY <2>6, LeastFound
    <2>8. SearchMultisig(n, addr) = Held(coin)[Min(found)].acct
      BY <2>6 DEF SearchMultisig
    <2> HIDE DEF addr, coin, own
    <2>9. /\ Min(found) \in 1..coin.num /\ Held(coin)[Min(found)] = coin.slots[Min(found)]
          /\ Genuine(coin.slots[Min(found)]) /\ coin.slots[Min(found)].multisigaddr = addr
      BY <1>3, <2>7 DEF coin
    <2>10. Genuine(own.slots[1])
      BY <1>3, <2>4 DEF coin
    <2>11. coin.slots[Min(found)].acct = a
      BY <2>3, <2>5, <2>9, <2>10, OneOwner
    <2> QED BY <2>8, <2>9, <2>11 DEF addr
  <1>7. ListsMatch
    BY <1>5, <1>6 DEF ListsMatch
  <1> QED BY <1>1, <1>2, <1>4, <1>7 DEF MsigsSound

-----------------------------------------------------------------------------
(* The settings in which no address is announced while a node reads its    *)
(* history.                                                                *)
Quiet == \A c \in Settings : c.quiet

(* For every number of gateways, every set of nodes and accounts, and      *)
(* every failure of connections and daemons: a gateway asks one question   *)
(* at a time and what it makes is of addresses that every gateway gave out *)
(* for the account; a node holds such msigs only, each once; and a deposit *)
(* to the address an account is told is found to be that account's.        *)
THEOREM MsigsAlwaysSound == Quiet => (Spec => []MsigsSound)
  <1> SUFFICES ASSUME Quiet PROVE Spec => []MsigsSound
    OBVIOUS
  <1>1. Init => BindInv
    BY BindInit
  <1>2. BindInv /\ [Next]_vars => BindInv'
    BY BindStep DEF Quiet
  <1>3. BindInv => MsigsSound
    BY BindInvMeans
  <1> QED BY <1>1, <1>2, <1>3, PTL DEF Spec
(* A gateway asks one question at a time, and what it makes is genuine,    *)
(* announced while a node reads its history or not: what the gateways do   *)
(* together does not depend on the nodes.                                  *)
THEOREM MadeAlwaysGenuine == Spec => [](OneQuestion /\ MadeGenuine)
  <1>1. Init => GenInv
    BY GenInit DEF Init
  <1>2. GenInv /\ [Next]_vars => GenInv'
    <2> SUFFICES ASSUME GenInv, [Next]_vars PROVE GenInv'
      OBVIOUS
    <2>1. CASE GenNext
      BY <2>1, GenStep
    <2>2. ASSUME NEW g \in Gateways, Announce(g) PROVE GenInv'
      BY <2>2, AnnounceStep
    <2>3. ASSUME NEW n, Restart(n) PROVE GenInv'
      BY <2>3, StopGenStep, GenStutter DEF Restart
    <2>4. CASE UNCHANGED genVars
      BY <2>4, GenStutter
    <2>5. \A a \in Accts : OtherMessage(a) => UNCHANGED genVars
      BY DEF OtherMessage
    <2>6. \A n \in Nodes, t \in {RT, HIST} : Scan(n, t) => UNCHANGED genVars
      BY DEF Scan, Meet, Write, Count
    <2>7. UNCHANGED vars => UNCHANGED genVars
      BY DEF vars
    <2> QED BY <2>1, <2>2, <2>3, <2>4, <2>5, <2>6, <2>7 DEF Next
  <1>3. GenInv => OneQuestion /\ MadeGenuine
    BY GenInvMeans
  <1> QED BY <1>1, <1>2, <1>3, PTL DEF Spec
-----------------------------------------------------------------------------
(* Nodes bind alike: what a node's list holds, and in which order, follows *)
(* from how far it has read.                                               *)

(* Message i of the chain has been read by one of the node's scanners, and *)
(* bound or passed over.                                                   *)
ReadTo(last, hist, rt, i) == (i <= last /\ i < hist) \/ (i > last /\ i < rt)
Done(n, i) == ReadTo(reader[n][HIST].last, reader[n][HIST].next, reader[n][RT].next, i)

(* The messages from gateways that a node is done with. *)
Passed(n) == {i \in 1..Len(chain) : ~Foreign(chain[i]) /\ Done(n, i)}

(* A chain bears msig x before it ever bears y. *)
Bears(ch, i, m) == ~Foreign(ch[i]) /\ ch[i].msig = m
Before(ch, x, y) == \E i \in 1..Len(ch) : Bears(ch, i, x) /\ \A j \in 1..i : ~Bears(ch, j, y)

(* m is the first of the account's msigs in an array. *)
FirstOf(l, a, m) ==
  \E i \in 1..l.num : l.slots[i] = m /\ \A k \in 1..(i - 1) : l.slots[k].acct # a

(* The array holds the msigs of the messages P, in the order in which they *)
(* first came, and each account's own list begins with its first of them.  *)
HoldsAll(ch, coin, P) == \A i \in P : \E k \in 1..coin.num : coin.slots[k] = ch[i].msig
HoldsOnly(ch, coin, P) == \A k \in 1..coin.num : \E i \in P : ch[i].msig = coin.slots[k]
InOrder(ch, coin) ==
  \A j, k \in 1..coin.num : j < k => Before(ch, coin.slots[j], coin.slots[k])
HeadsFirst(coin, own) == \A a \in Accts : own[a].num > 0 => FirstOf(coin, a, own[a].slots[1])

AsRead(ch, coin, own, P) ==
  HoldsAll(ch, coin, P) /\ HoldsOnly(ch, coin, P) /\ InOrder(ch, coin) /\ HeadsFirst(coin, own)

AlikeInv == \A n \in Nodes : AsRead(chain, lists[n].coin, lists[n].acct, Passed(n))

LEMMA BeforeAsymmetric ==
  ASSUME NEW ch \in Seq(Messages), NEW x, NEW y, Before(ch, x, y)
  PROVE  ~Before(ch, y, x)
  <1>1. Len(ch) \in Nat
    OBVIOUS
  <1>2. PICK i \in 1..Len(ch) : Bears(ch, i, x) /\ \A j \in 1..i : ~Bears(ch, j, y)
    BY DEF Before
  <1>3. ASSUME NEW k \in 1..Len(ch), Bears(ch, k, y), \A j \in 1..k : ~Bears(ch, j, x) PROVE FALSE
    <2>1. k \in 1..i \/ i \in 1..k
      BY <1>1
    <2> QED BY <1>2, <1>3, <2>1
  <1> QED BY <1>3 DEF Before

(* A chain that grows keeps its order. *)
LEMMA BeforeStays ==
  ASSUME NEW ch \in Seq(Messages), NEW more \in Seq(Messages), Len(more) >= Len(ch),
         \A i \in 1..Len(ch) : more[i] = ch[i]
  PROVE  \A x, y : Before(ch, x, y) => Before(more, x, y)
  <1> TAKE x, y
  <1> HAVE Before(ch, x, y)
  <1>1. Len(ch) \in Nat /\ Len(more) \in Nat
    OBVIOUS
  <1>2. PICK i \in 1..Len(ch) : Bears(ch, i, x) /\ \A j \in 1..i : ~Bears(ch, j, y)
    BY DEF Before
  <1>3. i \in 1..Len(more) /\ \A j \in 1..i : j \in 1..Len(ch)
    BY <1>1
  <1>4. Bears(more, i, x) /\ \A j \in 1..i : ~Bears(more, j, y)
    BY <1>2, <1>3 DEF Bears
  <1> QED BY <1>3, <1>4 DEF Before

LEMMA FirstStays ==
  ASSUME NEW l, NEW l2, l.num \in Nat, l2.num \in Nat, l2.num >= l.num,
         \A k \in 1..l.num : l2.slots[k] = l.slots[k], NEW a, NEW m, FirstOf(l, a, m)
  PROVE  FirstOf(l2, a, m)
  <1>1. PICK i \in 1..l.num : l.slots[i] = m /\ \A k \in 1..(i - 1) : l.slots[k].acct # a
    BY DEF FirstOf
  <1>2. i \in 1..l2.num /\ \A k \in 1..(i - 1) : k \in 1..l.num
    OBVIOUS
  <1> QED BY <1>1, <1>2 DEF FirstOf

LEMMA FirstCounted ==
  ASSUME NEW l, NEW l2, NEW a, NEW m, l.num \in Nat, l2.num = l.num + 1, l2.slots = l.slots,
         l.slots[l.num + 1] = m, \A k \in 1..l.num : l.slots[k].acct # a
  PROVE  FirstOf(l2, a, m)
  <1>1. l.num + 1 \in 1..l2.num /\ (l.num + 1) - 1 = l.num /\ l2.slots[l.num + 1] = m
    OBVIOUS
  <1>2. \A k \in 1..((l.num + 1) - 1) : l2.slots[k].acct # a
    BY <1>1
  <1> QED BY <1>1, <1>2 DEF FirstOf

(* The lists stay as they were read when the chain grows and when more is  *)
(* written beyond what they count.                                         *)
LEMMA AsReadStays ==
  ASSUME NEW ch \in Seq(Messages), NEW more \in Seq(Messages), Len(more) >= Len(ch),
         \A i \in 1..Len(ch) : more[i] = ch[i],
         NEW coin, NEW own, NEW P \in SUBSET (1..Len(ch)), AsRead(ch, coin, own, P),
         NEW coin2, NEW own2, coin.num \in Nat, coin2.num = coin.num,
         \A i \in 1..coin.num : coin2.slots[i] = coin.slots[i],
         \A a \in Accts : /\ own2[a].num = own[a].num /\ own[a].num \in Nat
                          /\ \A k \in 1..own[a].num : own2[a].slots[k] = own[a].slots[k]
  PROVE  AsRead(more, coin2, own2, P)
  <1>0. HoldsAll(ch, coin, P) /\ HoldsOnly(ch, coin, P) /\ InOrder(ch, coin) /\ HeadsFirst(coin, own)
    BY DEF AsRead
  <1>1. \A i \in P : more[i] = ch[i]
    OBVIOUS
  <1>2. ASSUME NEW i \in P PROVE \E k \in 1..coin2.num : coin2.slots[k] = more[i].msig
    <2>1. PICK k \in 1..coin.num : coin.slots[k] = ch[i].msig
      BY <1>0 DEF HoldsAll
    <2> QED BY <1>1, <2>1
  <1>3. ASSUME NEW k \in 1..coin2.num PROVE \E i \in P : more[i].msig = coin2.slots[k]
    <2>1. PICK i \in P : ch[i].msig = coin.slots[k]
      BY <1>0 DEF HoldsOnly
    <2>2. coin2.slots[k] = coin.slots[k]
      OBVIOUS
    <2> QED BY <1>1, <2>1, <2>2
  <1>4. ASSUME NEW j \in 1..coin2.num, NEW k \in 1..coin2.num, j < k
        PROVE  Before(more, coin2.slots[j], coin2.slots[k])
    <2>1. Before(ch, coin.slots[j], coin.slots[k])
      BY <1>0, <1>4 DEF InOrder
    <2>2. Before(more, coin.slots[j], coin.slots[k])
      BY <2>1, BeforeStays
    <2>3. coin2.slots[j] = coin.slots[j] /\ coin2.slots[k] = coin.slots[k]
      OBVIOUS
    <2> QED BY <2>2, <2>3
  <1>5. ASSUME NEW a \in Accts, own2[a].num > 0 PROVE FirstOf(coin2, a, own2[a].slots[1])
    <2>1. own2[a].slots[1] = own[a].slots[1] /\ FirstOf(coin, a, own[a].slots[1])
      <3>1. own[a].num > 0 /\ 1 \in 1..own[a].num
        BY <1>5
      <3>2. own2[a].slots[1] = own[a].slots[1]
        BY <3>1
      <3> QED BY <1>0, <3>1, <3>2 DEF HeadsFirst
    <2>2. coin2.num \in Nat /\ coin2.num >= coin.num
      OBVIOUS
    <2> QED BY <2>1, <2>2, FirstStays
  <1> QED BY <1>2, <1>3, <1>4, <1>5 DEF AsRead, HoldsAll, HoldsOnly, InOrder, HeadsFirst

(* A message whose msig is bound already is passed over. *)
LEMMA AsReadPasses ==
  ASSUME NEW ch, NEW coin, NEW own, NEW P, AsRead(ch, coin, own, P), NEW i,
         \E k \in 1..coin.num : coin.slots[k] = ch[i].msig
  PROVE  AsRead(ch, coin, own, P \cup {i})
  <1>1. HoldsAll(ch, coin, P \cup {i}) /\ HoldsOnly(ch, coin, P \cup {i})
    BY DEF AsRead, HoldsAll, HoldsOnly
  <1> QED BY <1>1 DEF AsRead

(* One more is counted in an array: what was counted stays where it is. *)
OneMore(l, l2, m) ==
  /\ l.num \in Nat /\ l2.num = l.num + 1 /\ l2.slots = l.slots /\ l.slots[l.num + 1] = m

LEMMA OneMoreIs ==
  ASSUME NEW l, NEW l2, NEW m, OneMore(l, l2, m)
  PROVE  /\ l.num + 1 \in 1..l2.num /\ l2.slots[l.num + 1] = m
         /\ \A k \in 1..l.num : k \in 1..l2.num /\ l2.slots[k] = l.slots[k]
         /\ \A k \in 1..l2.num : k \in 1..l.num \/ k = l.num + 1
  BY DEF OneMore

LEMMA HoldsCounted ==
  ASSUME NEW ch, NEW P, NEW i, NEW l, NEW l2, OneMore(l, l2, ch[i].msig),
         HoldsAll(ch, l, P), HoldsOnly(ch, l, P)
  PROVE  HoldsAll(ch, l2, P \cup {i}) /\ HoldsOnly(ch, l2, P \cup {i})
  <1>1. ASSUME NEW j \in P \cup {i} PROVE \E k \in 1..l2.num : l2.slots[k] = ch[j].msig
    <2>1. CASE j \in P
      <3>1. PICK k \in 1..l.num : l.slots[k] = ch[j].msig
        BY <2>1 DEF HoldsAll
      <3> QED BY <3>1, OneMoreIs
    <2>2. CASE j = i
      BY <2>2, OneMoreIs
    <2> QED BY <2>1, <2>2
  <1>2. ASSUME NEW k \in 1..l2.num PROVE \E j \in P \cup {i} : ch[j].msig = l2.slots[k]
    <2>1. CASE k \in 1..l.num
      <3>1. PICK j \in P : ch[j].msig = l.slots[k]
        BY <2>1 DEF HoldsOnly
      <3> QED BY <2>1, <3>1, OneMoreIs
    <2>2. CASE k = l.num + 1
      BY <2>2, OneMoreIs
    <2> QED BY <2>1, <2>2, OneMoreIs
  <1> QED BY <1>1, <1>2 DEF HoldsAll, HoldsOnly

LEMMA OrderCounted ==
  ASSUME NEW ch \in Seq(Messages), NEW i \in 1..Len(ch),
         NEW P, P = {j \in 1..(i - 1) : ~Foreign(ch[j])},
         NEW l, NEW l2, OneMore(l, l2, ch[i].msig), \A k \in 1..l.num : l.slots[k] # ch[i].msig,
         HoldsAll(ch, l, P), HoldsOnly(ch, l, P), InOrder(ch, l)
  PROVE  InOrder(ch, l2)
  <1>1. ASSUME NEW j \in 1..(i - 1) PROVE ~Bears(ch, j, ch[i].msig)
    <2>1. j \in P => \E k \in 1..l.num : l.slots[k] = ch[j].msig
      BY DEF HoldsAll
    <2> QED BY <2>1 DEF Bears
  <1>2. ASSUME NEW k \in 1..l.num PROVE Before(ch, l.slots[k], ch[i].msig)
    <2>1. PICK p \in P : ch[p].msig = l.slots[k]
      BY DEF HoldsOnly
    <2>2. Len(ch) \in Nat /\ p \in 1..(i - 1) /\ ~Foreign(ch[p])
      OBVIOUS
    <2>3. p \in 1..Len(ch) /\ \A j \in 1..p : j \in 1..(i - 1)
      BY <2>2
    <2> QED BY <1>1, <2>1, <2>2, <2>3 DEF Before, Bears
  <1>3. ASSUME NEW j \in 1..l2.num, NEW k \in 1..l2.num, j < k
        PROVE  Before(ch, l2.slots[j], l2.slots[k])
    <2>1. j \in 1..l.num /\ l2.slots[j] = l.slots[j]
      BY <1>3 DEF OneMore
    <2>2. CASE k \in 1..l.num
      <3>1. Before(ch, l.slots[j], l.slots[k])
        BY <1>3, <2>1, <2>2 DEF InOrder
      <3> QED BY <2>1, <2>2, <3>1, OneMoreIs
    <2>3. CASE k = l.num + 1
      <3>1. l2.slots[k] = ch[i].msig
        BY <2>3, OneMoreIs
      <3> QED BY <1>2, <2>1, <3>1
    <2> QED BY <2>2, <2>3, OneMoreIs
  <1> QED BY <1>3 DEF InOrder

LEMMA HeadsCounted ==
  ASSUME NEW l, NEW l2, NEW own, NEW own2, NEW m, m.acct \in Accts, OneMore(l, l2, m),
         OneMore(own[m.acct], own2[m.acct], m), \A a \in Accts \ {m.acct} : own2[a] = own[a],
         \A a \in Accts : own[a].num \in Nat,
         \A k \in 1..l.num : l.slots[k].acct \in Accts,
         HeadsFirst(l, own), SameMsigs(l, own)
  PROVE  HeadsFirst(l2, own2)
  <1> SUFFICES ASSUME NEW a \in Accts, own2[a].num > 0 PROVE FirstOf(l2, a, own2[a].slots[1])
    BY DEF HeadsFirst
  <1>1. CASE own[a].num > 0
    <2>1. own2[a].slots[1] = own[a].slots[1]
      <3>1. own2[a].slots = own[a].slots
        BY DEF OneMore
      <3> QED BY <3>1
    <2>2. FirstOf(l, a, own[a].slots[1])
      BY <1>1 DEF HeadsFirst
    <2>3. l.num \in Nat /\ l2.num \in Nat /\ l2.num >= l.num
      BY DEF OneMore
    <2>4. \A k \in 1..l.num : l2.slots[k] = l.slots[k]
      BY OneMoreIs
    <2> QED BY <2>1, <2>2, <2>3, <2>4, FirstStays
  <1>2. CASE own[a].num = 0
    <2>1. a = m.acct
      BY <1>2
    <2>2. own2[a].slots[1] = m
      BY <1>2, <2>1 DEF OneMore
    <2>3. \A k \in 1..l.num : l.slots[k].acct # a
      <3> SUFFICES ASSUME NEW k \in 1..l.num, l.slots[k].acct = a PROVE FALSE
        OBVIOUS
      <3>1. PICK j \in 1..own[l.slots[k].acct].num : own[l.slots[k].acct].slots[j] = l.slots[k]
        BY DEF SameMsigs
      <3> QED BY <1>2, <3>1
    <2> QED BY <2>2, <2>3, FirstCounted DEF OneMore
  <1>3. own[a].num \in Nat
    OBVIOUS
  <1> QED BY <1>1, <1>2, <1>3

(* The msig of the next message is counted on both lists. *)
LEMMA AsReadCounts ==
  ASSUME NEW ch \in Seq(Messages), NEW i \in 1..Len(ch),
         NEW P, P = {j \in 1..(i - 1) : ~Foreign(ch[j])},
         NEW coin, NEW own, AsRead(ch, coin, own, P), SameMsigs(coin, own),
         NEW coin2, NEW own2, NEW m, m = ch[i].msig, m.acct \in Accts,
         OneMore(coin, coin2, m), OneMore(own[m.acct], own2[m.acct], m),
         \A a \in Accts \ {m.acct} : own2[a] = own[a], \A a \in Accts : own[a].num \in Nat,
         \A k \in 1..coin.num : coin.slots[k] # m /\ coin.slots[k].acct \in Accts
  PROVE  AsRead(ch, coin2, own2, P \cup {i})
  <1>1. HoldsAll(ch, coin, P) /\ HoldsOnly(ch, coin, P) /\ InOrder(ch, coin) /\ HeadsFirst(coin, own)
    BY DEF AsRead
  <1>2. HoldsAll(ch, coin2, P \cup {i}) /\ HoldsOnly(ch, coin2, P \cup {i})
    BY <1>1, HoldsCounted
  <1>3. InOrder(ch, coin2)
    BY <1>1, OrderCounted
  <1>4. HeadsFirst(coin2, own2)
    BY <1>1, HeadsCounted
  <1> QED BY <1>2, <1>3, <1>4 DEF AsRead

(* How far a node's two scanners are. *)
LEMMA ScannersAt ==
  ASSUME BindInv, NEW n \in Nodes
  PROVE  /\ Len(chain) \in Nat /\ chain \in Seq(Messages)
         /\ reader[n][HIST].last \in Int /\ reader[n][HIST].next \in Nat
         /\ reader[n][RT].next \in Nat /\ reader[n][HIST].next >= 1 /\ reader[n][RT].next >= 1
         /\ reader[n][HIST].last <= Len(chain) /\ reader[n][HIST].last < reader[n][RT].next
         /\ reader[n][RT].next <= Len(chain) + 1
         /\ Reading(reader[n][HIST]) <=> reader[n][HIST].next <= reader[n][HIST].last
         /\ Reading(reader[n][RT]) <=> reader[n][RT].next <= Len(chain)
  <1>1. /\ ScannersFine(n) /\ Len(chain) \in Nat /\ chain \in Seq(Messages)
        /\ reader[n][RT] \in Scanners /\ reader[n][HIST] \in Scanners
    BY NodeFacts
  <1>2. \A s \in Scanners : s.next \in Nat /\ s.next >= 1 /\ s.last \in Int
    BY DEF Scanners
  <1>3. /\ reader[n][HIST].last # 0 /\ reader[n][RT].last = 0
        /\ reader[n][HIST].last <= Len(chain) /\ reader[n][HIST].last < reader[n][RT].next
        /\ reader[n][RT].next <= Len(chain) + 1
    BY <1>1 DEF ScannersFine
  <1> QED BY <1>1, <1>2, <1>3 DEF Reading

(* A node at which nothing changes but perhaps the end of the chain is as  *)
(* far as it was.                                                          *)
LEMMA PassedStays ==
  ASSUME BindInv, NEW n \in Nodes, reader'[n] = reader[n],
         chain' = chain \/ \E m \in Messages : chain' = Append(chain, m)
  PROVE  Passed(n)' = Passed(n)
  <1>1. PICK last, hist, rt, len :
          /\ last = reader[n][HIST].last /\ hist = reader[n][HIST].next
          /\ rt = reader[n][RT].next /\ len = Len(chain)
    OBVIOUS
  <1>2. /\ \A i \in 1..len : chain'[i] = chain[i]
        /\ Len(chain') = len \/ Len(chain') = len + 1
    BY <1>1, AppendIs DEF BindInv, ChainFine
  <1>3. /\ last \in Int /\ hist \in Nat /\ rt \in Nat /\ len \in Nat
        /\ last <= len /\ rt <= len + 1
    BY <1>1, ScannersAt
  <1>4. ~ReadTo(last, hist, rt, len + 1)
    BY <1>3 DEF ReadTo
  <1>5. /\ Passed(n) = {i \in 1..len : ~Foreign(chain[i]) /\ ReadTo(last, hist, rt, i)}
        /\ Passed(n)' = {i \in 1..Len(chain') : ~Foreign(chain'[i]) /\ ReadTo(last, hist, rt, i)}
    BY <1>1 DEF Passed, Done, Foreign
  <1>6. \A i \in 1..Len(chain') : i \in 1..len \/ i = len + 1
    BY <1>2, <1>3
  <1>7. \A i \in 1..len : i \in 1..Len(chain')
    BY <1>2, <1>3
  <1> QED BY <1>2, <1>4, <1>5, <1>6, <1>7

LEMMA AlikeStays ==
  ASSUME BindInv, AlikeInv, NEW n \in Nodes, lists'[n] = lists[n], reader'[n] = reader[n],
         chain' = chain \/ \E m \in Messages : chain' = Append(chain, m)
  PROVE  AsRead(chain, lists[n].coin, lists[n].acct, Passed(n))'
  <1>1. Passed(n)' = Passed(n) /\ Passed(n) \in SUBSET (1..Len(chain))
    BY PassedStays DEF Passed
  <1>2. /\ chain \in Seq(Messages) /\ chain' \in Seq(Messages) /\ Len(chain') >= Len(chain)
        /\ \A i \in 1..Len(chain) : chain'[i] = chain[i]
    BY AppendIs DEF BindInv, ChainFine
  <1>3. lists[n].coin.num \in Nat /\ \A a \in Accts : lists[n].acct[a].num \in Nat
    BY NodeFacts DEF Arrays
  <1>4. AsRead(chain, lists[n].coin, lists[n].acct, Passed(n))
    BY DEF AlikeInv
  <1>5. AsRead(chain', lists[n].coin, lists[n].acct, Passed(n))
    BY <1>1, <1>2, <1>3, <1>4, AsReadStays
  <1> QED BY <1>1, <1>5

(* The nodes that a step does not concern stay alike. *)
LEMMA AlikeBut ==
  ASSUME BindInv, AlikeInv, NEW n \in Nodes,
         \A k \in Nodes \ {n} : lists'[k] = lists[k] /\ reader'[k] = reader[k],
         chain' = chain \/ \E m \in Messages : chain' = Append(chain, m),
         AsRead(chain, lists[n].coin, lists[n].acct, Passed(n))'
  PROVE  AlikeInv'
  <1>1. \A k \in Nodes \ {n} : AsRead(chain, lists[k].coin, lists[k].acct, Passed(k))'
    BY AlikeStays
  <1>2. \A k \in Nodes : AsRead(chain, lists[k].coin, lists[k].acct, Passed(k))'
    BY <1>1
  <1> QED BY <1>2 DEF AlikeInv

(* When a scanner comes to a message that is not foreign, the node is done *)
(* with all of those before it, whichever scanner read them.               *)
LEMMA AllBefore ==
  ASSUME BindInv, NEW n \in Nodes, NEW t \in {RT, HIST}, Reading(reader[n][t]),
         ~Foreign(Message(n, t))
  PROVE  Passed(n) = {j \in 1..(reader[n][t].next - 1) : ~Foreign(chain[j])}
  <1>1. PICK last, hist, rt, len :
          /\ last = reader[n][HIST].last /\ hist = reader[n][HIST].next
          /\ rt = reader[n][RT].next /\ len = Len(chain)
    OBVIOUS
  <1>2. /\ last \in Int /\ hist \in Nat /\ rt \in Nat /\ len \in Nat /\ hist >= 1 /\ rt >= 1
        /\ last <= len /\ last < rt
    BY <1>1, ScannersAt
  <1>3. /\ InHistory(n) <=> hist <= last
        /\ Reading(reader[n][RT]) <=> rt <= len
    BY <1>1, ScannersAt DEF InHistory
  <1>4. InHistory(n) => \A j \in 1..len : j > last => Foreign(chain[j])
    BY <1>1, NodeFacts DEF ScannersFine
  <1>5. Passed(n) = {j \in 1..len : ~Foreign(chain[j]) /\ ReadTo(last, hist, rt, j)}
    BY <1>1 DEF Passed, Done
  <1>6. CASE t = HIST
    <2>1. hist <= last /\ reader[n][t].next = hist
      BY <1>1, <1>3, <1>6 DEF InHistory
    <2>2. ASSUME NEW j \in 1..len, ~Foreign(chain[j])
          PROVE  ReadTo(last, hist, rt, j) <=> j <= hist - 1
      <3>1. j <= last
        BY <1>2, <1>3, <1>4, <2>1, <2>2
      <3> QED BY <1>2, <2>1, <3>1 DEF ReadTo
    <2>3. \A j : j \in 1..(hist - 1) <=> j \in 1..len /\ j <= hist - 1
      BY <1>2, <2>1
    <2> QED BY <1>5, <2>1, <2>2, <2>3
  <1>7. CASE t = RT
    <2>1. rt <= len /\ reader[n][t].next = rt /\ ~Foreign(chain[rt])
      BY <1>1, <1>3, <1>7 DEF Message
    <2>2. ~(hist <= last)
      BY <1>2, <1>3, <1>4, <2>1
    <2>3. ASSUME NEW j \in 1..len PROVE ReadTo(last, hist, rt, j) <=> j <= rt - 1
      BY <1>2, <2>2 DEF ReadTo
    <2>4. \A j : j \in 1..(rt - 1) <=> j \in 1..len /\ j <= rt - 1
      BY <1>2, <2>1
    <2> QED BY <1>5, <2>1, <2>3, <2>4
  <1> QED BY <1>6, <1>7

(* A scanner is done with a message. *)
LEMMA PassOn ==
  ASSUME BindInv, NEW n \in Nodes, NEW t \in {RT, HIST}, Reading(reader[n][t]), UNCHANGED chain,
         reader'[n][t].next = reader[n][t].next + 1, reader'[n][t].last = reader[n][t].last,
         \A u \in {RT, HIST} : u # t => reader'[n][u] = reader[n][u]
  PROVE  /\ Foreign(Message(n, t)) => Passed(n)' = Passed(n)
         /\ ~Foreign(Message(n, t)) => Passed(n)' = Passed(n) \cup {reader[n][t].next}
  <1>1. PICK last, hist, rt, len, at :
          /\ last = reader[n][HIST].last /\ hist = reader[n][HIST].next
          /\ rt = reader[n][RT].next /\ len = Len(chain) /\ at = reader[n][t].next
    OBVIOUS
  <1>2. /\ last \in Int /\ hist \in Nat /\ rt \in Nat /\ len \in Nat /\ hist >= 1 /\ rt >= 1
        /\ last <= len /\ last < rt
    BY <1>1, ScannersAt
  <1>3. PICK hist2, rt2 : hist2 = reader'[n][HIST].next /\ rt2 = reader'[n][RT].next
    OBVIOUS
  <1>4. /\ reader'[n][HIST].last = last
        /\ \/ t = HIST /\ hist <= last /\ at = hist /\ hist2 = hist + 1 /\ rt2 = rt
           \/ t = RT /\ rt <= len /\ at = rt /\ hist2 = hist /\ rt2 = rt + 1
    <2>1. RT # HIST
      BY DEF RT, HIST
    <2>2. CASE t = HIST
      <3>1. hist <= last /\ reader'[n][RT] = reader[n][RT]
        BY <1>1, <2>1, <2>2, ScannersAt
      <3> QED BY <1>1, <1>3, <2>2, <3>1
    <2>3. CASE t = RT
      <3>1. rt <= len /\ reader'[n][HIST] = reader[n][HIST]
        BY <1>1, <2>1, <2>3, ScannersAt
      <3> QED BY <1>1, <1>3, <2>3, <3>1
    <2> QED BY <2>2, <2>3
  <1>5. /\ Passed(n) = {j \in 1..len : ~Foreign(chain[j]) /\ ReadTo(last, hist, rt, j)}
        /\ Passed(n)' = {j \in 1..len : ~Foreign(chain[j]) /\ ReadTo(last, hist2, rt2, j)}
    <2>1. chain' = chain
      OBVIOUS
    <2> QED BY <1>1, <1>3, <1>4, <2>1 DEF Passed, Done, Foreign
  <1>6. at \in 1..len
    BY <1>2, <1>4
  <1>7. ASSUME NEW j \in 1..len
        PROVE  ReadTo(last, hist2, rt2, j) <=> ReadTo(last, hist, rt, j) \/ j = at
    BY <1>2, <1>4 DEF ReadTo
  <1>8. Message(n, t) = chain[at]
    BY <1>1 DEF Message
  <1>9. ASSUME Foreign(chain[at]) PROVE Passed(n)' = Passed(n)
    BY <1>5, <1>7, <1>9
  <1>10. ASSUME ~Foreign(chain[at]) PROVE Passed(n)' = Passed(n) \cup {at}
    BY <1>5, <1>6, <1>7, <1>10
  <1> QED BY <1>1, <1>8, <1>9, <1>10

LEMMA OwnFits ==
  ASSUME BindInv, NEW n \in Nodes, NEW a \in Accts
  PROVE  lists[n].acct[a] \in Arrays /\ lists[n].acct[a].num <= Len(lists[n].acct[a].slots)
  BY NodeFacts

(* What is on an account's own list is on the other. *)
LEMMA MeetAlike ==
  ASSUME BindInv, AlikeInv, NEW n \in Nodes, NEW t \in {RT, HIST}, Meet(n, t)
  PROVE  AlikeInv'
  <1> DEFINE s == reader[n][t]
             m == Message(n, t)
  <1>0. chain' = chain /\ lists' = lists
    BY DEF Meet
  <1>1. /\ s.at = "read" /\ Reading(s) /\ UNCHANGED <<chain, lists>>
        /\ reader' = [reader EXCEPT ![n][t] =
             IF Bindable(n, t) THEN [s EXCEPT !.at = "add"] ELSE [s EXCEPT !.next = @ + 1]]
    BY DEF Meet
  <1>2. /\ reader \in [Nodes -> [{RT, HIST} -> Scanners]] /\ s \in Scanners
        /\ lists[n] \in [acct : [Accts -> Arrays], coin : Arrays]
        /\ chain \in Seq(Messages) /\ Len(chain) \in Nat /\ ScannersFine(n) /\ ContentsFine(n)
    BY NodeFacts DEF BindInv, NodesFine
  <1>3. \A k \in Nodes \ {n} : reader'[k] = reader[k]
    BY <1>1, <1>2
  <1>4. AsRead(chain, lists[n].coin, lists[n].acct, Passed(n))
    BY DEF AlikeInv
  <1>5. CASE Bindable(n, t)
    <2>1. \A u \in {RT, HIST} : /\ reader'[n][u].next = reader[n][u].next
                                /\ reader'[n][u].last = reader[n][u].last
      <3>1. reader' = [reader EXCEPT ![n][t] = [s EXCEPT !.at = "add"]]
        BY <1>1, <1>5
      <3>2. [s EXCEPT !.at = "add"].next = s.next /\ [s EXCEPT !.at = "add"].last = s.last
        BY <1>2 DEF Scanners
      <3> QED BY <1>2, <3>1, <3>2
    <2>2. Passed(n)' = Passed(n)
      BY <1>1, <2>1 DEF Passed, Done, Foreign
    <2>3. AsRead(chain, lists[n].coin, lists[n].acct, Passed(n))'
      BY <1>0, <1>4, <2>2
    <2> QED BY <1>0, <1>3, <2>3, AlikeBut
  <1>6. CASE ~Bindable(n, t)
    <2>1. /\ reader'[n][t].next = s.next + 1 /\ reader'[n][t].last = s.last
          /\ \A u \in {RT, HIST} : u # t => reader'[n][u] = reader[n][u]
      <3>1. reader' = [reader EXCEPT ![n][t] = [s EXCEPT !.next = s.next + 1]]
        BY <1>1, <1>6
      <3>2. /\ [s EXCEPT !.next = s.next + 1].next = s.next + 1
            /\ [s EXCEPT !.next = s.next + 1].last = s.last
        BY <1>2 DEF Scanners
      <3> QED BY <1>2, <3>1, <3>2
    <2>2. CASE Foreign(m)
      <3>1. Passed(n)' = Passed(n)
        BY <1>1, <2>1, <2>2, PassOn
      <3>2. AsRead(chain, lists[n].coin, lists[n].acct, Passed(n))'
        BY <1>0, <1>4, <3>1
      <3> QED BY <1>0, <1>3, <3>2, AlikeBut
    <2>3. CASE ~Foreign(m)
      <3>1. Passed(n)' = Passed(n) \cup {s.next}
        BY <1>1, <2>1, <2>3, PassOn
      <3>2. s.next \in 1..Len(chain)
        BY <1>1, <1>2 DEF Scanners, Reading, ScannersFine
      <3>3. m \in Messages /\ m = chain[s.next]
        BY <1>2, <3>2 DEF Message
      <3>4. m.sender \in Gateways /\ Decoded(m.msig) /\ m.msig.acct \in Accts
        BY <2>3, <3>3 DEF Foreign, Decoded, Messages, Msigs, Peers
      <3> DEFINE own == lists[n].acct[m.msig.acct]
      <3>5. own \in Arrays /\ own.num <= Len(own.slots)
        BY <3>4, OwnFits
      <3>6. PICK k \in 1..own.num : Held(own)[k] = m.msig
        <4>1. Known(n, m.msig)
          BY <1>6, <3>4 DEF Bindable
        <4> QED BY <4>1 DEF Known, Same
      <3>7. own.slots[k] = m.msig
        <4> HIDE DEF own, m, s
        <4>1. Held(own)[k] = own.slots[k]
          BY <3>5, HeldIs
        <4> QED BY <3>6, <4>1
      <3>8. \E i \in 1..lists[n].coin.num : lists[n].coin.slots[i] = chain[s.next].msig
        <4>1. SameMsigs(lists[n].coin, lists[n].acct)
          BY <1>2, Zenon DEF ContentsFine
        <4>2. \E i \in 1..lists[n].coin.num : lists[n].coin.slots[i] = own.slots[k]
          BY <3>4, <4>1, OwnInCoin
        <4>3. own.slots[k] = chain[s.next].msig
          <5> HIDE DEF own, s, m
          <5> QED BY <3>3, <3>7
        <4> HIDE DEF own, s, m
        <4>4. PICK i \in 1..lists[n].coin.num : lists[n].coin.slots[i] = own.slots[k]
          BY <4>2
        <4> QED BY <4>3, <4>4
      <3>9. AsRead(chain, lists[n].coin, lists[n].acct, Passed(n) \cup {s.next})
        <4> HIDE DEF s, m, own
        <4> QED BY <1>4, <3>8, AsReadPasses, Zenon
      <3>10. AsRead(chain, lists[n].coin, lists[n].acct, Passed(n))'
        BY <1>0, <3>1, <3>9
      <3> QED BY <1>0, <1>3, <3>10, AlikeBut
    <2> QED BY <2>2, <2>3
  <1> QED BY <1>5, <1>6

LEMMA WriteAlike ==
  ASSUME BindInv, AlikeInv, NEW n \in Nodes, NEW t \in {RT, HIST}, Write(n, t)
  PROVE  AlikeInv'
  <1> DEFINE m == Message(n, t).msig
             own == lists[n].acct
             coin == lists[n].coin
  <1>0. chain' = chain
    BY DEF Write
  <1>1. /\ reader[n][t].at = "add" /\ UNCHANGED chain
        /\ lists' = [lists EXCEPT ![n].acct[m.acct] = Written(@, m), ![n].coin = Written(@, m)]
        /\ reader' = [reader EXCEPT ![n][t].at = "count"]
    BY DEF Write
  <1>2. /\ lists \in [Nodes -> [acct : [Accts -> Arrays], coin : Arrays]]
        /\ reader \in [Nodes -> [{RT, HIST} -> Scanners]]
        /\ AddingFine(n) /\ coin \in Arrays /\ own \in [Accts -> Arrays]
    BY NodeFacts DEF BindInv, NodesFine
  <1>3. /\ m \in Msigs /\ m.acct \in Accts
        /\ \A u \in {RT, HIST} : u # t => reader[n][u].at = "read"
    BY <1>1, Adding
  <1> HIDE DEF m
  <1>4. Full(coin) /\ \A a \in Accts : Full(own[a])
    BY <1>1, <1>2, <1>3 DEF AddingFine
  <1> DEFINE c == Written(coin, m)
             o == Written(own[m.acct], m)
  <1>5. /\ c.num = coin.num /\ \A i \in 1..coin.num : c.slots[i] = coin.slots[i]
        /\ o.num = own[m.acct].num
        /\ \A i \in 1..own[m.acct].num : o.slots[i] = own[m.acct].slots[i]
    BY <1>2, <1>3, <1>4, WrittenIs
  <1>6. lists' = [lists EXCEPT ![n].acct[m.acct] = o, ![n].coin = c]
    BY <1>1
  <1> HIDE DEF c, o
  <1>7. /\ lists'[n].coin = c /\ lists'[n].acct[m.acct] = o
        /\ \A a \in Accts \ {m.acct} : lists'[n].acct[a] = own[a]
        /\ \A k \in Nodes \ {n} : lists'[k] = lists[k]
    BY <1>2, <1>3, <1>6
  <1>8. /\ \A u \in {RT, HIST} : /\ reader'[n][u].next = reader[n][u].next
                                 /\ reader'[n][u].last = reader[n][u].last
        /\ \A k \in Nodes \ {n} : reader'[k] = reader[k]
    <2>1. reader' = [reader EXCEPT ![n][t] = [reader[n][t] EXCEPT !.at = "count"]]
      BY <1>1, <1>2
    <2>2. /\ [reader[n][t] EXCEPT !.at = "count"].next = reader[n][t].next
          /\ [reader[n][t] EXCEPT !.at = "count"].last = reader[n][t].last
      BY <1>2 DEF Scanners
    <2> QED BY <1>2, <2>1, <2>2
  <1>9. Passed(n)' = Passed(n) /\ Passed(n) \in SUBSET (1..Len(chain))
    BY <1>1, <1>8 DEF Passed, Done, Foreign
  <1>10. AsRead(chain, coin, own, Passed(n))
    BY DEF AlikeInv
  <1>11. \A a \in Accts :
           /\ lists'[n].acct[a].num = own[a].num /\ own[a].num \in Nat
           /\ \A k \in 1..own[a].num : lists'[n].acct[a].slots[k] = own[a].slots[k]
    BY <1>2, <1>5, <1>7 DEF Arrays
  <1>12. chain \in Seq(Messages) /\ Len(chain) >= Len(chain) /\ coin.num \in Nat
    BY <1>2 DEF BindInv, ChainFine, Arrays
  <1>13. AsRead(chain, lists'[n].coin, lists'[n].acct, Passed(n))
    <2>1. PICK coin2, own2 : coin2 = lists'[n].coin /\ own2 = lists'[n].acct
      OBVIOUS
    <2>2. /\ coin2.num = coin.num /\ \A i \in 1..coin.num : coin2.slots[i] = coin.slots[i]
          /\ \A a \in Accts : /\ own2[a].num = own[a].num /\ own[a].num \in Nat
                             /\ \A k \in 1..own[a].num : own2[a].slots[k] = own[a].slots[k]
      BY <1>5, <1>7, <1>11, <2>1, Zenon
    <2> HIDE DEF coin, own
    <2>3. AsRead(chain, coin2, own2, Passed(n))
      BY <1>9, <1>10, <1>12, <2>2, AsReadStays
    <2> QED BY <2>1, <2>3
  <1>14. AsRead(chain, lists[n].coin, lists[n].acct, Passed(n))'
    BY <1>0, <1>9, <1>13
  <1> QED BY <1>0, <1>7, <1>8, <1>14, AlikeBut

LEMMA CountAlike ==
  ASSUME BindInv, AlikeInv, NEW n \in Nodes, NEW t \in {RT, HIST}, Count(n, t)
  PROVE  AlikeInv'
  <1> DEFINE m == Message(n, t).msig
             own == lists[n].acct
             coin == lists[n].coin
             at == reader[n][t].next
  <1>0. chain' = chain
    BY DEF Count
  <1>1. /\ reader[n][t].at = "count" /\ UNCHANGED chain
        /\ lists' = [lists EXCEPT ![n].acct[m.acct] = Counted(@), ![n].coin = Counted(@)]
        /\ reader' = [reader EXCEPT ![n][t] = [reader[n][t] EXCEPT !.at = "read", !.next = @ + 1]]
    BY DEF Count
  <1>2. /\ lists \in [Nodes -> [acct : [Accts -> Arrays], coin : Arrays]]
        /\ reader \in [Nodes -> [{RT, HIST} -> Scanners]]
        /\ AddingFine(n) /\ coin \in Arrays /\ own \in [Accts -> Arrays]
        /\ SameMsigs(coin, own) /\ \A i \in 1..coin.num : coin.slots[i].acct \in Accts
    BY NodeFacts DEF BindInv, NodesFine, ContentsFine, Msigs
  <1>3. /\ m.acct \in Accts /\ Reading(reader[n][t]) /\ ~Foreign(Message(n, t))
        /\ at \in 1..Len(chain) /\ \A i \in 1..coin.num : coin.slots[i] # m
    BY <1>1, Adding
  <1>4. HalfAdded(coin, m) /\ HalfAdded(own[m.acct], m)
    BY <1>1, <1>2 DEF AddingFine
  <1>5. ~Foreign(chain[at]) /\ m = chain[at].msig
    BY <1>3 DEF Message
  <1>6. /\ Passed(n)' = Passed(n) \cup {at} /\ \A k \in Nodes \ {n} : reader'[k] = reader[k]
        /\ Passed(n) = {j \in 1..(at - 1) : ~Foreign(chain[j])}
    <2> DEFINE r == [reader[n][t] EXCEPT !.at = "read", !.next = @ + 1]
    <2>1. r.next = at + 1 /\ r.last = reader[n][t].last
      BY <1>2 DEF Scanners
    <2>2. reader' = [reader EXCEPT ![n][t] = r]
      BY <1>1
    <2> HIDE DEF r
    <2>3. /\ reader'[n][t].next = at + 1 /\ reader'[n][t].last = reader[n][t].last
          /\ \A u \in {RT, HIST} : u # t => reader'[n][u] = reader[n][u]
          /\ \A k \in Nodes \ {n} : reader'[k] = reader[k]
      BY <1>2, <2>1, <2>2
    <2> QED BY <1>1, <1>3, <2>3, PassOn, AllBefore
  <1> HIDE DEF m, at
  <1> DEFINE c == Counted(coin)
             o == Counted(own[m.acct])
  <1>7. OneMore(coin, c, m) /\ OneMore(own[m.acct], o, m)
    <2>1. \A l \in Arrays : HalfAdded(l, m) => OneMore(l, Counted(l), m)
      BY CountedIs DEF OneMore, HalfAdded, Arrays
    <2> HIDE DEF coin, own
    <2> QED BY <1>2, <1>3, <1>4, <2>1
  <1>8. lists' = [lists EXCEPT ![n].acct[m.acct] = o, ![n].coin = c]
    BY <1>1
  <1> HIDE DEF c, o
  <1>9. /\ lists'[n].coin = c /\ lists'[n].acct[m.acct] = o
        /\ \A a \in Accts \ {m.acct} : lists'[n].acct[a] = own[a]
        /\ \A k \in Nodes \ {n} : lists'[k] = lists[k]
    BY <1>2, <1>3, <1>8
  <1>10. AsRead(chain, coin, own, Passed(n)) /\ chain \in Seq(Messages)
    BY DEF AlikeInv, BindInv, ChainFine
  <1>11. coin.num \in Nat /\ \A a \in Accts : own[a].num \in Nat
    <2>1. \A l \in Arrays : l.num \in Nat
      BY DEF Arrays
    <2> HIDE DEF coin, own
    <2> QED BY <1>2, <2>1
  <1>12. AsRead(chain, lists'[n].coin, lists'[n].acct, Passed(n) \cup {at})
    <2>1. /\ \A k \in 1..coin.num : coin.slots[k] # m /\ coin.slots[k].acct \in Accts
          /\ Passed(n) = {j \in 1..(at - 1) : ~Foreign(chain[j])}
      BY <1>2, <1>3, <1>6
    <2>2. PICK coin2, own2 : coin2 = lists'[n].coin /\ own2 = lists'[n].acct
      OBVIOUS
    <2>3. /\ OneMore(coin, coin2, m) /\ OneMore(own[m.acct], own2[m.acct], m)
          /\ \A a \in Accts \ {m.acct} : own2[a] = own[a]
      BY <1>7, <1>9, <2>2
    <2> HIDE DEF coin, own
    <2>4. AsRead(chain, coin2, own2, Passed(n) \cup {at})
      BY <1>2, <1>3, <1>5, <1>10, <1>11, <2>1, <2>3, AsReadCounts
    <2> QED BY <2>2, <2>4
  <1>13. AsRead(chain, lists[n].coin, lists[n].acct, Passed(n))'
    BY <1>0, <1>6, <1>12
  <1> QED BY <1>0, <1>6, <1>9, <1>13, AlikeBut
(* A node that has read nothing holds nothing. *)
NewNodesAsRead == \A n : StartsAfresh(n) => AsRead(chain, lists[n].coin, lists[n].acct, Passed(n))

LEMMA NewNodeAsRead == NewNodesAsRead
  <1> SUFFICES ASSUME NEW n, StartsAfresh(n)
               PROVE  AsRead(chain, lists[n].coin, lists[n].acct, Passed(n))
    BY DEF NewNodesAsRead
  <1>1. lists[n].coin.num = 0 /\ \A a \in Accts : lists[n].acct[a].num = 0
    BY DEF StartsAfresh, EmptyLists, Empty
  <1>2. Len(chain) \in Nat /\ RT # HIST
    BY DEF StartsAfresh, RT, HIST
  <1>3. /\ \A f, l : From(f, l).next = f /\ From(f, l).last = l
        /\ chain = <<>> <=> Len(chain) = 0
    BY DEF From, StartsAfresh
  <1>4. /\ reader[n][RT].next = Len(chain) + 1 /\ reader[n][HIST].next = 1
        /\ reader[n][HIST].last = IF Len(chain) = 0 THEN -1 ELSE Len(chain)
    <2>1. CASE reader[n] = Fresh /\ Len(chain) = 0
      BY <1>2, <1>3, <2>1 DEF Fresh
    <2>2. CASE reader[n] = [t \in {RT, HIST} |->
                 IF t = RT THEN From(Len(chain) + 1, 0)
                 ELSE From(1, IF chain = <<>> THEN -1 ELSE Len(chain))]
      BY <1>2, <1>3, <2>2
    <2> QED BY <2>1, <2>2 DEF StartsAfresh
  <1>5. Passed(n) = {}
    <2>1. ASSUME NEW i \in 1..Len(chain) PROVE ~Done(n, i)
      BY <1>2, <1>4 DEF Done, ReadTo
    <2> QED BY <2>1 DEF Passed
  <1>6. 1..0 = {}
    OBVIOUS
  <1> QED BY <1>1, <1>5, <1>6 DEF AsRead, HoldsAll, HoldsOnly, InOrder, HeadsFirst

LEMMA RestartAlike ==
  ASSUME BindInv, AlikeInv, NEW n, Restart(n)
  PROVE  AlikeInv'
  <1>1. UNCHANGED chain /\ chain \in Seq(Messages) /\ Len(chain) \in Nat
    BY DEF Restart, BindInv, ChainFine
  <1>2. CASE n \notin Nodes
    <2>1. UNCHANGED <<lists, reader>>
      BY <1>2 DEF Restart
    <2>2. \A k \in Nodes : AsRead(chain, lists[k].coin, lists[k].acct, Passed(k))'
      BY <1>1, <2>1, AlikeStays
    <2> QED BY <2>2 DEF AlikeInv
  <1>3. CASE n \in Nodes
    <2>1. /\ lists' = [lists EXCEPT ![n] = EmptyLists] /\ reader' = [reader EXCEPT ![n] = Restarted]
          /\ DOMAIN lists = Nodes /\ DOMAIN reader = Nodes
      BY <1>3 DEF Restart, BindInv, NodesFine
    <2>2. /\ lists'[n] = EmptyLists /\ reader'[n] = Restarted
          /\ \A k \in Nodes \ {n} : lists'[k] = lists[k] /\ reader'[k] = reader[k]
      BY <1>3, <2>1
    <2>3. reader'[n] = [t \in {RT, HIST} |->
              IF t = RT THEN From(Len(chain) + 1, 0)
              ELSE From(1, IF chain = <<>> THEN -1 ELSE Len(chain))]
      BY <2>2 DEF Restarted
    <2>4. NewNodesAsRead'
      BY NewNodeAsRead, PTL
    <2>5. StartsAfresh(n)'
      BY <1>1, <2>2, <2>3 DEF StartsAfresh
    <2>6. AsRead(chain, lists[n].coin, lists[n].acct, Passed(n))'
      BY <2>4, <2>5 DEF NewNodesAsRead
    <2> QED BY <1>1, <1>3, <2>2, <2>6, AlikeBut
  <1> QED BY <1>2, <1>3

LEMMA AlikeInit ==
  ASSUME Init
  PROVE  AlikeInv
  <1> SUFFICES ASSUME NEW n \in Nodes
               PROVE  AsRead(chain, lists[n].coin, lists[n].acct, Passed(n))
    BY DEF AlikeInv
  <1>1. chain = <<>> /\ lists[n] = EmptyLists /\ reader[n] = Fresh
    BY DEF Init
  <1>2. chain \in Seq(Messages) /\ Len(chain) = 0
    BY <1>1
  <1>3. StartsAfresh(n)
    BY <1>1, <1>2 DEF StartsAfresh
  <1> QED BY <1>3, NewNodeAsRead DEF NewNodesAsRead

(* What is appended to the chain is a message. *)
LEMMA ChainAppends ==
  ASSUME BindInv, BindInv', NEW m, chain' = Append(chain, m)
  PROVE  m \in Messages
  <1>1. chain \in Seq(Messages) /\ chain' \in Seq(Messages)
    BY DEF BindInv, ChainFine
  <1>2. Len(chain) + 1 \in 1..Len(chain') /\ chain'[Len(chain) + 1] = m
    BY <1>1, AppendIs
  <1> QED BY <1>1, <1>2

LEMMA AlikeStep ==
  ASSUME BindInv, BindInv', AlikeInv, [Next]_vars
  PROVE  AlikeInv'
  <1>1. ASSUME UNCHANGED <<lists, reader>>,
               chain' = chain \/ \E m \in Messages : chain' = Append(chain, m)
        PROVE  AlikeInv'
    <2>1. \A k \in Nodes : AsRead(chain, lists[k].coin, lists[k].acct, Passed(k))'
      BY <1>1, AlikeStays
    <2> QED BY <2>1 DEF AlikeInv
  <1>2. CASE GenNext /\ UNCHANGED <<chain, lists, reader, restarts>>
    BY <1>1, <1>2
  <1>3. ASSUME NEW g \in Gateways, Announce(g) PROVE AlikeInv'
    <2>1. UNCHANGED <<lists, reader>>
          /\ (chain' = chain \/ chain' = Append(chain, [sender |-> g, msig |-> Made(g)]))
      BY <1>3 DEF Announce
    <2> QED BY <1>1, <2>1, ChainAppends
  <1>4. ASSUME NEW a \in Accts, OtherMessage(a) PROVE AlikeInv'
    <2>1. UNCHANGED <<lists, reader>> /\ \E m : chain' = Append(chain, m)
      BY <1>4 DEF OtherMessage
    <2> QED BY <1>1, <2>1, ChainAppends
  <1>5. ASSUME NEW n \in Nodes, NEW t \in {RT, HIST}, Scan(n, t) PROVE AlikeInv'
    BY <1>5, MeetAlike, WriteAlike, CountAlike DEF Scan
  <1>6. ASSUME NEW n, Restart(n) PROVE AlikeInv'
    BY <1>6, RestartAlike
  <1>7. CASE UNCHANGED vars
    BY <1>1, <1>7 DEF vars
  <1> QED BY <1>2, <1>3, <1>4, <1>5, <1>6, <1>7 DEF Next

-----------------------------------------------------------------------------
(* Nodes that have read the same messages hold the same.                   *)

(* Two arrays of the msigs of the same messages, in the order of the chain,*)
(* do not differ: of the two msigs in the first slot where they would, each *)
(* would have come before the other.                                       *)
LEMMA SameOrder ==
  ASSUME NEW ch \in Seq(Messages), NEW P, NEW c, NEW own, NEW d, NEW own2,
         c.num \in Nat, d.num \in Nat, AsRead(ch, c, own, P), AsRead(ch, d, own2, P)
  PROVE  \A i \in 1..c.num : i \in 1..d.num /\ d.slots[i] = c.slots[i]
  <1>0. /\ HoldsAll(ch, c, P) /\ HoldsOnly(ch, c, P) /\ InOrder(ch, c)
        /\ HoldsAll(ch, d, P) /\ HoldsOnly(ch, d, P) /\ InOrder(ch, d)
    BY DEF AsRead
  <1> DEFINE S == {i \in 1..c.num : ~(i \in 1..d.num /\ d.slots[i] = c.slots[i])}
  <1> SUFFICES ASSUME S # {} PROVE FALSE
    OBVIOUS
  <1>1. PICK i \in S : \A k \in S : i <= k
    <2>1. S \in SUBSET Nat
      OBVIOUS
    <2> HIDE DEF S
    <2> QED BY <2>1, LeastFound
  <1>2. i \in 1..c.num /\ ~(i \in 1..d.num /\ d.slots[i] = c.slots[i])
    OBVIOUS
  <1>3. \A k \in 1..c.num : k < i => k \in 1..d.num /\ d.slots[k] = c.slots[k]
    BY <1>1
  <1> HIDE DEF S
  <1>4. \A x : ~Before(ch, x, x)
    BY BeforeAsymmetric
  <1>5. PICK j \in 1..d.num : d.slots[j] = c.slots[i]
    <2>1. PICK p \in P : ch[p].msig = c.slots[i]
      BY <1>0, <1>2 DEF HoldsOnly
    <2>2. PICK k \in 1..d.num : d.slots[k] = ch[p].msig
      BY <1>0 DEF HoldsAll
    <2> QED BY <2>1, <2>2
  <1>6. j > i
    <2>1. ~(j < i)
      <3> SUFFICES ASSUME j < i PROVE FALSE
        OBVIOUS
      <3>1. j \in 1..c.num /\ c.slots[j] = c.slots[i]
        BY <1>2, <1>3, <1>5
      <3> QED BY <1>0, <1>2, <1>4, <3>1 DEF InOrder
    <2>2. j # i
      BY <1>2, <1>5
    <2> QED BY <1>2, <2>1, <2>2
  <1>7. i \in 1..d.num /\ Before(ch, d.slots[i], c.slots[i])
    <2>1. i \in 1..d.num
      BY <1>2, <1>6
    <2> QED BY <1>0, <1>5, <1>6, <2>1 DEF InOrder
  <1>8. PICK k \in 1..c.num : c.slots[k] = d.slots[i]
    <2>1. PICK p \in P : ch[p].msig = d.slots[i]
      BY <1>0, <1>7 DEF HoldsOnly
    <2>2. PICK k \in 1..c.num : c.slots[k] = ch[p].msig
      BY <1>0 DEF HoldsAll
    <2> QED BY <2>1, <2>2
  <1>9. k > i
    <2>1. ~(k < i)
      <3> SUFFICES ASSUME k < i PROVE FALSE
        OBVIOUS
      <3>1. k \in 1..d.num /\ d.slots[k] = d.slots[i]
        BY <1>3, <1>8
      <3> QED BY <1>0, <1>4, <1>7, <3>1 DEF InOrder
    <2>2. k # i
      BY <1>2, <1>7, <1>8
    <2> QED BY <1>2, <2>1, <2>2
  <1>10. Before(ch, c.slots[i], d.slots[i])
    BY <1>0, <1>2, <1>8, <1>9 DEF InOrder
  <1> QED BY <1>7, <1>10, BeforeAsymmetric

(* An account has one first msig. *)
LEMMA FirstIsOne ==
  ASSUME NEW l, l.num \in Nat, NEW a, NEW x, NEW y, x.acct = a, y.acct = a,
         FirstOf(l, a, x), FirstOf(l, a, y)
  PROVE  x = y
  <1>1. PICK i \in 1..l.num : l.slots[i] = x /\ \A k \in 1..(i - 1) : l.slots[k].acct # a
    BY DEF FirstOf
  <1>2. PICK j \in 1..l.num : l.slots[j] = y /\ \A k \in 1..(j - 1) : l.slots[k].acct # a
    BY DEF FirstOf
  <1>3. ~(i < j) /\ ~(j < i)
    BY <1>1, <1>2
  <1> QED BY <1>1, <1>2, <1>3

(* A node at rest is done with every message of the chain. *)
LEMMA AllPassed ==
  ASSUME BindInv, NEW n \in Nodes, AtRest(n)
  PROVE  /\ Passed(n) = {i \in 1..Len(chain) : ~Foreign(chain[i])}
         /\ Full(lists[n].coin) /\ \A a \in Accts : Full(lists[n].acct[a])
  <1>1. AddingFine(n)
    BY NodeFacts
  <1>2. \A t \in {RT, HIST} : reader[n][t].at # "count" /\ ~Reading(reader[n][t])
    BY DEF AtRest
  <1>3. PICK last, hist, rt, len :
          /\ last = reader[n][HIST].last /\ hist = reader[n][HIST].next
          /\ rt = reader[n][RT].next /\ len = Len(chain)
    OBVIOUS
  <1>4. /\ last \in Int /\ hist \in Nat /\ rt \in Nat /\ len \in Nat
        /\ ~(hist <= last) /\ ~(rt <= len)
    BY <1>2, <1>3, ScannersAt
  <1>5. ASSUME NEW i \in 1..Len(chain) PROVE Done(n, i)
    <2>1. i \in 1..len
      BY <1>3
    <2>2. ReadTo(last, hist, rt, i)
      BY <1>4, <2>1 DEF ReadTo
    <2> QED BY <1>3, <2>2 DEF Done
  <1>6. Passed(n) = {i \in 1..Len(chain) : ~Foreign(chain[i])}
    BY <1>5 DEF Passed
  <1> QED BY <1>1, <1>2, <1>6 DEF AddingFine

LEMMA AlikeInvMeans ==
  ASSUME BindInv, AlikeInv
  PROVE  NodesBindAlike
  <1> SUFFICES ASSUME NEW n \in Nodes, NEW k \in Nodes, AtRest(n), AtRest(k)
               PROVE  /\ Held(lists[n].coin) = Held(lists[k].coin)
                      /\ \A a \in Accts : DepositAddr(n, a) = DepositAddr(k, a)
    BY DEF NodesBindAlike
  <1> DEFINE All == {i \in 1..Len(chain) : ~Foreign(chain[i])}
  <1>1. \A h \in {n, k} :
          /\ AsRead(chain, lists[h].coin, lists[h].acct, All)
          /\ SameMsigs(lists[h].coin, lists[h].acct)
          /\ lists[h].coin \in Arrays /\ lists[h].coin.num <= Len(lists[h].coin.slots)
          /\ \A a \in Accts : /\ lists[h].acct[a] \in Arrays
                              /\ lists[h].acct[a].num <= Len(lists[h].acct[a].slots)
    BY AllPassed, NodeFacts DEF AlikeInv, ContentsFine
  <1>2. chain \in Seq(Messages)
    BY DEF BindInv, ChainFine
  <1> HIDE DEF All
  <1>3. PICK c, d, own, own2 : /\ c = lists[n].coin /\ d = lists[k].coin
                               /\ own = lists[n].acct /\ own2 = lists[k].acct
    OBVIOUS
  <1>4. /\ AsRead(chain, c, own, All) /\ AsRead(chain, d, own2, All)
        /\ SameMsigs(c, own) /\ SameMsigs(d, own2)
        /\ c \in Arrays /\ d \in Arrays /\ c.num <= Len(c.slots) /\ d.num <= Len(d.slots)
        /\ \A a \in Accts : /\ own[a] \in Arrays /\ own[a].num <= Len(own[a].slots)
                            /\ own2[a] \in Arrays /\ own2[a].num <= Len(own2[a].slots)
    BY <1>1, <1>3
  <1>5. c.num \in Nat /\ d.num \in Nat /\ \A a \in Accts : own[a].num \in Nat /\ own2[a].num \in Nat
    BY <1>4 DEF Arrays
  <1>6. /\ \A i \in 1..c.num : i \in 1..d.num /\ d.slots[i] = c.slots[i]
        /\ \A i \in 1..d.num : i \in 1..c.num /\ c.slots[i] = d.slots[i]
    BY <1>2, <1>4, <1>5, SameOrder
  <1>7. c.num = d.num
    <2>1. c.num <= d.num
      BY <1>5, <1>6
    <2>2. d.num <= c.num
      BY <1>5, <1>6
    <2> QED BY <1>5, <2>1, <2>2
  <1>8. Held(c) = Held(d)
    <2>1. \A i \in 1..c.num : i <= Len(c.slots) /\ i <= Len(d.slots)
      BY <1>4, <1>5, <1>7 DEF Arrays
    <2> QED BY <1>6, <1>7, <2>1 DEF Held
  <1>9. ASSUME NEW a \in Accts PROVE DepositAddr(n, a) = DepositAddr(k, a)
    <2>1. own[a].num > 0 <=> own2[a].num > 0
      <3>1. \A l, o : SameMsigs(l, o) /\ o[a].num \in Nat =>
              (o[a].num > 0 <=> \E i \in 1..l.num : l.slots[i].acct = a)
        <4> TAKE l, o
        <4> HAVE SameMsigs(l, o) /\ o[a].num \in Nat
        <4>1. ASSUME o[a].num > 0 PROVE \E i \in 1..l.num : l.slots[i].acct = a
          <5>1. 1 \in 1..o[a].num
            BY <4>1
          <5> QED BY <5>1 DEF SameMsigs
        <4>2. ASSUME NEW i \in 1..l.num, l.slots[i].acct = a PROVE o[a].num > 0
          <5>1. \E j \in 1..o[l.slots[i].acct].num : TRUE
            BY DEF SameMsigs
          <5> QED BY <4>2, <5>1
        <4> QED BY <4>1, <4>2
      <3>2. /\ own[a].num > 0 <=> \E i \in 1..c.num : c.slots[i].acct = a
            /\ own2[a].num > 0 <=> \E i \in 1..d.num : d.slots[i].acct = a
        BY <1>4, <1>5, <3>1, Zenon
      <3>3. (\E i \in 1..c.num : c.slots[i].acct = a) <=> (\E i \in 1..d.num : d.slots[i].acct = a)
        BY <1>6, Zenon
      <3> QED BY <3>2, <3>3, Zenon
    <2>2. CASE own[a].num = 0
      <3>1. own2[a].num = 0
        BY <1>5, <2>1, <2>2
      <3> QED BY <1>3, <2>2, <3>1 DEF DepositAddr
    <2>3. CASE own[a].num > 0
      <3>1. 1 \in 1..own[a].num /\ 1 \in 1..own2[a].num
        BY <1>5, <2>1, <2>3
      <3>2. own[a].slots[1].acct = a /\ own2[a].slots[1].acct = a
        BY <1>4, <3>1 DEF SameMsigs
      <3>3. FirstOf(c, a, own[a].slots[1]) /\ FirstOf(d, a, own2[a].slots[1])
        BY <1>4, <2>1, <2>3 DEF AsRead, HeadsFirst
      <3>4. FirstOf(c, a, own2[a].slots[1])
        <4>1. PICK i \in 1..d.num : /\ d.slots[i] = own2[a].slots[1]
                                    /\ \A j \in 1..(i - 1) : d.slots[j].acct # a
          BY <3>3 DEF FirstOf
        <4>2. \A j \in 1..(i - 1) : j \in 1..d.num
          BY <1>5
        <4> QED BY <1>6, <4>1, <4>2 DEF FirstOf
      <3>5. own[a].slots[1] = own2[a].slots[1]
        BY <1>5, <3>2, <3>3, <3>4, FirstIsOne
      <3>6. Held(own[a])[1] = own[a].slots[1] /\ Held(own2[a])[1] = own2[a].slots[1]
        BY <1>4, <3>1, HeldIs
      <3>7. own[a].num # 0 /\ own2[a].num # 0
        BY <1>5, <2>1, <2>3
      <3> QED BY <1>3, <3>5, <3>6, <3>7 DEF DepositAddr
    <2> QED BY <1>5, <2>2, <2>3
  <1> QED BY <1>3, <1>8, <1>9

(* Nodes that have read the whole chain hold the same msigs in the same    *)
(* order and tell an account the same address, for every set of nodes and  *)
(* however often gateways and nodes stopped and started again, as long as  *)
(* nothing is announced while a node reads its history (under the settings  *)
(* of MCBindingHistory.cfg it is, and they differ): update_acct_binding    *)
(* binds in the order of the chain, whichever of its two threads calls it. *)
THEOREM NodesAlwaysBindAlike == Quiet => (Spec => []NodesBindAlike)
  <1> SUFFICES ASSUME Quiet PROVE Spec => []NodesBindAlike
    OBVIOUS
  <1>1. Init => BindInv /\ AlikeInv
    BY BindInit, AlikeInit
  <1>2. BindInv /\ AlikeInv /\ [Next]_vars => (BindInv /\ AlikeInv)'
    BY BindStep, AlikeStep DEF Quiet
  <1>3. BindInv /\ AlikeInv => NodesBindAlike
    BY AlikeInvMeans
  <1> QED BY <1>1, <1>2, <1>3, PTL DEF Spec
=============================================================================
