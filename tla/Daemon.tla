------------------------------ MODULE Daemon ------------------------------
(***************************************************************************)
(* How the program reaches the coin daemons and the NXT server: at the     *)
(* start the main thread reads each coin's configuration (daemon.h) and    *)
(* asks its daemon for the height, then threads of their own ask both      *)
(* (bitcoind_RPC.c), where a request that fails is made again.             *)
(***************************************************************************)
EXTENDS Integers, Sequences, FiniteSets, SequencesExt

CONSTANTS
  Coins,         (* sequence of the coins[] of init_multigateway *)
  NXTAPI,        (* the NXT server, which is asked with no command *)
  Main,          (* the main thread *)
  Threads,       (* the threads it starts *)
  NumRetries,    (* NUM_BITCOIND_RETRIES *)
  Pieces,        (* the pieces an answer arrives in *)
  MaxCalls,      (* bound: calls of each thread *)
  Settings       (* the circumstances to look at, see the variable *)

NULL == "null"
NullStr == "<nullstr>"
Nothing == [from |-> 0, text |-> NULL]
Callers == Threads \cup {Main}

ASSUME DaemonAssumption ==
  /\ Main \notin Threads /\ NXTAPI \notin ToSet(Coins)
  /\ {NumRetries, MaxCalls} \subseteq Nat /\ Pieces \in Nat \ {0}
  /\ \A c \in Settings : /\ DOMAIN c.conf \subseteq ToSet(Coins)
                         /\ c.breaks \in BOOLEAN

VARIABLES
  setting,    (* conf: the lines of the configurations that exist, by coin, each *)
              (* the field it has and the characters behind it; answers: what    *)
              (* may be answered; breaks: whether connections may break          *)
  startup,    (* where the main thread stands: the coin it is at *)
  coins,      (* the coins' replicated_coininfo and daemon_info *)
  curl,       (* didinit, and how often curl_global_init was called *)
  calls       (* the call each thread makes *)

vars == <<setting, startup, coins, curl, calls>>

NoCall == [at |-> "idle", to |-> NXTAPI, userpass |-> <<>>, retries |-> 0, memory |-> <<>>,
           answer |-> NULL, ret |-> Nothing, done |-> 0, performed |-> 0, failed |-> 0]
NoCoin == [lp |-> FALSE, cp |-> FALSE, userpass |-> <<>>, handlers |-> FALSE]

Init ==
  /\ setting \in Settings
  /\ startup = [at |-> "NXT", coin |-> 1]
  /\ coins = [c \in ToSet(Coins) |-> NoCoin]
  /\ curl = [didinit |-> FALSE, inits |-> 0]
  /\ calls = [p \in Callers |-> NoCall]

-----------------------------------------------------------------------------
(* Configurations *)

stripstr(s) == SelectSeq(s, LAMBDA c : c \notin {" ", "\n", "\r", "\t", "\""})
clonestr(s) == IF s = <<>> THEN <<NullStr>> ELSE s

(* The loop that looks for '=' ends at once, so it has to come first. No   *)
(* text is left empty; <<>> is the null pointer.                           *)
parse_conf_line(rest) ==
  IF rest = <<>> THEN <<>>
  ELSE clonestr(stripstr(IF Head(rest) = "=" THEN Tail(rest) ELSE rest))

Field(lines, field) ==
  FoldLeft(LAMBDA s, line : IF line.field = field THEN parse_conf_line(line.rest) ELSE s,
           <<>>, lines)

extract_userpass(lines) ==
  LET rpcuser == Field(lines, "rpcuser")
      rpcpassword == Field(lines, "rpcpassword")
  IN  IF rpcuser = <<>> \/ rpcpassword = <<>> THEN <<>>
      ELSE rpcuser \o <<":">> \o rpcpassword

-----------------------------------------------------------------------------
(* bitcoind_RPC *)

(* A call starts afresh; what a thread did before is forgotten but for     *)
(* their number.                                                           *)
Call(p, to, userpass) ==
  calls' = [calls EXCEPT ![p] = [NoCall EXCEPT !.at = "start", !.to = to,
              !.userpass = userpass, !.retries = NumRetries, !.done = calls[p].done]]

At(p, label) == calls[p].at = label

(* Counts no further than a call may go. *)
Counted(n) == IF n <= NumRetries + 1 THEN n + 1 ELSE n

Start(p) ==
  /\ At(p, "start")
  /\ calls' = [calls EXCEPT ![p].at = IF curl.didinit THEN "connect" ELSE "init"]
  /\ UNCHANGED <<setting, startup, coins, curl>>

GlobalInit(p) ==
  /\ At(p, "init")
  /\ curl' = [didinit |-> TRUE, inits |-> curl.inits + 1]
  /\ calls' = [calls EXCEPT ![p].at = "connect"]
  /\ UNCHANGED <<setting, startup, coins>>

(* The other side gets the request, performs it and answers.               *)
Perform(p) ==
  /\ At(p, "connect")
  /\ \E answer \in setting.answers :
       calls' = [calls EXCEPT ![p].at = "answer", ![p].answer = answer,
                              ![p].performed = Counted(@)]
  /\ UNCHANGED <<setting, startup, coins, curl>>

(* WriteMemoryCallback: a piece of the answer, named by its number and     *)
(* that of the request.                                                    *)
WriteMemoryCallback(p) ==
  /\ At(p, "answer") /\ Len(calls[p].memory) < Pieces
  /\ calls' = [calls EXCEPT ![p].memory = Append(@, <<calls[p].performed, Len(@) + 1>>)]
  /\ UNCHANGED <<setting, startup, coins, curl>>

Answered(p) ==
  /\ At(p, "answer") /\ Len(calls[p].memory) = Pieces
  /\ calls' = [calls EXCEPT ![p].at = "return"]
  /\ UNCHANGED <<setting, startup, coins, curl>>

(* Slip: a retry goes on with the memory of the failed one. *)
Slip_Memory(s) == s

(* A retry starts with fresh memory.                                       *)
Memory(s) == <<>>

(* Slip: the retries left are not counted. *)
Slip_Left(n) == n

Left(n) == n - 1

(* curl_easy_perform fails: before the request, before the answer or in    *)
(* the middle of it.  It is made again while retries are left.             *)
Fails(p) ==
  /\ At(p, "connect") \/ At(p, "answer")
  /\ setting.breaks
  /\ calls' = [calls EXCEPT ![p] =
       IF @.retries > 0
       THEN [@ EXCEPT !.at = "connect", !.retries = Left(@), !.memory = Memory(@),
                      !.failed = Counted(@)]
       ELSE [@ EXCEPT !.at = "return", !.failed = Counted(@)]]
  /\ UNCHANGED <<setting, startup, coins, curl>>

Whole(c) == c.memory = [i \in 1..Pieces |-> <<c.performed, i>>]
Garbage == [from |-> 0, text |-> "garbage"]

(* post_process_bitcoind_RPC: nothing unless the answer parses, has no     *)
(* error and a result.  Part of an answer does not parse.  With no command *)
(* the text is handed on; where nothing came it is one byte of memory that *)
(* was never written.                                                      *)
PostProcessed(c) ==
  IF c.to = NXTAPI
  THEN IF c.memory = <<>> THEN Garbage
       ELSE [from |-> c.performed, text |-> IF Whole(c) THEN c.answer ELSE "part"]
  ELSE IF Whole(c) /\ c.answer = "result" THEN [from |-> c.performed, text |-> "result"]
       ELSE Nothing

Return(p) ==
  /\ At(p, "return")
  /\ calls' = [calls EXCEPT ![p].at = "idle", ![p].ret = PostProcessed(calls[p]),
                            ![p].done = @ + 1]
  /\ UNCHANGED <<setting, startup, coins, curl>>

Request(p) ==
  \/ Start(p) \/ GlobalInit(p) \/ Perform(p) \/ WriteMemoryCallback(p) \/ Answered(p)
  \/ Fails(p) \/ Return(p)

-----------------------------------------------------------------------------
(* The main thread *)

Idle(p) == At(p, "idle")

(* init_NXTAPI and issue_getAccountInfo come before everything else.       *)
AskNXT ==
  /\ startup.at = "NXT" /\ Idle(Main)
  /\ Call(Main, NXTAPI, <<>>)
  /\ startup' = [startup EXCEPT !.at = "conf"]
  /\ UNCHANGED <<setting, coins, curl>>

(* create_daemon_info and init_coin_tables: with a configuration, be it    *)
(* empty, there is a daemon, as clonestr makes a text of no credentials.   *)
(* Its height is asked for next.                                           *)
CreateDaemonInfo ==
  LET c == Coins[startup.coin] IN
  /\ startup.at = "conf" /\ Idle(Main) /\ startup.coin <= Len(Coins)
  /\ startup' = [startup EXCEPT !.coin = @ + 1]
  /\ IF c \in DOMAIN setting.conf
     THEN LET userpass == clonestr(extract_userpass(setting.conf[c])) IN
          /\ coins' = [coins EXCEPT ![c] = [lp |-> TRUE, cp |-> TRUE, userpass |-> userpass,
                                            handlers |-> userpass # <<>>]]
          /\ Call(Main, c, userpass)
     ELSE coins' = [coins EXCEPT ![c].lp = TRUE] /\ UNCHANGED calls
  /\ UNCHANGED <<setting, curl>>

StartThreads ==
  /\ startup.at = "conf" /\ Idle(Main) /\ startup.coin > Len(Coins)
  /\ startup' = [startup EXCEPT !.at = "started"]
  /\ UNCHANGED <<setting, coins, curl, calls>>

(* A thread asks the NXT server, or a daemon through its handlers.         *)
ThreadCalls(p) ==
  /\ startup.at = "started" /\ Idle(p) /\ calls[p].done < MaxCalls
  /\ \/ Call(p, NXTAPI, <<>>)
     \/ \E c \in ToSet(Coins) :
          coins[c].cp /\ coins[c].handlers /\ Call(p, c, coins[c].userpass)
  /\ UNCHANGED <<setting, startup, coins, curl>>

Startup == AskNXT \/ CreateDaemonInfo \/ StartThreads

Next ==
  \/ Startup
  \/ \E p \in Callers : Request(p)
  \/ \E p \in Threads : ThreadCalls(p)

Spec == Init /\ [][Next]_vars

(* A connection that stands is answered or breaks: the code sets a limit   *)
(* for connecting and none for the answer.                                 *)
FairSpec == Spec /\ WF_vars(Startup) /\ \A p \in Callers : WF_vars(Request(p))

-----------------------------------------------------------------------------
TypeOK ==
  /\ setting \in Settings /\ startup.coin \in 1..(Len(Coins) + 1)
  /\ startup.at \in {"NXT", "conf", "started"}
  /\ \A p \in Callers :
       /\ calls[p].at \in {"idle", "start", "init", "connect", "answer", "return"}
       /\ calls[p].retries \in 0..NumRetries

Plain(lines, field) ==
  \E i \in DOMAIN lines : /\ lines[i].field = field
                          /\ \E v \in {"bob", "pw"} : lines[i].rest = <<"=", v, "\n">>
                          /\ \A j \in DOMAIN lines : lines[j].field = field => j = i
Value(lines, field) == LET i == CHOOSE j \in DOMAIN lines : lines[j].field = field
                       IN  lines[i].rest[2]

(* What a call returns is what its own last request was answered          *)
(* (bitcoind_RPC.c:25-61, 97-201): of a daemon the result or nothing; of   *)
(* the NXT server the whole answer, and part of one or less only when the  *)
(* last retry failed too.  A request is performed again only after a       *)
(* failure, so at most NumRetries + 1 times.                               *)
AnswersTrue ==
  /\ TypeOK
  /\ \A p \in Callers : LET c == calls[p] IN
       /\ c.performed <= c.failed + 1 /\ c.performed <= NumRetries + 1
       /\ At(p, "idle") /\ c.done > 0 =>
            \/ c.to # NXTAPI /\ c.ret = Nothing
            \/ /\ c.ret = [from |-> c.performed, text |-> c.answer]
               /\ c.to # NXTAPI => c.answer = "result"
            \/ c.to = NXTAPI /\ c.failed = NumRetries + 1
  /\ curl.inits <= 1 /\ (startup.at = "started" => curl.didinit)
  /\ \A p \in Callers : LET c == calls[p] IN
       c.to # NXTAPI =>
         /\ coins[c.to].lp /\ coins[c.to].handlers
         /\ LET lines == setting.conf[c.to] IN
              Plain(lines, "rpcuser") /\ Plain(lines, "rpcpassword") =>
                c.userpass = <<Value(lines, "rpcuser"), ":", Value(lines, "rpcpassword")>>

(* Every call returns, however often connections break (bitcoind_RPC.c:    *)
(* 165-179), and so the program gets past its start.                       *)
EveryCallReturns ==
  /\ <>(startup.at = "started")
  /\ \A p \in Callers : ~At(p, "idle") ~> At(p, "idle")

(* Does not hold: what is asked for is done once.                          *)
PerformedOnce == \A p \in Callers : calls[p].performed <= 1
=============================================================================
