------------------------------- MODULE MTHash -------------------------------
(***************************************************************************)
(* The hash tables shared by all threads (utils/jl777hash.h).              *)
(*                                                                         *)
(* While Historical_done is 0, MTadd_hashtable and MTsearch_hashtable put  *)
(* a packet into one of two queues and spin until process_hashtablequeues  *)
(* has answered it; hashprocessing is meant to let one caller in at a time *)
(* (the mutex around it is commented out).  Once Historical_done is 1      *)
(* every caller works on the table itself.                                 *)
(*                                                                         *)
(* A packet is allocated per call and freed by its caller, so a caller's   *)
(* name stands for its packet.  A resize publishes a new table and frees   *)
(* the old one: tables are numbered and only the last one is alive.        *)
(***************************************************************************)
EXTENDS Queue, Table, FiniteSets, Sequences

CONSTANTS
  Clients,           (* the calling threads *)
  Server,            (* the process_hashtablequeues thread *)
  StartSize,         (* HASHTABLES_STARTSIZE *)
  Loads              (* what may be asked of the tables, see variable load *)

ASSUME MTAssumption ==
  /\ NULL \notin Clients /\ Server \notin Clients
  /\ StartSize \in Nat /\ StartSize >= 3   (* with 2 slots the load test is late *)
  /\ \A l \in Loads : l.calls \in [Clients -> Nat] /\ l.ends \in BOOLEAN

Workers == Clients \cup {Server}

VARIABLES
  load,              (* bound: calls each client may begin, and whether   *)
                     (* NXTloop may finish its history scan               *)
  tables,            (* every table allocated so far; the last is current *)
  queues,            (* Global_mp->hashtable_queue[0..1] *)
  hashprocessing,    (* Global_mp->hashprocessing *)
  history,           (* the end of NXTloop's history scan; "done" is       *)
                     (* Historical_done = 1                                *)
  iter,              (* the queue the server is draining *)
  serving,           (* the packet the server holds, or NULL *)
  pc,                (* where each worker stands *)
  call,              (* what each client asked for *)
  work,              (* the table operation a worker is in the middle of *)
  packet,            (* doneflag, result, hashval, createdflag *)
  calls,             (* calls begun by each client *)
  creations          (* history: calls told "created", for each key *)

queued == <<queues, hashprocessing, iter, serving>>
vars == <<load, tables, queued, history, pc, call, work, packet, calls, creations>>

Table == tables[Len(tables)]
Freed(gen) == gen < Len(tables)

NoCall == [func |-> "-", key |-> EMPTY, present |-> FALSE]
NoWork == [gen |-> 0, at |-> ERROR, copy |-> NewTable(1)]
NoAnswer == [done |-> FALSE, entry |-> EMPTY, at |-> ERROR]

Init ==
  /\ load \in Loads
  /\ tables = <<NewTable(StartSize)>>
  /\ queues = [i \in 0..1 |-> EmptyQueue]
  /\ hashprocessing = 0
  /\ history = "scan"
  /\ iter = 0
  /\ serving = NULL
  /\ pc = [w \in Workers |-> IF w = Server THEN "poll" ELSE "idle"]
  /\ call = [c \in Clients |-> NoCall]
  /\ work = [w \in Workers |-> NoWork]
  /\ packet = [c \in Clients |-> NoAnswer]
  /\ calls = [c \in Clients |-> 0]
  /\ creations = [k \in Keys |-> 0]

Goto(w, label) == pc' = [pc EXCEPT ![w] = label]
Step(w, from, to) == pc[w] = from /\ Goto(w, to)

-----------------------------------------------------------------------------
(***************************************************************************)
(* The caller's side of MTadd_hashtable ("A") and MTsearch_hashtable ("S").*)
(***************************************************************************)

(* The call begins; Historical_done is read once, here. *)
Begin(c, f, k) ==
  /\ calls[c] < load.calls[c]
  /\ Step(c, "idle", IF history = "done" THEN "fetch" ELSE "test")
  /\ calls' = [calls EXCEPT ![c] = @ + 1]
  /\ call' = [call EXCEPT ![c] =
                [func |-> f, key |-> k, present |-> k \in Stored(Table)]]
  /\ packet' = [packet EXCEPT ![c] = NoAnswer]
  /\ UNCHANGED <<load, tables, queued, history, work, creations>>

(* while ( hashprocessing != 0 ) usleep(100); *)
Test(c) ==
  /\ hashprocessing = 0
  /\ Step(c, "test", "claim")
  /\ UNCHANGED <<load, tables, queued, history, call, work, packet, calls, creations>>

(* hashprocessing = 1; nothing holds this step and the test together. *)
Claim(c) ==
  /\ Step(c, "claim", "put")
  /\ hashprocessing' = 1
  /\ UNCHANGED <<load, tables, queues, iter, serving, history, call, work, packet,
                 calls, creations>>

QueueOf(f) == IF f = "A" THEN 1 ELSE 0

Put(c) ==
  /\ Step(c, "put", "spin")
  /\ queues' = [queues EXCEPT ![QueueOf(call[c].func)] = Enqueued(@, c)]
  /\ UNCHANGED <<load, tables, hashprocessing, iter, serving, history, call, work,
                 packet, calls, creations>>

(* doneflag is set: the result is read and the packet freed. *)
Collect(c) ==
  /\ packet[c].done
  /\ Step(c, "spin", "release")
  /\ UNCHANGED <<load, tables, queued, history, call, work, packet, calls, creations>>

(* Slip: hashprocessing is not reset. *)
Slip_Release(c) ==
  /\ Step(c, "release", "returned")
  /\ UNCHANGED <<load, tables, queued, history, call, work, packet, calls, creations>>

(* hashprocessing = 0 and the call returns. *)
Release(c) ==
  /\ Step(c, "release", "returned")
  /\ hashprocessing' = 0
  /\ UNCHANGED <<load, tables, queues, iter, serving, history, call, work, packet,
                 calls, creations>>

(* The caller of a search follows the index it was given into the table    *)
(* that is current now, as get_listingid does.                             *)
Use(c) ==
  /\ Step(c, "returned", "idle")
  /\ packet' = IF call[c].func = "S" /\ packet[c].at # ERROR
                 THEN [packet EXCEPT ![c].entry = Table.slots[packet[c].at]]
                 ELSE packet
  /\ UNCHANGED <<load, tables, queued, history, call, work, calls, creations>>

-----------------------------------------------------------------------------
(***************************************************************************)
(* The steps of add_hashtable and search_hashtable, taken by the server    *)
(* for a packet or, once the history is done, by the caller itself.        *)
(***************************************************************************)
Request(w) == IF w = Server THEN call[serving] ELSE call[w]
Client(w) == IF w = Server THEN serving ELSE w

(* *hp_ptr is read; when the table is two thirds full its entries are read *)
(* for the copy.                                                           *)
Fetch(w) ==
  LET grow == Request(w).func = "A" /\ NeedsResize(Table) IN
  /\ Step(w, "fetch", IF grow THEN "publish" ELSE "search")
  /\ work' = [work EXCEPT ![w] =
                [gen  |-> Len(tables), at |-> ERROR,
                 copy |-> IF grow THEN Table ELSE NewTable(1)]]
  /\ UNCHANGED <<load, tables, queued, history, call, packet, calls, creations>>

(* The enlarged table replaces the old one, which is freed. *)
Publish(w) ==
  /\ Step(w, "publish", IF Freed(work[w].gen) THEN "crashed" ELSE "search")
  /\ tables' = IF Freed(work[w].gen) THEN tables
               ELSE Append(tables, MadeRoom(work[w].copy))
  /\ work' = [work EXCEPT ![w] =
                [gen |-> Len(tables) + 1, at |-> ERROR, copy |-> NewTable(1)]]
  /\ UNCHANGED <<load, queued, history, call, packet, calls, creations>>

(* The answer reaches the caller: doneflag for a packet, a return value    *)
(* for a direct call.                                                      *)
Answer(w, entry, at) ==
  /\ packet' = [packet EXCEPT ![Client(w)] =
                  [done |-> TRUE, entry |-> entry, at |-> at]]
  /\ serving' = IF w = Server THEN NULL ELSE serving
  /\ Goto(w, IF w = Server THEN "poll" ELSE "returned")

(* Slip: an add inserts although the key is already there. *)
Slip_LookUp(w) ==
  LET t  == tables[work[w].gen]
      at == Search(t, Request(w).key)
  IN
  /\ pc[w] = "search"
  /\ work' = [work EXCEPT ![w].at = at]
  /\ IF Request(w).func = "A"
       THEN Goto(w, "insert") /\ UNCHANGED <<packet, serving>>
       ELSE Answer(w, t.slots[at], at)
  /\ UNCHANGED <<load, tables, queues, hashprocessing, iter, history, call, calls,
                 creations>>

(* search_hashtable on the table fetched; a free slot found for an add is  *)
(* filled in a later step.                                                 *)
LookUp(w) ==
  LET t  == tables[work[w].gen]
      k  == Request(w).key
      at == Search(t, k)
      vacant == at # ERROR /\ t.slots[at] = EMPTY
  IN
  /\ pc[w] = "search"
  /\ work' = [work EXCEPT ![w].at = at]
  /\ \/ /\ Freed(work[w].gen)
        /\ Goto(w, "crashed")
        /\ UNCHANGED <<packet, serving>>
     \/ /\ ~Freed(work[w].gen)
        /\ vacant /\ Request(w).func = "A"
        /\ Goto(w, "insert")
        /\ UNCHANGED <<packet, serving>>
     \/ /\ ~Freed(work[w].gen)
        /\ ~(vacant /\ Request(w).func = "A")
        /\ Answer(w, IF vacant \/ at = ERROR THEN EMPTY ELSE t.slots[at], at)
  /\ UNCHANGED <<load, tables, queues, hashprocessing, iter, history, call, calls,
                 creations>>

(* Slip: the entry is stored but not counted. *)
Slip_Insert(w) ==
  /\ pc[w] = "insert"
  /\ tables' = [tables EXCEPT ![Len(tables)].slots[work[w].at] = Request(w).key]
  /\ creations' = [creations EXCEPT ![Request(w).key] = @ + 1]
  /\ Answer(w, Request(w).key, work[w].at)
  /\ UNCHANGED <<load, queues, hashprocessing, iter, history, call, work, calls>>

(* The new entry is hung into its slot and *createdflagp set. *)
Insert(w) ==
  /\ pc[w] = "insert"
  /\ IF Freed(work[w].gen)
       THEN Goto(w, "crashed") /\ UNCHANGED <<tables, packet, serving, creations>>
       ELSE /\ tables' = [tables EXCEPT ![Len(tables)] =
                            Store(@, work[w].at, Request(w).key)]
            /\ creations' = [creations EXCEPT ![Request(w).key] = @ + 1]
            /\ Answer(w, Request(w).key, work[w].at)
  /\ UNCHANGED <<load, queues, hashprocessing, iter, history, call, work, calls>>

-----------------------------------------------------------------------------
(* process_hashtablequeues: take from the queue being drained, or go on to *)
(* the other one when queue_dequeue returns NULL.                          *)
Poll ==
  /\ pc[Server] = "poll"
  /\ queues' = [queues EXCEPT ![iter] = Dequeued(@)]
  /\ serving' = Front(queues[iter])
  /\ iter' = IF Front(queues[iter]) = NULL THEN 1 - iter ELSE iter
  /\ pc' = IF Front(queues[iter]) = NULL THEN pc
           ELSE [pc EXCEPT ![Server] = "fetch"]
  /\ UNCHANGED <<load, tables, hashprocessing, history, call, work, packet, calls,
                 creations>>

(* The end of NXTloop in history mode: it waits for queue 0, then for      *)
(* queue 1 to be empty, then sets Historical_done.                         *)
Drain ==
  /\ load.ends
  /\ \/ history = "scan" /\ history' = "drain0"
     \/ history = "drain0" /\ queues[0].size = 0 /\ history' = "drain1"
     \/ history = "drain1" /\ queues[1].size = 0 /\ history' = "done"
  /\ UNCHANGED <<load, tables, queued, pc, call, work, packet, calls, creations>>

Operate(w) == Fetch(w) \/ Publish(w) \/ LookUp(w) \/ Insert(w)

Continue(c) ==
  Test(c) \/ Claim(c) \/ Put(c) \/ Collect(c) \/ Release(c) \/ Use(c) \/ Operate(c)

Next ==
  \/ Poll
  \/ Operate(Server)
  \/ Drain
  \/ \E c \in Clients : Continue(c)
  \/ \E c \in Clients, f \in {"A", "S"}, k \in Keys : Begin(c, f, k)

Spec == Init /\ [][Next]_vars

(* Threads run: the server loops for ever and a caller inside a call goes  *)
(* on, its sleep loops end when what they wait for lasts.                  *)
FairSpec ==
  /\ Spec
  /\ WF_vars(Poll \/ Operate(Server))
  /\ \A c \in Clients : WF_vars(Continue(c))

-----------------------------------------------------------------------------
TypeOK ==
  /\ \A i \in 0..1 : IsQueue(queues[i], Clients)
  /\ hashprocessing \in 0..1
  /\ iter \in 0..1
  /\ serving \in Clients \cup {NULL}
  /\ \A c \in Clients : packet[c].entry \in Keys \cup {EMPTY}
  /\ \A k \in Keys : creations[k] \in Nat

(* Whoever performs them, the calls leave a table in which every entry is  *)
(* found again and no free slot is missing: the server's multi-step add is *)
(* never interrupted by another add.                                       *)
TableIntact ==
  /\ \A k \in Stored(Table) : FoundIn(Table, k)
  /\ Table.numitems = Cardinality(Stored(Table))
  /\ Table.numitems < Table.hashsize
  /\ \A w \in Workers : pc[w] # "crashed"

(* The calls leave tables and queues sound.                                *)
TablesSound == TypeOK /\ TableIntact

(* "created" is reported to exactly one of the calls that add a key, as    *)
(* add_NXT_acct, add_NXT_assettxid and the guid test against double        *)
(* processing assume.                                                      *)
CreatedOnce ==
  \A k \in Keys : creations[k] = IF k \in Stored(Table) THEN 1 ELSE 0

(* A caller that is told its call is done has the answer to its own        *)
(* question: the entry of the key it added, the key it searched or none.   *)
OwnAnswer ==
  \A c \in Clients :
    packet[c].done /\ packet[c].entry # EMPTY /\ pc[c] \in {"release", "returned"}
      => packet[c].entry = call[c].key

(* A caller never waits for a packet nobody will answer: it is in its      *)
(* queue or in the server's hands.                                         *)
NoPacketLost ==
  \A c \in Clients :
    pc[c] = "spin" /\ ~packet[c].done
      => \/ serving = c
         \/ \E i \in 0..1 : \E j \in 1..queues[i].size : Window(queues[i])[j] = c

(* Only one thread makes calls: what hashprocessing is meant to achieve. *)
Alone == \A c, e \in Clients : load.calls[c] > 0 /\ load.calls[e] > 0 => c = e

(* For a thread that is alone, following the index a search returned leads *)
(* to the entry of the key, when the key was in the table as the call      *)
(* began, through every growth before, across and after the end of the     *)
(* history.                                                                *)
IndexLeadsToEntry ==
  \A c \in Clients :
    Alone /\ pc[c] = "idle" /\ call[c].func = "S" /\ call[c].present
      => packet[c].entry = call[c].key

(* A call's answer is about its key: the entry itself and, for a thread    *)
(* alone, the index it is given.                                           *)
AnswersRight == OwnAnswer /\ IndexLeadsToEntry

(* Every call of a thread that is alone returns, whether the server or the *)
(* loop at the end of the history takes its packet.                        *)
EveryCallReturns ==
  \A c \in Clients :
    Alone /\ pc[c] \in {"test", "fetch"} ~> pc[c] = "idle"
=============================================================================
