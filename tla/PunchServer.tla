---------------------------- MODULE PunchServer ----------------------------
(***************************************************************************)
(* The rendezvous server (NXTsync/punch.c, NXTsync/NXTmembers.h): one      *)
(* thread selects the readable sockets and handles them one by one, in the *)
(* order of their numbers.  Clients introduce themselves to a group, are   *)
(* told who joins and leaves it, and have their hole-punch requests, which *)
(* come in by UDP, forwarded to each other.                                *)
(*                                                                         *)
(* An account name and address (user, NXTaddr) belong to a program; the    *)
(* group every program joins is one and the same.  Structures are told     *)
(* apart by their place in a heap: a group that is deleted stays in groups *)
(* as freed memory, so that a pointer to it can be seen.                   *)
(***************************************************************************)
EXTENDS Integers, Sequences, FiniteSets, SequencesExt

CONSTANTS
  Programs,          (* the programs that connect: a name and an NXTaddr each *)
  NONE,              (* the empty string, a null pointer, no message *)
  Socks,             (* file descriptors of accepted connections *)
  Settings           (* the circumstances to look at, see the variable *)

ASSUME PunchServerAssumption ==
  /\ Socks \subseteq Nat \ {0} /\ IsFiniteSet(Socks)
  /\ \A c \in Settings :
       /\ \A p \in Programs : c.nameOf[p] # NONE
       /\ {c.permanent, c.peersReset, c.badTokens} \subseteq BOOLEAN
       /\ c.maxEchoes \in Nat

VARIABLES
  setting,           (* nameOf: the user name of each program; permanent:  *)
                     (* whether the group has a file in group_dir;         *)
                     (* peersReset: whether sending its id to a peer that  *)
                     (* is gone may fail; badTokens: whether               *)
                     (* validate_token may refuse; maxEchoes, a bound:     *)
                     (* datagrams that reach the echo port; and what       *)
                     (* PunchClient adds                                   *)
  up,                (* "serving", "ended" (serve failed) or "aborted" *)
  ready,             (* the descriptors select reported, not handled yet *)
  clients,           (* client_list, newest first *)
  groups,            (* every group allocated; deleted ones are not alive *)
  count,             (* connection ids given so far *)
  conns,             (* the TCP connection behind each descriptor *)
  backlog,           (* connections waiting for accept *)
  datagrams,         (* punch requests on their way to the UDP port *)
  echoes             (* datagrams at the echo port, and how many came *)

NameOf == setting.nameOf
Permanent == setting.permanent
PeersReset == setting.peersReset
BadTokens == setting.badTokens
MaxEchoes == setting.maxEchoes

server == <<setting, up, ready, clients, groups, count>>
network == <<conns, backlog, datagrams, echoes>>

(* The server's own descriptors, opened in this order by run_server, lower *)
(* than any that is accepted.                                              *)
Udp == -3
Echo == -2
Tcp == -1

Closed == [open |-> FALSE, prog |-> NONE, try |-> 0, gone |-> FALSE,
           in |-> <<>>, out |-> <<>>]
Group(n) == [n |-> n, alive |-> TRUE]

(* group_add_perm counts a member that is never there. *)
FirstGroups == IF Permanent THEN <<Group(1)>> ELSE <<>>

ServerInit ==
  /\ setting \in Settings
  /\ up = "serving" /\ ready = {} /\ clients = <<>> /\ count = 0
  /\ groups = FirstGroups
  /\ conns = [s \in Socks |-> Closed]
  /\ backlog = {} /\ datagrams = {}
  /\ echoes = [waiting |-> 0, come |-> 0]

-----------------------------------------------------------------------------
(* The listed client that comes first and has the property. *)
FirstSuch(Has(_)) ==
  LET at == {i \in DOMAIN clients : Has(clients[i])}
  IN  IF at = {} THEN NONE
      ELSE clients[CHOOSE i \in at : \A j \in at : i <= j]

BySocket(s) == FirstSuch(LAMBDA c : c.sock = s)
ById(id) == FirstSuch(LAMBDA c : c.id = id)
ByName(name, g) == FirstSuch(LAMBDA c : c.user = name /\ c.group = g)

(* group_find: 0 when there is no group. *)
FoundGroup ==
  LET live == {g \in DOMAIN groups : groups[g].alive}
  IN  IF live = {} THEN 0 ELSE CHOOSE g \in live : TRUE

InGroup(g) == {c \in Range(clients) : c.group = g}
Users(g) == {c.user : c \in InGroup(g)} \ {NONE}

Message(kind, name) == [kind |-> kind, names |-> {name}]
Said(cs, s, m) == IF cs[s].open THEN [cs EXCEPT ![s].out = Append(@, m)] ELSE cs

(* notify_group_members: everyone whose group pointer equals the client's, *)
(* which for a client without a group are the others without one.          *)
Recipients(pc, all) == {c \in InGroup(pc.group) : all \/ c # pc}
Told(cs, pc, kind, all) ==
  LET to == {c.sock : c \in Recipients(pc, all)}
  IN  [s \in Socks |-> IF s \in to THEN Said(cs, s, Message(kind, pc.user))[s]
                       ELSE cs[s]]

-----------------------------------------------------------------------------
(* Slip: select passes over a descriptor that is closed. *)
Slip_Select ==
  LET readable ==
        (IF datagrams = {} THEN {} ELSE {Udp})
          \cup (IF backlog = {} THEN {} ELSE {Tcp})
          \cup {s \in Socks : conns[s].open /\ (conns[s].gone \/ conns[s].in # <<>>)}
  IN
  /\ up = "serving" /\ ready = {} /\ readable # {}
  /\ ready' = readable
  /\ UNCHANGED <<setting, up, clients, groups, count, network>>

(* select: a descriptor of the list that is closed makes it fail, and      *)
(* serve and run_server return.                                            *)
Select ==
  LET dead == \E c \in Range(clients) : ~conns[c.sock].open
      readable ==
        (IF datagrams = {} THEN {} ELSE {Udp})
          \cup (IF echoes.waiting = 0 THEN {} ELSE {Echo})
          \cup (IF backlog = {} THEN {} ELSE {Tcp})
          \cup {s \in Socks : conns[s].open /\ (conns[s].gone \/ conns[s].in # <<>>)}
  IN
  /\ up = "serving" /\ ready = {}
  /\ dead \/ readable # {}
  /\ up' = IF dead THEN "ended" ELSE up
  /\ ready' = IF dead THEN {} ELSE readable
  /\ UNCHANGED <<setting, clients, groups, count, network>>

(* The lowest descriptor is handled first. *)
Handling(fd) ==
  /\ up = "serving" /\ fd \in ready /\ \A other \in ready : fd <= other
  /\ ready' = ready \ {fd}

(* receive_tcp_connection; when the id cannot be sent the descriptor is    *)
(* closed but the client stays in the list.                                *)
Accept ==
  /\ Handling(Tcp)
  /\ \E b \in backlog : \E s \in Socks :
       /\ ~conns[s].open /\ \A r \in Socks : r < s => conns[r].open
       /\ backlog' = backlog \ {b}
       /\ count' = count + 1
       /\ clients' = <<[sock |-> s, id |-> count + 1, user |-> NONE,
                        prog |-> b.prog, group |-> 0]>> \o clients
       /\ LET conn == [open |-> TRUE, prog |-> b.prog, try |-> b.try,
                       gone |-> b.gone, in |-> <<>>,
                       out |-> <<[kind |-> "id", names |-> {count + 1}]>>]
          IN  \/ conns' = [conns EXCEPT ![s] = conn]
              \/ PeersReset /\ b.gone /\ UNCHANGED conns
  /\ UNCHANGED <<setting, up, groups, datagrams, echoes>>

(* receive_udp_punch and servpunch: the request is forwarded to the client *)
(* that has the name, with the name of the client that has the id and of   *)
(* its group (whatever freed memory holds).                                *)
Forward ==
  /\ Handling(Udp)
  /\ \E d \in datagrams :
       LET pc == ById(d.id)
           target == ByName(d.to, FoundGroup)
       IN  /\ datagrams' = datagrams \ {d}
           /\ IF pc # NONE /\ FoundGroup # 0 /\ pc.group # 0 /\ target # NONE
                THEN \E kind \in {d.tag} \cup
                          (IF groups[pc.group].alive THEN {} ELSE {"no"}) :
                       conns' = Said(conns, target.sock, Message(kind, pc.user))
                ELSE UNCHANGED conns
  /\ UNCHANGED <<setting, up, clients, groups, count, backlog, echoes>>

-----------------------------------------------------------------------------
(* Slip: the last but one to leave frees the group. *)
Slip_GroupLeft(g) ==
  IF g = 0 THEN UNCHANGED <<groups, up>>
  ELSE /\ groups' = [groups EXCEPT ![g] = [n |-> @.n - 1, alive |-> @.n > 2]]
       /\ UNCHANGED up

(* group_delete_member; what it finds in freed memory, and so whether the  *)
(* assertion of group_delete stops it, is anyone's guess.                  *)
GroupLeft(g) ==
  \/ g = 0 /\ UNCHANGED <<groups, up>>
  \/ /\ g # 0 /\ groups[g].alive
     /\ groups' = [groups EXCEPT ![g] = [n |-> @.n - 1, alive |-> @.n > 1]]
     /\ up' = IF groups[g].n < 1 THEN "aborted" ELSE up
  \/ /\ g # 0 /\ ~groups[g].alive
     /\ UNCHANGED groups /\ up' \in {up, "aborted"}

(* Slip: the others are not told. *)
Slip_CloseConnection(s) ==
  LET pc == BySocket(s) IN
  /\ conns' = [conns EXCEPT ![s] = Closed]
  /\ clients' = SelectSeq(clients, LAMBDA c : c # pc)
  /\ GroupLeft(pc.group)

(* servclose_connection and client_delete. *)
CloseConnection(s) ==
  LET pc == BySocket(s) IN
  /\ clients' = SelectSeq(clients, LAMBDA c : c # pc)
  /\ conns' = [Told(conns, pc, "-", FALSE) EXCEPT ![s] = Closed]
  /\ GroupLeft(pc.group)

(* read returned no data: the connection is closed. *)
HangUp(s) ==
  /\ Handling(s) /\ conns[s].in = <<>>
  /\ CloseConnection(s)
  /\ UNCHANGED <<setting, count, backlog, datagrams, echoes>>

(* The echo socket is selected too, but receive_tcp_traffic knows no       *)
(* client of it: servclose_connection asserts that there is one.           *)
EchoTraffic ==
  /\ Handling(Echo)
  /\ up' = IF BySocket(Echo) = NONE THEN "aborted" ELSE up
  /\ echoes' = [echoes EXCEPT !.waiting = 0]
  /\ UNCHANGED <<setting, clients, groups, count, conns, backlog, datagrams>>

Request(s, kind) == conns[s].in # <<>> /\ Head(conns[s].in) = kind
Taken(s) == [conns EXCEPT ![s].in = Tail(@)]

(* A new status is shown to the whole group. *)
NewStatus(s) ==
  LET pc == BySocket(s) IN
  /\ Handling(s) /\ Request(s, "=")
  /\ conns' = Told(Taken(s), pc, "+", TRUE)
  /\ UNCHANGED <<setting, up, clients, groups, count, backlog, datagrams, echoes>>

(* list: the buffer has room for n_members entries; an assertion stops the *)
(* server when it turns out too small.                                     *)
ListMembers(s) ==
  LET pc == BySocket(s) IN
  /\ Handling(s) /\ Request(s, "?")
  /\ conns' = Said(Taken(s), s,
                IF pc.group = 0 THEN Message("no", NONE)
                ELSE [kind |-> "list", names |-> Users(pc.group)])
  /\ up' \in {up} \cup
       (IF pc.group # 0 /\ (\/ ~groups[pc.group].alive
                           \/ Cardinality(InGroup(pc.group)) > groups[pc.group].n)
          THEN {"aborted"} ELSE {})
  /\ UNCHANGED <<setting, clients, groups, count, backlog, datagrams, echoes>>

(* group_join: whether the client may come in, and how many it counts as:  *)
(* none if a client of the same name and address is there already.         *)
Joined(g, pc) ==
  LET other == ByName(NameOf[pc.prog], g)
  IN  IF other = NONE THEN [ok |-> TRUE, n |-> 1]
      ELSE [ok |-> other.prog = pc.prog, n |-> 0]

(* notify_group_members for a client that has just joined. *)
Arrived(cs, g, user) ==
  LET to == {c.sock : c \in InGroup(g)}
  IN  [s \in Socks |-> IF s \in to THEN Said(cs, s, Message("+", user))[s] ELSE cs[s]]

(* intro: the group is created when it is missing, before the token and    *)
(* the name are looked at; the clients without a group are told of one     *)
(* that is refused.  Names are well formed, and no client introduces       *)
(* itself twice on a connection.                                           *)
Introduce(s) ==
  LET pc  == BySocket(s)
      gs  == IF FoundGroup = 0 THEN Append(groups, Group(0)) ELSE groups
      g   == IF FoundGroup = 0 THEN Len(gs) ELSE FoundGroup
      new == [pc EXCEPT !.user = NameOf[pc.prog], !.group = g]
      answer(m) == Said(Taken(s), s, Message(m, NONE))
  IN
  /\ Handling(s) /\ Request(s, "intro")
  /\ \/ /\ pc.user = NONE /\ Joined(g, pc).ok
        /\ clients' = ReplaceAll(clients, pc, new)
        /\ groups' = [gs EXCEPT ![g].n = @ + Joined(g, pc).n]
        /\ conns' = Arrived(answer("ok"), g, new.user)
     \/ /\ pc.user = NONE /\ (BadTokens \/ ~Joined(g, pc).ok)
        /\ groups' = gs
        /\ conns' = Told(answer("no"), pc, "+", FALSE)
        /\ UNCHANGED clients
  /\ UNCHANGED <<setting, up, count, backlog, datagrams, echoes>>

(* The parent process starts a new server; its sockets are new.  The ids,  *)
(* which hold the time of day, do not come again.                          *)
Restarted ==
  /\ up # "serving"
  /\ up' = "serving" /\ ready' = {} /\ clients' = <<>>
  /\ groups' = FirstGroups
  /\ conns' = [s \in Socks |-> Closed]
  /\ backlog' = {} /\ datagrams' = {}
  /\ echoes' = [echoes EXCEPT !.waiting = 0]
  /\ UNCHANGED <<setting, count>>

(* A pass of serve: one descriptor after the other. *)
Serve ==
  \/ Select \/ Accept \/ Forward \/ EchoTraffic
  \/ \E s \in Socks : HangUp(s) \/ NewStatus(s) \/ ListMembers(s) \/ Introduce(s)

EchoComes ==
  /\ echoes.come < MaxEchoes
  /\ echoes' = [waiting |-> 1, come |-> echoes.come + 1]
  /\ UNCHANGED <<server, conns, backlog, datagrams>>

-----------------------------------------------------------------------------
(* n_members counts the clients of the group (and one more if it is        *)
(* permanent): the group is freed when the last one leaves, not before,    *)
(* and the buffer list allocates from it holds every entry.                *)
MembersCounted ==
  \A g \in DOMAIN groups :
    groups[g].alive =>
      groups[g].n = Cardinality(InGroup(g)) + IF Permanent THEN 1 ELSE 0

(* A group is freed only when nobody is in it. *)
NoFreedGroup == \A c \in Range(clients) : c.group = 0 \/ groups[c.group].alive

(* No two clients of the list have a descriptor in common, so that what    *)
(* comes in on it is taken for the right one's: a descriptor that was      *)
(* closed while its client stayed in the list is not given out again.      *)
OneClientPerSocket ==
  \A i, j \in DOMAIN clients : clients[i].sock = clients[j].sock => i = j

(* And a name in the group stands for one account, as the requests         *)
(* forwarded by name need it.                                              *)
OneHolderPerName ==
  \A c, d \in Range(clients) :
    c.user = d.user /\ c.user # NONE /\ c.group = d.group => c.prog = d.prog

(* What a client sends or is sent is its own: by descriptor and by name    *)
(* (punch.c:300-339, NXTmembers.h:275-291).                                *)
ClientsDistinct == OneClientPerSocket /\ OneHolderPerName

(* The server loops indefinitely serving socket traffic. *)
ServesForEver == up = "serving"
=============================================================================
