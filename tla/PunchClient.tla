---------------------------- MODULE PunchClient ----------------------------
(***************************************************************************)
(* The programs that meet at the rendezvous server: NXTsync/punch-client.c *)
(* with the TCP layer of jl777.h under it.  The UV thread copies every     *)
(* chunk it receives into one shared buffer, TCP_bytes, and hands it to    *)
(* tcp_io as well once Enable_tcp_dispatch is set; the thread that makes   *)
(* contact polls the buffer, and tries again, on a new connection and with *)
(* the old one still open, when it does not find there what it expects.    *)
(***************************************************************************)
EXTENDS PunchServer

(* More of the setting: impatient, whether a program may try again while   *)
(* the server takes its earlier connection for a member; coalesce, whether *)
(* several messages may arrive in one chunk; bounds: maxStarts, the        *)
(* connections each program makes, and maxRequests, the requests it makes  *)
(* once connected.                                                         *)
ASSUME PunchClientAssumption ==
  \A c \in Settings :
    /\ {c.impatient, c.coalesce} \subseteq BOOLEAN
    /\ {c.maxStarts, c.maxRequests} \subseteq [Programs -> Nat]

Impatient == setting.impatient
Coalesce == setting.coalesce
MaxStarts == setting.maxStarts
MaxRequests == setting.maxRequests

VARIABLES
  prog,              (* the programs: where they are, and what they know *)
  chunk              (* TCP_bytes: the messages that came last, not read yet *)

vars == <<server, network, prog, chunk>>
sockets == <<backlog, echoes>>

Off == [phase |-> "off", id |-> 0, view |-> {}, listed |-> FALSE,
        starts |-> 0, requests |-> 0]

Init ==
  /\ ServerInit
  /\ prog = [p \in Programs |-> Off]
  /\ chunk = [p \in Programs |-> <<>>]

Phase(p, ph) == prog' = [prog EXCEPT ![p].phase = ph]

(* The program's present connection; 0 if the server has none. *)
Current(p) ==
  LET its == {s \in Socks : /\ conns[s].open /\ conns[s].prog = p
                            /\ conns[s].try = prog[p].starts}
  IN  IF its = {} THEN 0 ELSE CHOOSE s \in its : TRUE

Sent(cs, s, request) ==
  IF s = 0 THEN cs ELSE [cs EXCEPT ![s].in = Append(@, request)]

(* Some connection of the program is, or is about to be, a member's. *)
Lingers(p) ==
  \/ \E b \in backlog : b.prog = p
  \/ \E s \in Socks : /\ conns[s].open /\ conns[s].prog = p
                      /\ BySocket(s).group # 0 \/ conns[s].in # <<>>

-----------------------------------------------------------------------------
(* contact_punch_server, from the start: what TCP_bytes holds is kept. *)
Connect(p) ==
  /\ prog[p].phase = "off" /\ prog[p].starts < MaxStarts[p]
  /\ Impatient \/ ~Lingers(p)
  /\ prog' = [prog EXCEPT ![p] = [Off EXCEPT !.phase = "id", !.starts = prog[p].starts + 1,
                                            !.requests = prog[p].requests]]
  /\ backlog' = backlog \cup {[prog |-> p, try |-> prog[p].starts + 1, gone |-> FALSE]}
  /\ UNCHANGED <<server, conns, datagrams, echoes, chunk>>

(* The answer read is taken for the connection id. *)
ReadId(p) ==
  /\ prog[p].phase = "id" /\ chunk[p] # <<>>
  /\ chunk' = [chunk EXCEPT ![p] = <<>>]
  /\ LET m == Head(chunk[p])
     IN  IF m.kind = "id"
           THEN /\ prog' = [prog EXCEPT ![p].phase = "ok",
                                        ![p].id = CHOOSE n \in m.names : TRUE]
                /\ conns' = Sent(conns, Current(p), "intro")
           ELSE Phase(p, "off") /\ UNCHANGED conns
  /\ UNCHANGED <<server, sockets, datagrams>>

(* The answer read is taken for that to the introduction. *)
ReadOk(p) ==
  /\ prog[p].phase = "ok" /\ chunk[p] # <<>>
  /\ chunk' = [chunk EXCEPT ![p] = <<>>]
  /\ IF Head(chunk[p]).kind = "ok"
       THEN Phase(p, "enable") /\ conns' = Sent(conns, Current(p), "?")
       ELSE Phase(p, "off") /\ UNCHANGED conns
  /\ UNCHANGED <<server, sockets, datagrams>>

(* Enable_tcp_dispatch = 1; from here on nothing reads TCP_bytes. *)
Enable(p) ==
  /\ prog[p].phase = "enable"
  /\ Phase(p, "on") /\ chunk' = [chunk EXCEPT ![p] = <<>>]
  /\ UNCHANGED <<server, network>>

(* No answer within three seconds: another attempt half a minute later. *)
TimeOut(p) ==
  /\ prog[p].phase \in {"id", "ok"} /\ chunk[p] = <<>>
  /\ Impatient \/ (Current(p) = 0 /\ ~\E b \in backlog : b.prog = p)
  /\ Phase(p, "off")
  /\ UNCHANGED <<server, network, chunk>>

-----------------------------------------------------------------------------
(* Slip: whoever leaves stays in the list. *)
Slip_Applied(view, m) ==
  IF m.kind \in {"+", "-", "list"} THEN view \cup m.names ELSE view

(* member_add and member_del. *)
Applied(view, m) ==
  CASE m.kind \in {"+", "list"} -> view \cup m.names
    [] m.kind = "-" -> view \ m.names
    [] OTHER -> view

(* tcp_io, which stops at the first NUL: the first message of the chunk.   *)
(* A request from a member is confirmed; one of an unknown name may find   *)
(* its account by the address.                                             *)
TcpIo(p, m) ==
  /\ prog' = [prog EXCEPT ![p].view = Applied(@, m),
                          ![p].listed = @ \/ m.kind = "list"]
  /\ \/ m.kind # ">" /\ UNCHANGED datagrams
     \/ /\ m.kind = ">" /\ \E to \in m.names :
             datagrams' = datagrams \cup {[id |-> prog[p].id, to |-> to, tag |-> "<"]}
     \/ m.kind = ">" /\ ~(m.names \subseteq prog[p].view) /\ UNCHANGED datagrams

(* tcp_gotbytes: a chunk of the present connection comes in. *)
GotBytes(p) ==
  LET s == Current(p) IN
  /\ s # 0 /\ conns[s].out # <<>>
  /\ \E n \in 1..(IF Coalesce THEN Len(conns[s].out) ELSE 1) :
       LET got == SubSeq(conns[s].out, 1, n)
       IN  /\ conns' = [conns EXCEPT ![s].out = SubSeq(@, n + 1, Len(@))]
           /\ IF prog[p].phase = "on"
                THEN TcpIo(p, Head(got)) /\ UNCHANGED chunk
                ELSE /\ chunk' = [chunk EXCEPT ![p] = got]
                     /\ UNCHANGED <<prog, datagrams>>
  /\ UNCHANGED <<server, sockets>>

-----------------------------------------------------------------------------
Busy(p) == prog[p].phase = "on" /\ prog[p].requests < MaxRequests[p]
Requested(p) == prog' = [prog EXCEPT ![p].requests = @ + 1]

(* punch: a member's name is sent with the connection id by UDP. *)
Punch(p) ==
  /\ Busy(p) /\ Requested(p)
  /\ \E to \in prog[p].view \ {NameOf[p]} :
       datagrams' = datagrams \cup {[id |-> prog[p].id, to |-> to, tag |-> ">"]}
  /\ UNCHANGED <<server, sockets, conns, chunk>>

(* send_status. *)
SendStatus(p) ==
  /\ Busy(p) /\ Requested(p)
  /\ conns' = Sent(conns, Current(p), "=")
  /\ UNCHANGED <<server, sockets, datagrams, chunk>>

(* The program ends; its connections are closed. *)
Leave(p) ==
  /\ prog[p].phase # "off"
  /\ prog' = [prog EXCEPT ![p] = [Off EXCEPT !.starts = prog[p].starts,
                                            !.requests = prog[p].requests]]
  /\ chunk' = [chunk EXCEPT ![p] = <<>>]
  /\ conns' = [s \in Socks |-> IF conns[s].open /\ conns[s].prog = p
                                 THEN [conns[s] EXCEPT !.gone = TRUE, !.out = <<>>]
                                 ELSE conns[s]]
  /\ backlog' = {IF b.prog = p THEN [b EXCEPT !.gone = TRUE] ELSE b : b \in backlog}
  /\ UNCHANGED <<server, datagrams, echoes>>

LoseDatagram ==
  /\ \E d \in datagrams : datagrams' = datagrams \ {d}
  /\ UNCHANGED <<server, sockets, conns, prog, chunk>>

Contact(p) == Connect(p) \/ ReadId(p) \/ ReadOk(p) \/ Enable(p) \/ TimeOut(p)
ServerStep == (Serve \/ Restarted) /\ UNCHANGED <<prog, chunk>>

Next ==
  \/ ServerStep
  \/ EchoComes /\ UNCHANGED <<prog, chunk>>
  \/ \E p \in Programs : \/ Contact(p) \/ GotBytes(p)
                         \/ Punch(p) \/ SendStatus(p) \/ Leave(p)
  \/ LoseDatagram

Spec == Init /\ [][Next]_vars

(* The server is maintained, a program keeps trying to make contact, and   *)
(* what was sent by TCP arrives; nobody has to leave or to ask.            *)
FairSpec ==
  /\ Spec /\ WF_vars(ServerStep)
  /\ \A p \in Programs : WF_vars(Contact(p)) /\ WF_vars(GotBytes(p))

-----------------------------------------------------------------------------
Messages ==
  [kind : {"id"}, names : SUBSET (1..count)] \cup
  [kind : {"ok", "no", "+", "-", "list", ">", "<"},
   names : SUBSET ({NONE} \cup {NameOf[p] : p \in Programs})]

(* Every structure has its type; in particular a list is never asked for   *)
(* before an introduction, so no buffer is allocated without a group       *)
(* (contact_punch_server, receive_tcp_traffic).                            *)
TypeOK ==
  /\ up \in {"serving", "ended", "aborted"}
  /\ \A c \in Range(clients) :
       /\ c.sock \in Socks /\ c.id \in 1..count /\ c.group \in 0..Len(groups)
       /\ c.prog \in Programs /\ (c.user = NONE <=> c.group = 0)
  /\ \A g \in DOMAIN groups : groups[g].alive \in BOOLEAN /\ groups[g].n \in Int
  /\ \A s \in Socks : Range(conns[s].out) \subseteq Messages
  /\ \A p \in Programs :
       /\ prog[p].phase \in {"off", "id", "ok", "enable", "on"}
       /\ prog[p].view \subseteq {NameOf[q] : q \in Programs} \cup {NONE}
       /\ prog[p].id \in 0..count /\ Range(chunk[p]) \subseteq Messages

(* The circumstances the views rely on: every program has a name of its    *)
(* own and waits before it tries again, nothing is refused, the server     *)
(* does not fail, and a message is one read.                               *)
Orderly ==
  /\ ~Impatient /\ ~Coalesce /\ ~PeersReset /\ ~BadTokens /\ MaxEchoes = 0
  /\ \A p, q \in Programs : NameOf[p] = NameOf[q] => p = q

(* Where programs wait before they try again, the count of a group fits    *)
(* its members, and a group is freed only when nobody is in it.            *)
GroupsSound == TypeOK /\ (~Impatient => MembersCounted /\ NoFreedGroup)

Connected(p) == prog[p].phase = "on" /\ Current(p) # 0 /\ up = "serving"

(* What the program will know when it has handled the first n messages     *)
(* that are on their way to it.                                            *)
ViewAfter(p, n) ==
  FoldLeft(Applied, prog[p].view, SubSeq(conns[Current(p)].out, 1, n))

(* Of a program that has got, or will get, the list, what it knows with    *)
(* what is on its way is who is in the group: joining, leaving and listing *)
(* do not overtake each other (notify_group_members, list, tcp_io).        *)
NewsInOrder ==
  \A p \in Programs : Connected(p) =>
    LET out == conns[Current(p)].out
    IN  prog[p].listed \/ (\E i \in DOMAIN out : out[i].kind = "list") =>
          ViewAfter(p, Len(out)) = Users(FoundGroup)

(* A hole-punch request that is forwarded reaches a listed program between *)
(* the news that its sender joined and the news that it left, so that      *)
(* get_correspondent_address finds the member.                             *)
RequestsFromMembers ==
  \A p \in Programs : Connected(p) /\ prog[p].listed =>
    LET out == conns[Current(p)].out
    IN  \A i \in DOMAIN out :
          out[i].kind \in {">", "<"} => out[i].names \subseteq ViewAfter(p, i - 1)

(* In orderly circumstances both hold: a member's view follows the news,   *)
(* and requests fit in between.                                            *)
ViewsFollow == Orderly => NewsInOrder /\ RequestsFromMembers

(* In the end a program that has the list knows who is connected and       *)
(* nobody else: who left is forgotten, who came is known.                  *)
ViewsSettle ==
  <>[](\A p \in Programs : Orderly /\ prog[p].phase = "on" /\ prog[p].listed =>
         prog[p].view = Users(FoundGroup) /\
         \A q \in Programs : prog[q].phase = "on" => NameOf[q] \in prog[p].view)

(* A program that asked for the list, and stays, gets it (run_NXTsync). *)
EveryoneListed ==
  \A p \in Programs :
    prog[p].phase = "on" ~> prog[p].phase # "on" \/ prog[p].listed

(* A program takes itself for rejected only when the server has refused    *)
(* its introduction (contact_punch_server).                                *)
RejectionIsReal ==
  [][\A p \in Programs : ReadOk(p) =>
       prog'[p].phase = "enable" \/ Head(chunk[p]).kind = "no"]_vars

(* A program whose server closes the connection gives it up and makes      *)
(* contact again (tcp_io, run_NXTsync).                                    *)
LossNoticed ==
  \A p \in Programs :
    prog[p].phase = "on" /\ Current(p) = 0 ~> prog[p].phase # "on"
=============================================================================
