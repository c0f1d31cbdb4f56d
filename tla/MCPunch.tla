------------------------------ MODULE MCPunch ------------------------------
(* Small instances of the rendezvous server and its programs. *)
EXTENDS PunchClient, TLC

CONSTANTS p1, p2, alice, bob

TwoPrograms == {p1, p2}
TwoNames == p1 :> alice @@ p2 :> bob
OneName == p1 :> alice @@ p2 :> alice
Socks3 == {1, 2, 3}
Socks4 == {1, 2, 3, 4}

(* Two programs of names of their own, the first starting twice; nothing   *)
(* goes wrong and nobody asks.                                             *)
Plain ==
  [nameOf |-> TwoNames, permanent |-> FALSE, peersReset |-> FALSE,
   badTokens |-> FALSE, maxEchoes |-> 0, impatient |-> FALSE,
   coalesce |-> FALSE, maxStarts |-> p1 :> 2 @@ p2 :> 1,
   maxRequests |-> p1 :> 0 @@ p2 :> 0]

(* The first program asks; two programs of one name, of which one tries    *)
(* again too early while tokens are refused; a permanent group, failed     *)
(* sends, an echo and joined messages.                                     *)
MCSettings ==
  {[Plain EXCEPT !.maxRequests = p1 :> 1 @@ p2 :> 0],
   [Plain EXCEPT !.nameOf = OneName, !.badTokens = TRUE, !.impatient = TRUE],
   [Plain EXCEPT !.nameOf = OneName, !.permanent = TRUE, !.peersReset = TRUE,
                 !.maxEchoes = 1, !.coalesce = TRUE]}

MCPlain == {Plain}
MCEcho == {[Plain EXCEPT !.maxEchoes = 1]}
MCImpatient == {[Plain EXCEPT !.impatient = TRUE]}
MCReset == {[Plain EXCEPT !.peersReset = TRUE]}
MCCoalesced == {[Plain EXCEPT !.coalesce = TRUE]}
=============================================================================
