---------------------------- MODULE ListingProofs ----------------------------
(***************************************************************************)
(* For every set of nodes and every bound: the type invariant of Listing,  *)
(* that a closed listing is not opened again, and that nodes which have    *)
(* read the same messages agree.                                           *)
(***************************************************************************)
EXTENDS Listing, WellFoundedInduction, TLAPS

(* The entry of zeros, before the listing is known and after.              *)
LEMMA EntriesOfZeros ==
  /\ NoEntry \in Entries /\ ~NoEntry.there
  /\ Blank \in Entries /\ Blank.there
  /\ [Blank EXCEPT !.seller = Seller] \in Entries
  /\ [Blank EXCEPT !.seller = Seller].there
  <1>1. <<>> \in Seq({"buyer", "seller"} \X Accounts)
    OBVIOUS
  <1>2. NULL \in Accounts /\ Seller \in Accounts
    BY ListingAssumption DEF Accounts
  <1>3. "INACTIVE" \in Statuses
    BY DEF Statuses
  <1>4. NoEntry \in Entries /\ ~NoEntry.there
    BY <1>1, <1>2, <1>3 DEF NoEntry, Entries
  <1>5. Blank \in Entries /\ Blank.there
    BY <1>4 DEF Blank, Entries
  <1> QED BY <1>2, <1>4, <1>5 DEF Entries

(* What a message does to an entry leaves an entry that is there.          *)
LEMMA HandledIsEntry ==
  ASSUME NEW e \in Entries, NEW m \in Messages
  PROVE  Handled(e, m) \in Entries /\ Handled(e, m).there
  <1> DEFINE lp == IF e.there THEN e ELSE Blank
  <1>1. lp \in Entries /\ lp.there
    BY EntriesOfZeros
  <1>2. ASSUME m.kind = "LIST" PROVE Handled(e, m) = ListHandled(e, m)
    BY <1>2 DEF Handled
  <1>3. ListHandled(e, m) \in Entries /\ ListHandled(e, m).there
    <2> DEFINE l == IF e.there THEN e ELSE [Blank EXCEPT !.seller = Seller]
    <2>1. l \in Entries /\ l.there
      BY EntriesOfZeros
    <2>2. ListHandled(e, m) =
            IF l.status = "INACTIVE"
              THEN [l EXCEPT !.status = "ACTIVE", !.tagged = TRUE] ELSE l
      BY DEF ListHandled
    <2> HIDE DEF l
    <2> QED BY <2>1, <2>2 DEF Entries, Statuses
  <1>4. ASSUME NEW role \in {"buyer", "seller"}, NEW a \in Accounts
        PROVE  Rated(lp, role, a) \in Entries /\ Rated(lp, role, a).there
    <2>1. Append(lp.ratings, <<role, a>>) \in Seq({"buyer", "seller"} \X Accounts)
      BY <1>1 DEF Entries
    <2> QED BY <1>1, <2>1 DEF Rated, Entries
  <1>5. FeedbackHandled(lp, m) \in Entries /\ FeedbackHandled(lp, m).there
    <2>1. lp.buyer \in Accounts /\ lp.seller \in Accounts
      BY <1>1 DEF Entries
    <2> HIDE DEF lp
    <2> QED BY <1>1, <1>4, <2>1 DEF FeedbackHandled
  <1>6. m.kind \in Kinds /\ m.sender \in Accounts /\ m.receiver \in Accounts
    BY DEF Messages, Accounts
  <1> HIDE DEF lp
  <1>7. CASE m.kind = "LIST" BY <1>2, <1>3, <1>7
  <1>8. CASE m.kind = "FEEDBACK"
    <2>1. Handled(e, m) = FeedbackHandled(lp, m) BY <1>8 DEF Handled, lp
    <2> QED BY <1>5, <2>1
  <1>9. CASE m.kind = "CANCEL"
    <2>1. Handled(e, m) = [lp EXCEPT !.status = "CANCELLED"]
      BY <1>9 DEF Handled, lp
    <2> QED BY <1>1, <2>1 DEF Entries, Statuses
  <1>10. CASE m.kind = "MAKEOFFER"
    <2>1. Handled(e, m) = [lp EXCEPT !.status = "OFFERED", !.buyer = m.sender]
      BY <1>10 DEF Handled, lp
    <2> QED BY <1>1, <1>6, <2>1 DEF Entries, Statuses
  <1>11. CASE m.kind = "ACCEPT"
    <2>1. Handled(e, m) = [lp EXCEPT !.status = "ACCEPTED", !.buyer = m.receiver]
      BY <1>11 DEF Handled, lp
    <2> QED BY <1>1, <1>6, <2>1 DEF Entries, Statuses
  <1> QED BY <1>6, <1>7, <1>8, <1>9, <1>10, <1>11 DEF Kinds

(* No message opens a closed entry. *)
LEMMA HandledStaysClosed ==
  ASSUME NEW e \in Entries, NEW m \in Messages, Closed(e), e.there
  PROVE  Closed(Handled(e, m))
  <1>1. CASE m.kind = "LIST"
    <2>1. Handled(e, m) = e
      BY <1>1 DEF Handled, ListHandled, Closed
    <2> QED BY <2>1
  <1>2. CASE m.kind = "FEEDBACK"
    <2>1. Handled(e, m) = FeedbackHandled(e, m) BY <1>2 DEF Handled
    <2>2. FeedbackHandled(e, m).status = e.status
      BY DEF FeedbackHandled, Rated, Entries
    <2> QED BY <2>1, <2>2 DEF Closed
  <1>3. CASE m.kind = "CANCEL"
    BY <1>3 DEF Handled, Closed, Entries
  <1>4. CASE m.kind = "MAKEOFFER"
    BY <1>4 DEF Handled, Closed, Entries
  <1>5. CASE m.kind = "ACCEPT"
    BY <1>5 DEF Handled, Closed, Entries
  <1> QED BY <1>1, <1>2, <1>3, <1>4, <1>5 DEF Messages, Kinds

-----------------------------------------------------------------------------
(* A node with an open call holds the listing: Return writes a status into *)
(* it, and TypeOK alone does not say that there is an entry to write into. *)
CallersHold == \A n \in Nodes : call[n] # NULL => entry[n].there

Inv == TypeOK /\ CallersHold

(* What Submit leaves of its variables, whatever the call. *)
LEMMA SubmitTyped ==
  ASSUME TypeOK, NEW n \in Nodes, NEW kind \in Kinds, NEW receiver \in Accounts,
         NEW outcome, Submit(n, kind, receiver, outcome)
  PROVE  /\ call' \in [Nodes -> Kinds \cup {NULL}]
         /\ pool' \in [Nodes -> Seq(Messages)]
         /\ used' \in [calls : Nat, faults : Nat, restarts : Nat]
         /\ UNCHANGED <<chain, seen>>
         /\ \A k \in Nodes \ {n} : call'[k] = call[k]
  <1> DEFINE m == [kind |-> kind, sender |-> n, receiver |-> receiver]
  <1>1. m \in Messages
    BY DEF Messages
  <1>2. pool[n] \in Seq(Messages)
    BY DEF TypeOK
  <1>3. Append(pool[n], m) \in Seq(Messages)
    BY <1>1, <1>2
  <1>4. pool' \in [Nodes -> Seq(Messages)]
    <2>1. pool' = pool \/ pool' = [pool EXCEPT ![n] = Append(pool[n], m)]
      BY DEF Submit
    <2> HIDE DEF m
    <2> QED BY <1>3, <2>1 DEF TypeOK
  <1>5. call' \in [Nodes -> Kinds \cup {NULL}]
    BY DEF Submit, TypeOK
  <1>6. used' \in [calls : Nat, faults : Nat, restarts : Nat]
    <2>1. used \in [calls : Nat, faults : Nat, restarts : Nat]
      BY DEF TypeOK
    <2>2. PICK f \in {0, 1} :
            used' = [used EXCEPT !.calls = used.calls + 1, !.faults = used.faults + f]
      BY DEF Submit
    <2>3. used.calls + 1 \in Nat /\ used.faults + f \in Nat
      BY <2>1
    <2> QED BY <2>1, <2>2, <2>3
  <1>7. \A k \in Nodes \ {n} : call'[k] = call[k]
    BY DEF Submit, TypeOK
  <1> QED BY <1>4, <1>5, <1>6, <1>7 DEF Submit

(* A step of one node that leaves the chain and its readers alone keeps    *)
(* the invariant if the node then holds an entry and the rest is typed.    *)
LEMMA CallTyped ==
  ASSUME Inv, NEW n \in Nodes, NEW e \in Entries, e.there,
         entry' = [entry EXCEPT ![n] = e],
         ahead' \in [Nodes -> SUBSET {"buyer", "ratings"}],
         call' \in [Nodes -> Kinds \cup {NULL}],
         pool' \in [Nodes -> Seq(Messages)],
         used' \in [calls : Nat, faults : Nat, restarts : Nat],
         UNCHANGED <<chain, seen>>,
         \A k \in Nodes \ {n} : call'[k] = call[k]
  PROVE  Inv'
  <1>1. TypeOK'
    BY DEF Inv, TypeOK
  <1>2. CallersHold'
    BY DEF Inv, TypeOK, CallersHold
  <1> QED BY <1>1, <1>2 DEF Inv

(* A node that holds the listing leaves its entry as it is. *)
LEMMA SameEntry ==
  ASSUME TypeOK, NEW n \in Nodes
  PROVE  entry[n] \in Entries /\ entry = [entry EXCEPT ![n] = entry[n]]
  BY DEF TypeOK

(* The type invariant: every account, message and entry is one, a node     *)
(* that does not know the listing holds zeros, and each reader is within   *)
(* the chain.                                                              *)
THEOREM TypeCorrect == Spec => []TypeOK
  <1>1. Init => Inv
    <2> SUFFICES ASSUME Init PROVE Inv
      OBVIOUS
    <2>1. pool \in [Nodes -> Seq(Messages)] /\ chain = <<>> /\ chain \in Seq(Messages)
      <3>1. <<>> \in Seq(Messages)
        OBVIOUS
      <3>2. pool = [n \in Nodes |-> <<>>] /\ chain = <<>>
        BY DEF Init
      <3> QED BY <3>1, <3>2
    <2>2. Len(chain) = 0
      BY <2>1
    <2>3. entry = [n \in Nodes |-> NoEntry] /\ entry \in [Nodes -> Entries]
      BY EntriesOfZeros DEF Init
    <2>4. seen \in [Nodes -> [hist : Nat, start : Nat, real : Nat]]
      BY DEF Init
    <2>5. /\ call \in [Nodes -> Kinds \cup {NULL}]
          /\ ahead \in [Nodes -> SUBSET {"buyer", "ratings"}]
          /\ used \in [calls : Nat, faults : Nat, restarts : Nat]
      BY DEF Init
    <2>6. ASSUME NEW n \in Nodes
          PROVE  /\ entry[n] = NoEntry /\ call[n] = NULL
                 /\ seen[n].hist = 0 /\ seen[n].start = 0 /\ seen[n].real = 0
      BY DEF Init
    <2>7. TypeOK
      BY <2>1, <2>2, <2>3, <2>4, <2>5, <2>6 DEF TypeOK
    <2>8. CallersHold
      BY <2>6 DEF CallersHold
    <2> QED BY <2>7, <2>8 DEF Inv
  <1>2. Inv /\ [Next]_vars => Inv'
    <2> SUFFICES ASSUME Inv, [Next]_vars PROVE Inv'
      OBVIOUS
    <2>0. TypeOK
      BY DEF Inv
    <2> USE <2>0
    <2>1. ASSUME NEW n \in Nodes, NEW outcome, List(n, outcome) PROVE Inv'
      <3> DEFINE e == [Blank EXCEPT !.seller = n]
      <3>1. e \in Entries /\ e.there
        BY <2>1, EntriesOfZeros DEF List
      <3>2. Submit(n, "LIST", NULL, outcome) /\ UNCHANGED ahead
            /\ entry' = [entry EXCEPT ![n] = e]
        BY <2>1 DEF List
      <3>3. "LIST" \in Kinds /\ NULL \in Accounts
        BY DEF Kinds, Accounts
      <3>4. ahead' \in [Nodes -> SUBSET {"buyer", "ratings"}]
        BY <3>2 DEF TypeOK
      <3> HIDE DEF e
      <3> QED BY <3>1, <3>2, <3>3, <3>4, SubmitTyped, CallTyped
    <2>2. ASSUME NEW n \in Nodes, NEW outcome, Cancel(n, outcome) PROVE Inv'
      <3>1. entry[n] \in Entries /\ entry[n].there
        BY <2>2 DEF Cancel, TypeOK, NoEntry
      <3>2. Submit(n, "CANCEL", entry[n].buyer, outcome) /\ UNCHANGED <<entry, ahead>>
        BY <2>2 DEF Cancel
      <3>3. "CANCEL" \in Kinds /\ entry[n].buyer \in Accounts
        BY <3>1 DEF Kinds, Entries
      <3>4. ahead' \in [Nodes -> SUBSET {"buyer", "ratings"}]
        BY <3>2 DEF TypeOK
      <3>5. entry' = [entry EXCEPT ![n] = entry[n]]
        BY <3>2, SameEntry
      <3> QED BY <3>1, <3>2, <3>3, <3>4, <3>5, SubmitTyped, CallTyped
    <2>3. ASSUME NEW n \in Nodes, NEW outcome, NEW b \in Nodes, WriteBuyer(n, b, outcome),
                 NEW kind \in Kinds, NEW receiver \in Accounts,
                 Submit(n, kind, receiver, outcome), entry[n].there
          PROVE Inv'
      <3> DEFINE e == [entry[n] EXCEPT !.buyer = b]
      <3>1. entry[n] \in Entries
        BY DEF TypeOK
      <3>2. e \in Entries /\ e.there
        BY <2>3, <3>1 DEF Entries, Accounts
      <3>3. entry' = [entry EXCEPT ![n] = e]
        BY <2>3 DEF WriteBuyer
      <3>4. ahead' \in [Nodes -> SUBSET {"buyer", "ratings"}]
        BY <2>3 DEF WriteBuyer, TypeOK
      <3> HIDE DEF e
      <3> QED BY <2>3, <3>2, <3>3, <3>4, SubmitTyped, CallTyped
    <2>4. ASSUME NEW n \in Nodes, NEW outcome, MakeOffer(n, outcome) PROVE Inv'
      <3>1. entry[n] \in Entries /\ entry[n].there
        BY <2>4 DEF MakeOffer, TypeOK, NoEntry
      <3>2. "MAKEOFFER" \in Kinds /\ entry[n].seller \in Accounts
        BY <3>1 DEF Kinds, Entries
      <3> QED BY <2>3, <2>4, <3>1, <3>2 DEF MakeOffer
    <2>5. ASSUME NEW n \in Nodes, NEW outcome, NEW b \in Nodes, AcceptOffer(n, b, outcome)
          PROVE Inv'
      <3>1. "ACCEPT" \in Kinds /\ b \in Accounts
        BY DEF Kinds, Accounts
      <3> QED BY <2>3, <2>5, <3>1 DEF AcceptOffer
    <2>6. ASSUME NEW n \in Nodes, NEW outcome, Feedback(n, outcome) PROVE Inv'
      <3> DEFINE other == IF entry[n].buyer = n THEN entry[n].seller ELSE entry[n].buyer
      <3>1. entry[n] \in Entries /\ entry[n].there
        BY <2>6 DEF Feedback, TypeOK
      <3>2. Submit(n, "FEEDBACK", other, outcome) /\ UNCHANGED <<entry, ahead>>
        BY <2>6 DEF Feedback
      <3>3. "FEEDBACK" \in Kinds /\ other \in Accounts
        BY <3>1 DEF Kinds, Entries
      <3>4. ahead' \in [Nodes -> SUBSET {"buyer", "ratings"}]
        BY <3>2 DEF TypeOK
      <3>5. entry' = [entry EXCEPT ![n] = entry[n]]
        BY <3>2, SameEntry
      <3> HIDE DEF other
      <3> QED BY <3>1, <3>2, <3>3, <3>4, <3>5, SubmitTyped, CallTyped
    <2>7. ASSUME NEW n \in Nodes, Return(n) PROVE Inv'
      <3> DEFINE s == CASE call[n] = "CANCEL"    -> "CANCELLED"
                        [] call[n] = "MAKEOFFER" -> "OFFERED"
                        [] call[n] = "ACCEPT"    -> "ACCEPTED"
                        [] OTHER                 -> entry[n].status
                 e == [entry[n] EXCEPT !.status = s]
      <3>1. entry[n] \in Entries /\ entry[n].there
        BY <2>7 DEF Return, Inv, CallersHold, TypeOK
      <3>2. s \in Statuses
        BY <3>1 DEF Entries, Statuses
      <3>3. entry' = [entry EXCEPT ![n] = e]
        BY <2>7 DEF Return
      <3> HIDE DEF s
      <3>4. e \in Entries /\ e.there
        BY <3>1, <3>2 DEF Entries
      <3> HIDE DEF e
      <3>5. /\ call' \in [Nodes -> Kinds \cup {NULL}]
            /\ \A k \in Nodes \ {n} : call'[k] = call[k]
        BY <2>7 DEF Return, TypeOK
      <3>6. /\ pool' \in [Nodes -> Seq(Messages)]
            /\ ahead' \in [Nodes -> SUBSET {"buyer", "ratings"}]
            /\ used' \in [calls : Nat, faults : Nat, restarts : Nat]
            /\ UNCHANGED <<chain, seen>>
        BY <2>7 DEF Return, TypeOK
      <3> QED BY <3>3, <3>4, <3>5, <3>6, CallTyped
    <2>8. ASSUME NEW n \in Nodes, NEW i \in 1..Len(pool[n]), Forge(n, i) PROVE Inv'
      <3>1. pool[n] \in Seq(Messages) /\ chain \in Seq(Messages)
        BY DEF TypeOK
      <3>2. pool[n][i] \in Messages
        BY <3>1
      <3>3. /\ chain' \in Seq(Messages) /\ Len(chain') = Len(chain) + 1
            /\ Len(chain) \in Nat
        BY <2>8, <3>1, <3>2 DEF Forge
      <3>4. RemoveAt(pool[n], i) \in Seq(Messages)
        BY <3>1 DEF RemoveAt
      <3>5. pool' \in [Nodes -> Seq(Messages)]
        BY <2>8, <3>4 DEF Forge, TypeOK
      <3>6. UNCHANGED <<entry, call, seen, ahead, used>>
        BY <2>8 DEF Forge
      <3>7. TypeOK'
        BY <3>3, <3>5, <3>6 DEF TypeOK
      <3> QED BY <3>6, <3>7 DEF Inv, CallersHold
    <2>9. ASSUME NEW n \in Nodes, NEW i \in 1..Len(chain),
                 entry' = [entry EXCEPT ![n] = Handled(@, chain[i])],
                 NEW r \in [hist : Nat, start : Nat, real : Nat],
                 r.hist <= r.start, r.start <= r.real, r.real <= Len(chain),
                 seen' = [seen EXCEPT ![n] = r],
                 UNCHANGED <<call, pool, chain, ahead, used>>
          PROVE Inv'
      <3> DEFINE e == Handled(entry[n], chain[i])
      <3>1. entry[n] \in Entries /\ chain[i] \in Messages
        BY DEF TypeOK
      <3>2. e \in Entries /\ e.there
        BY <3>1, HandledIsEntry
      <3>3. entry' = [entry EXCEPT ![n] = e]
        BY <2>9
      <3> HIDE DEF e
      <3>4. TypeOK'
        BY <2>9, <3>2, <3>3 DEF TypeOK
      <3>5. CallersHold'
        BY <2>9, <3>2, <3>3 DEF Inv, TypeOK, CallersHold
      <3> QED BY <3>4, <3>5 DEF Inv
    <2>10. ASSUME NEW n \in Nodes, ReadHistory(n) PROVE Inv'
      <3> DEFINE r == [seen[n] EXCEPT !.hist = @ + 1]
      <3>1. /\ seen[n] \in [hist : Nat, start : Nat, real : Nat]
            /\ seen[n].hist < seen[n].start /\ seen[n].start <= seen[n].real
            /\ seen[n].real <= Len(chain) /\ Len(chain) \in Nat
        BY <2>10 DEF ReadHistory, TypeOK
      <3>2. seen[n].hist + 1 \in 1..Len(chain)
        BY <3>1
      <3>3. /\ r \in [hist : Nat, start : Nat, real : Nat]
            /\ r.hist <= r.start /\ r.start <= r.real /\ r.real <= Len(chain)
        BY <3>1
      <3>4. /\ entry' = [entry EXCEPT ![n] = Handled(@, chain[seen[n].hist + 1])]
            /\ seen' = [seen EXCEPT ![n] = r]
            /\ UNCHANGED <<call, pool, chain, ahead, used>>
        BY <2>10 DEF ReadHistory
      <3> HIDE DEF r
      <3> QED BY <2>9, <3>2, <3>3, <3>4
    <2>11. ASSUME NEW n \in Nodes, ReadNews(n) PROVE Inv'
      <3> DEFINE r == [seen[n] EXCEPT !.real = @ + 1]
      <3>1. /\ seen[n] \in [hist : Nat, start : Nat, real : Nat]
            /\ seen[n].hist <= seen[n].start /\ seen[n].start <= seen[n].real
            /\ seen[n].real < Len(chain) /\ Len(chain) \in Nat
        BY <2>11 DEF ReadNews, TypeOK
      <3>2. seen[n].real + 1 \in 1..Len(chain)
        BY <3>1
      <3>3. /\ r \in [hist : Nat, start : Nat, real : Nat]
            /\ r.hist <= r.start /\ r.start <= r.real /\ r.real <= Len(chain)
        BY <3>1
      <3>4. /\ entry' = [entry EXCEPT ![n] = Handled(@, chain[seen[n].real + 1])]
            /\ seen' = [seen EXCEPT ![n] = r]
            /\ UNCHANGED <<call, pool, chain, ahead, used>>
        BY <2>11 DEF ReadNews
      <3> HIDE DEF r
      <3> QED BY <2>9, <3>2, <3>3, <3>4
    <2>12. ASSUME NEW n \in Nodes, Restart(n) PROVE Inv'
      <3>1. Len(chain) \in Nat
        BY DEF TypeOK
      <3>2. /\ entry' \in [Nodes -> Entries]
            /\ \A k \in Nodes : ~entry'[k].there => entry'[k] = NoEntry
        BY <2>12, EntriesOfZeros DEF Restart, TypeOK
      <3>3. /\ seen' \in [Nodes -> [hist : Nat, start : Nat, real : Nat]]
            /\ \A k \in Nodes : /\ seen'[k].hist <= seen'[k].start
                                /\ seen'[k].start <= seen'[k].real
                                /\ seen'[k].real <= Len(chain)
        <4> DEFINE r == [hist |-> 0, start |-> Len(chain), real |-> Len(chain)]
        <4>1. /\ r \in [hist : Nat, start : Nat, real : Nat]
              /\ r.hist <= r.start /\ r.start <= r.real /\ r.real <= Len(chain)
          BY <3>1
        <4>2. seen' = [seen EXCEPT ![n] = r]
          BY <2>12 DEF Restart
        <4> HIDE DEF r
        <4> QED BY <4>1, <4>2 DEF TypeOK
      <3>4. /\ call' \in [Nodes -> Kinds \cup {NULL}]
            /\ ahead' \in [Nodes -> SUBSET {"buyer", "ratings"}]
            /\ used' \in [calls : Nat, faults : Nat, restarts : Nat]
            /\ UNCHANGED <<pool, chain>>
        <4>1. call' = [call EXCEPT ![n] = NULL] /\ ahead' = [ahead EXCEPT ![n] = {}]
          BY <2>12 DEF Restart
        <4>2. /\ call' \in [Nodes -> Kinds \cup {NULL}]
              /\ ahead' \in [Nodes -> SUBSET {"buyer", "ratings"}]
          BY <4>1 DEF TypeOK
        <4>3. used' = [used EXCEPT !.restarts = used.restarts + 1]
          BY <2>12 DEF Restart
        <4>4. used' \in [calls : Nat, faults : Nat, restarts : Nat]
          <5>1. used \in [calls : Nat, faults : Nat, restarts : Nat]
            BY DEF TypeOK
          <5>2. used.restarts + 1 \in Nat
            BY <5>1
          <5> QED BY <4>3, <5>1, <5>2
        <4> QED BY <2>12, <4>2, <4>4 DEF Restart
      <3>5. TypeOK'
        BY <3>2, <3>3, <3>4 DEF TypeOK
      <3>6. CallersHold'
        BY <2>12 DEF Restart, Inv, TypeOK, CallersHold
      <3> QED BY <3>5, <3>6 DEF Inv
    <2>13. CASE UNCHANGED vars
      BY <2>13 DEF vars, Inv, TypeOK, CallersHold
    <2> QED
      BY <2>1, <2>2, <2>4, <2>5, <2>6, <2>7, <2>8, <2>10, <2>11, <2>12, <2>13
      DEF Next, Calls
  <1>3. Inv => TypeOK
    BY DEF Inv
  <1> QED BY <1>1, <1>2, <1>3, PTL DEF Spec

-----------------------------------------------------------------------------
(* A listing a running node holds as cancelled, offered for or accepted is *)
(* not opened again, whatever messages come and in whatever order: only a  *)
(* LIST message opens, and only an entry that was never opened.            *)
THEOREM StaysClosed == Spec => NeverReopened
  <1>1. TypeOK /\ [Next]_vars =>
          [\A n \in Nodes :
             Closed(entry[n]) /\ entry'[n].there => Closed(entry'[n])]_vars
    <2> SUFFICES ASSUME TypeOK, Next, NEW k \in Nodes,
                        Closed(entry[k]), entry'[k].there
                 PROVE  Closed(entry'[k])
      OBVIOUS
    <2>1. entry[k] \in Entries /\ entry[k].there
      BY DEF TypeOK, NoEntry, Closed
    <2>2. ASSUME NEW n \in Nodes, NEW outcome, List(n, outcome) PROVE Closed(entry'[k])
      <3>1. n # k /\ entry'[k] = entry[k]
        BY <2>1, <2>2 DEF List, TypeOK
      <3> QED BY <3>1
    <2>3. ASSUME NEW n \in Nodes, NEW b \in Nodes, NEW outcome, WriteBuyer(n, b, outcome)
          PROVE  Closed(entry'[k])
      <3>1. entry'[k].status = entry[k].status
        BY <2>3, <2>1 DEF WriteBuyer, TypeOK, Entries
      <3> QED BY <3>1 DEF Closed
    <2>4. ASSUME NEW n \in Nodes, Return(n) PROVE Closed(entry'[k])
      <3>1. \/ entry'[k].status \in {"CANCELLED", "OFFERED", "ACCEPTED"}
            \/ entry'[k].status = entry[k].status
        BY <2>4, <2>1 DEF Return, TypeOK, Entries
      <3> QED BY <3>1 DEF Closed
    <2>5. ASSUME NEW n \in Nodes, NEW i \in 1..Len(chain),
                 entry' = [entry EXCEPT ![n] = Handled(@, chain[i])]
          PROVE  Closed(entry'[k])
      <3>1. chain[i] \in Messages
        BY DEF TypeOK
      <3>2. Closed(Handled(entry[k], chain[i]))
        BY <2>1, <3>1, HandledStaysClosed
      <3>3. entry'[k] = entry[k] \/ entry'[k] = Handled(entry[k], chain[i])
        BY <2>5 DEF TypeOK
      <3> QED BY <3>2, <3>3
    <2>6. ASSUME NEW n \in Nodes, ReadHistory(n) PROVE Closed(entry'[k])
      <3>1. seen[n].hist + 1 \in 1..Len(chain)
        BY <2>6 DEF ReadHistory, TypeOK
      <3> QED BY <2>5, <2>6, <3>1 DEF ReadHistory
    <2>7. ASSUME NEW n \in Nodes, ReadNews(n) PROVE Closed(entry'[k])
      <3>1. seen[n].real + 1 \in 1..Len(chain)
        BY <2>7 DEF ReadNews, TypeOK
      <3> QED BY <2>5, <2>7, <3>1 DEF ReadNews
    <2>8. ASSUME NEW n \in Nodes, Restart(n) PROVE Closed(entry'[k])
      <3>1. entry'[k] = entry[k] \/ entry'[k] = NoEntry
        BY <2>8 DEF Restart, TypeOK
      <3> QED BY <3>1, EntriesOfZeros
    <2>9. ASSUME entry' = entry PROVE Closed(entry'[k])
      BY <2>9
    <2> QED
      BY <2>2, <2>3, <2>4, <2>6, <2>7, <2>8, <2>9
      DEF Next, Calls, Cancel, MakeOffer, AcceptOffer, Feedback, Forge
  <1> QED BY <1>1, TypeCorrect, PTL DEF Spec, NeverReopened
-----------------------------------------------------------------------------
(* What the chain says of the listing.                                     *)

(* A function that is what the chain says after each of its messages. *)
IsReplay(ch, f) ==
  f = [i \in 0..Len(ch) |-> IF i = 0 THEN NoEntry ELSE Handled(f[i - 1], ch[i])]

(* A set of natural numbers that is not empty has a least element. *)
LEMMA LeastOf ==
  ASSUME NEW S \in SUBSET Nat, S # {}
  PROVE  \E m \in S : \A n \in S : m <= n
  <1> DEFINE R == {ss \in Nat \X Nat : ss[1] < ss[2]}
  <1>1. IsWellFoundedOn(R, Nat)
    BY NatLessThanWellFounded DEF OpToRel
  <1>2. PICK m \in S : \A n \in S : <<n, m>> \notin R
    <2> HIDE DEF R
    <2> QED BY <1>1, WFMin
  <1>3. ASSUME NEW n \in S PROVE m <= n
    <2>1. m \in Nat /\ n \in Nat /\ <<n, m>> \notin R
      BY <1>2
    <2> QED BY <2>1
  <1> QED BY <1>2, <1>3

(* Each of its values is one step from the value before. *)
LEMMA ReplaySteps ==
  ASSUME NEW ch \in Seq(Messages), NEW f, IsReplay(ch, f)
  PROVE  /\ f[0] = NoEntry
         /\ \A i \in 1..Len(ch) : f[i] = Handled(f[i - 1], ch[i])
  <1>1. Len(ch) \in Nat
    OBVIOUS
  <1>2. \A i \in 0..Len(ch) : f[i] = IF i = 0 THEN NoEntry ELSE Handled(f[i - 1], ch[i])
    BY Zenon DEF IsReplay
  <1>3. 0 \in 0..Len(ch) /\ \A i \in 1..Len(ch) : i \in 0..Len(ch) /\ i # 0
    BY <1>1
  <1> QED BY <1>2, <1>3

(* There is one such function at most, and that of a longer chain begins   *)
(* with it.                                                                *)
LEMMA ReplayIsOne ==
  ASSUME NEW ch \in Seq(Messages), NEW cl \in Seq(Messages), NEW f, NEW g,
         IsReplay(ch, f), IsReplay(cl, g), Len(ch) <= Len(cl),
         \A i \in 1..Len(ch) : cl[i] = ch[i]
  PROVE  \A i \in 0..Len(ch) : g[i] = f[i]
  <1>1. /\ Len(ch) \in Nat /\ Len(cl) \in Nat /\ f[0] = NoEntry /\ g[0] = NoEntry
        /\ \A i \in 1..Len(ch) : f[i] = Handled(f[i - 1], ch[i])
        /\ \A i \in 1..Len(cl) : g[i] = Handled(g[i - 1], cl[i])
    BY ReplaySteps
  <1> DEFINE S == {i \in 0..Len(ch) : g[i] # f[i]}
  <1>2. SUFFICES ASSUME S # {} PROVE FALSE
    OBVIOUS
  <1>3. S \in SUBSET Nat
    BY <1>1
  <1>4. PICK m \in S : \A n \in S : m <= n
    <2> HIDE DEF S
    <2> QED BY <1>2, <1>3, LeastOf
  <1>5. m \in 0..Len(ch) /\ m \in 0..Len(cl) /\ g[m] # f[m]
    BY <1>1
  <1>6. m # 0
    BY <1>1, <1>5
  <1>7. m - 1 \in 0..Len(ch) /\ m - 1 \notin S /\ m \in 1..Len(ch) /\ m \in 1..Len(cl)
    BY <1>1, <1>4, <1>5, <1>6
  <1>8. g[m - 1] = f[m - 1] /\ cl[m] = ch[m]
    BY <1>7
  <1> HIDE DEF S
  <1> QED BY <1>1, <1>5, <1>7, <1>8

(* Where there is one, ReplayTo is it. *)
LEMMA ReplayToIs ==
  ASSUME NEW f, IsReplay(chain, f)
  PROVE  IsReplay(chain, ReplayTo)
  BY DEF IsReplay, ReplayTo

(* One message more is one step more. *)
LEMMA ReplayGrows ==
  ASSUME chain \in Seq(Messages), IsReplay(chain, ReplayTo), NEW m \in Messages,
         chain' = Append(chain, m)
  PROVE  /\ IsReplay(chain, ReplayTo)'
         /\ \A i \in 0..Len(chain) : ReplayTo'[i] = ReplayTo[i]
         /\ ReplayTo'[Len(chain) + 1] = Handled(ReplayTo[Len(chain)], m)
  <1> DEFINE k == Len(chain)
             g == [i \in 0..(k + 1) |-> IF i = k + 1 THEN Handled(ReplayTo[k], m) ELSE ReplayTo[i]]
  <1>1. /\ k \in Nat /\ Len(chain') = k + 1 /\ chain' \in Seq(Messages)
        /\ chain'[k + 1] = m /\ \A i \in 1..k : chain'[i] = chain[i]
    OBVIOUS
  <1>2. ReplayTo[0] = NoEntry /\ \A i \in 1..k : ReplayTo[i] = Handled(ReplayTo[i - 1], chain[i])
    BY ReplaySteps
  <1>3. ASSUME NEW i \in 0..(k + 1)
        PROVE  g[i] = IF i = 0 THEN NoEntry ELSE Handled(g[i - 1], chain'[i])
    <2>1. CASE i = k + 1
      BY <1>1, <2>1
    <2>2. CASE i = 0
      BY <1>1, <1>2, <2>2
    <2>3. CASE i # 0 /\ i # k + 1
      <3>1. /\ i \in 0..k /\ i \in 1..k /\ i - 1 \in 0..(k + 1) /\ i - 1 # k + 1
            /\ i # k + 1
        BY <1>1, <2>3
      <3>2. g[i] = ReplayTo[i] /\ g[i - 1] = ReplayTo[i - 1]
        BY <3>1
      <3> QED BY <1>1, <1>2, <2>3, <3>1, <3>2
    <2> QED BY <2>1, <2>2, <2>3
  <1>4. IsReplay(chain', g)
    <2>1. g = [i \in 0..(k + 1) |-> g[i]]
      OBVIOUS
    <2> HIDE DEF g
    <2>2. g = [i \in 0..(k + 1) |-> IF i = 0 THEN NoEntry ELSE Handled(g[i - 1], chain'[i])]
      BY <1>3, <2>1
    <2> QED BY <1>1, <2>2 DEF IsReplay
  <1>5. IsReplay(chain, ReplayTo)'
    <2> HIDE DEF g
    <2> QED BY <1>4 DEF IsReplay, ReplayTo
  <1>6. \A i \in 0..k : ReplayTo'[i] = ReplayTo[i]
    <2>1. PICK f, h, cl : f = ReplayTo /\ h = ReplayTo' /\ cl = chain'
      OBVIOUS
    <2>2. /\ IsReplay(chain, f) /\ IsReplay(cl, h) /\ cl \in Seq(Messages)
          /\ Len(chain) <= Len(cl) /\ \A i \in 1..Len(chain) : cl[i] = chain[i]
      BY <1>1, <1>5, <2>1
    <2> HIDE DEF g
    <2>3. \A i \in 0..Len(chain) : h[i] = f[i]
      BY <2>2, ReplayIsOne
    <2> QED BY <2>1, <2>3
  <1>7. ReplayTo'[k + 1] = Handled(ReplayTo'[k], m)
    <2>1. \A i \in 1..Len(chain') : ReplayTo'[i] = Handled(ReplayTo'[i - 1], chain'[i])
      BY <1>1, <1>5, ReplaySteps
    <2>2. k + 1 \in 1..Len(chain') /\ (k + 1) - 1 = k
      BY <1>1
    <2> HIDE DEF k
    <2> QED BY <1>1, <2>1, <2>2
  <1>8. k \in 0..k
    BY <1>1
  <1> QED BY <1>5, <1>6, <1>7, <1>8

-----------------------------------------------------------------------------
(* Nodes that read the same messages agree.                                *)

(* How far a node has read: the history first, then the news. *)
Pos(n) == IF seen[n].hist < seen[n].start THEN seen[n].hist ELSE seen[n].real

(* The messages that say what the status is, and those that say who buys. *)
Setters == {"CANCEL", "MAKEOFFER", "ACCEPT"}
Offers == {"MAKEOFFER", "ACCEPT"}

(* The node has yet to read such a message: one of its own is in its pool, *)
(* or one is in the chain beyond what it has read.                         *)
Waiting(n, kinds) ==
  \/ \E i \in 1..Len(pool[n]) : pool[n][i].kind \in kinds
  \/ \E i \in 1..Len(chain) : i > Pos(n) /\ chain[i].kind \in kinds

(* The listing is announced before anything else is said of it. *)
ListedFirst ==
  /\ Len(chain) > 0 => chain[1].kind = "LIST"
  /\ Len(chain) = 0 => \A n \in Nodes : \A i \in 1..Len(pool[n]) : pool[n][i].kind = "LIST"

Opened(e) == e.there /\ e.status # "INACTIVE" /\ e.tagged /\ e.seller = Seller

(* What list_func writes ahead of its message. *)
Announcing == [Blank EXCEPT !.seller = Seller]

ReplayFine ==
  /\ IsReplay(chain, ReplayTo)
  /\ \A i \in 1..Len(chain) : ReplayTo[i] \in Entries /\ Opened(ReplayTo[i])

(* The news is not read before the history is. *)
OneReader(n) == seen[n].hist < seen[n].start => seen[n].real = seen[n].start

(* A call that will write a status has its message in the pool. *)
CallFine(n) ==
  call[n] \in Setters =>
    Pos(n) > 0 /\ \E i \in 1..Len(pool[n]) : pool[n][i].kind = call[n]

EntryFine(n) ==
  IF Pos(n) = 0 THEN entry[n] \in {NoEntry, Announcing} /\ ahead[n] = {}
  ELSE Opened(entry[n])

(* A node differs from what it has read only in what it wrote ahead of a   *)
(* message that it has yet to read, or could not send.                     *)
Follows(n, e, r) ==
  /\ e.status = r.status \/ Waiting(n, Setters)
  /\ "buyer" \in ahead[n] \/ e.buyer = r.buyer \/ Waiting(n, Offers)
  /\ "ratings" \in ahead[n] \/ (ahead[n] = {} /\ e.buyer = r.buyer /\ e.ratings = r.ratings)

NodeFine(n) ==
  OneReader(n) /\ CallFine(n) /\ EntryFine(n) /\ Follows(n, entry[n], ReplayTo[Pos(n)])

AgreeInv == ListedFirst /\ ReplayFine /\ \A n \in Nodes : NodeFine(n)

(* What a message does to an entry that is opened. *)
StatusAfter(s, m) ==
  CASE m.kind = "CANCEL"    -> "CANCELLED"
    [] m.kind = "MAKEOFFER" -> "OFFERED"
    [] m.kind = "ACCEPT"    -> "ACCEPTED"
    [] OTHER                -> s
BuyerAfter(b, m) ==
  CASE m.kind = "MAKEOFFER" -> m.sender
    [] m.kind = "ACCEPT"    -> m.receiver
    [] OTHER                -> b
RatingsAfter(r, b, m) ==
  IF m.kind = "FEEDBACK" /\ m.sender = Seller /\ m.receiver = b
    THEN Append(r, <<"buyer", b>>)
  ELSE IF m.kind = "FEEDBACK" /\ m.sender = b /\ m.receiver = Seller
    THEN Append(r, <<"seller", Seller>>)
  ELSE r

LEMMA ZerosAre ==
  /\ NoEntry = [there |-> FALSE, status |-> "INACTIVE", seller |-> NULL,
                buyer |-> NULL, tagged |-> FALSE, ratings |-> <<>>]
  /\ Announcing = [there |-> TRUE, status |-> "INACTIVE", seller |-> Seller,
                   buyer |-> NULL, tagged |-> FALSE, ratings |-> <<>>]
  <1>1. NoEntry = [there |-> FALSE, status |-> "INACTIVE", seller |-> NULL,
                   buyer |-> NULL, tagged |-> FALSE, ratings |-> <<>>]
    BY DEF NoEntry
  <1>2. PICK zero : zero = <<>>
    OBVIOUS
  <1>3. Announcing = [[NoEntry EXCEPT !.there = TRUE] EXCEPT !.seller = Seller]
    BY DEF Announcing, Blank
  <1>4. Announcing = [there |-> TRUE, status |-> "INACTIVE", seller |-> Seller,
                      buyer |-> NULL, tagged |-> FALSE, ratings |-> zero]
    <2>1. NoEntry = [there |-> FALSE, status |-> "INACTIVE", seller |-> NULL,
                     buyer |-> NULL, tagged |-> FALSE, ratings |-> zero]
      BY <1>1, <1>2
    <2> QED BY <1>3, <2>1
  <1> QED BY <1>1, <1>2, <1>4

(* The first message opens the listing, known to the node or not. *)
LEMMA HandledFirst ==
  ASSUME NEW e \in {NoEntry, Announcing}, NEW m, m.kind = "LIST"
  PROVE  Handled(e, m) = [there |-> TRUE, status |-> "ACTIVE", seller |-> Seller,
                          buyer |-> NULL, tagged |-> TRUE, ratings |-> <<>>]
  <1>1. Handled(e, m) = ListHandled(e, m)
    BY DEF Handled
  <1>2. (IF e.there THEN e ELSE [Blank EXCEPT !.seller = Seller]) = Announcing
    BY ZerosAre DEF Announcing
  <1>3. Announcing.status = "INACTIVE"
    BY ZerosAre
  <1>4. ListHandled(e, m) = [Announcing EXCEPT !.status = "ACTIVE", !.tagged = TRUE]
    BY <1>2, <1>3 DEF ListHandled
  <1> QED BY <1>1, <1>4, ZerosAre

LEMMA HandledLater ==
  ASSUME NEW e \in Entries, NEW m \in Messages, Opened(e)
  PROVE  /\ Opened(Handled(e, m))
         /\ Handled(e, m).status = StatusAfter(e.status, m)
         /\ Handled(e, m).buyer = BuyerAfter(e.buyer, m)
         /\ Handled(e, m).ratings = RatingsAfter(e.ratings, e.buyer, m)
  <1>1. e.there /\ e.status # "INACTIVE" /\ e.tagged /\ e.seller = Seller
    BY DEF Opened
  <1>2. CASE m.kind = "LIST"
    <2>1. Handled(e, m) = e
      BY <1>1, <1>2 DEF Handled, ListHandled
    <2> QED BY <1>2, <2>1 DEF StatusAfter, BuyerAfter, RatingsAfter
  <1>3. CASE m.kind = "CANCEL"
    <2>1. Handled(e, m) = [e EXCEPT !.status = "CANCELLED"]
      BY <1>1, <1>3 DEF Handled
    <2> QED BY <1>1, <1>3, <2>1 DEF StatusAfter, BuyerAfter, RatingsAfter, Opened, Entries
  <1>4. CASE m.kind = "MAKEOFFER"
    <2>1. Handled(e, m) = [e EXCEPT !.status = "OFFERED", !.buyer = m.sender]
      BY <1>1, <1>4 DEF Handled
    <2> QED BY <1>1, <1>4, <2>1 DEF StatusAfter, BuyerAfter, RatingsAfter, Opened, Entries
  <1>5. CASE m.kind = "ACCEPT"
    <2>1. Handled(e, m) = [e EXCEPT !.status = "ACCEPTED", !.buyer = m.receiver]
      BY <1>1, <1>5 DEF Handled
    <2> QED BY <1>1, <1>5, <2>1 DEF StatusAfter, BuyerAfter, RatingsAfter, Opened, Entries
  <1>6. CASE m.kind = "FEEDBACK"
    <2>1. Handled(e, m) = FeedbackHandled(e, m)
      BY <1>1, <1>6 DEF Handled
    <2>2. FeedbackHandled(e, m) = [e EXCEPT !.ratings = RatingsAfter(e.ratings, e.buyer, m)]
      BY <1>1, <1>6 DEF FeedbackHandled, Rated, RatingsAfter, Entries
    <2>3. StatusAfter(e.status, m) = e.status /\ BuyerAfter(e.buyer, m) = e.buyer
      BY <1>6 DEF StatusAfter, BuyerAfter
    <2> QED BY <1>1, <2>1, <2>2, <2>3 DEF Opened, Entries
  <1> QED BY <1>2, <1>3, <1>4, <1>5, <1>6 DEF Messages, Kinds

(* What the invariant says of one node. *)
LEMMA NodeFacts ==
  ASSUME TypeOK, AgreeInv, NEW n \in Nodes
  PROVE  /\ OneReader(n) /\ CallFine(n) /\ EntryFine(n)
         /\ Follows(n, entry[n], ReplayTo[Pos(n)])
         /\ Pos(n) \in 0..Len(chain) /\ Len(chain) \in Nat /\ chain \in Seq(Messages)
         /\ entry[n] \in Entries /\ pool[n] \in Seq(Messages)
         /\ seen[n] \in [hist : Nat, start : Nat, real : Nat]
         /\ ReplayTo[0] = NoEntry
         /\ \A i \in 1..Len(chain) : /\ ReplayTo[i] \in Entries /\ Opened(ReplayTo[i])
                                     /\ ReplayTo[i] = Handled(ReplayTo[i - 1], chain[i])
  <1>1. NodeFine(n) /\ ReplayFine
    BY DEF AgreeInv
  <1>2. /\ seen[n] \in [hist : Nat, start : Nat, real : Nat]
        /\ seen[n].hist <= seen[n].start /\ seen[n].start <= seen[n].real
        /\ seen[n].real <= Len(chain) /\ Len(chain) \in Nat /\ chain \in Seq(Messages)
        /\ entry[n] \in Entries /\ pool[n] \in Seq(Messages)
    BY DEF TypeOK
  <1>3. Pos(n) \in 0..Len(chain)
    BY <1>2 DEF Pos
  <1>4. /\ ReplayTo[0] = NoEntry
        /\ \A i \in 1..Len(chain) : ReplayTo[i] = Handled(ReplayTo[i - 1], chain[i])
    <2>1. PICK f : f = ReplayTo
      OBVIOUS
    <2>2. IsReplay(chain, f)
      BY <1>1, <2>1 DEF ReplayFine
    <2>3. /\ f[0] = NoEntry
          /\ \A i \in 1..Len(chain) : f[i] = Handled(f[i - 1], chain[i])
      BY <1>2, <2>2, ReplaySteps
    <2> QED BY <2>1, <2>3
  <1> QED BY <1>1, <1>2, <1>3, <1>4 DEF NodeFine, ReplayFine

(* A node where nothing happens, but that a message of its own may come    *)
(* into a block.                                                           *)
LEMMA NodeStays ==
  ASSUME TypeOK, AgreeInv, NEW n \in Nodes,
         entry'[n] = entry[n], call'[n] = call[n], ahead'[n] = ahead[n], seen'[n] = seen[n],
         Len(chain') \in Nat, Len(chain) <= Len(chain'),
         \A i \in 1..Len(chain) : chain'[i] = chain[i],
         \A i \in 0..Len(chain) : ReplayTo'[i] = ReplayTo[i],
         \A i \in 1..Len(pool[n]) :
           \/ \E j \in 1..Len(pool'[n]) : pool'[n][j] = pool[n][i]
           \/ /\ call[n] = NULL
              /\ \E j \in 1..Len(chain') : j > Len(chain) /\ chain'[j] = pool[n][i]
  PROVE  NodeFine(n)'
  <1>1. Pos(n)' = Pos(n) /\ Pos(n) \in 0..Len(chain) /\ Len(chain) \in Nat
    BY NodeFacts DEF Pos
  <1>2. ASSUME NEW kinds, Waiting(n, kinds) PROVE Waiting(n, kinds)'
    <2>1. ASSUME NEW i \in 1..Len(pool[n]), pool[n][i].kind \in kinds PROVE Waiting(n, kinds)'
      <3>1. CASE \E j \in 1..Len(pool'[n]) : pool'[n][j] = pool[n][i]
        BY <2>1, <3>1 DEF Waiting
      <3>2. CASE \E j \in 1..Len(chain') : j > Len(chain) /\ chain'[j] = pool[n][i]
        <4>1. PICK j \in 1..Len(chain') : j > Len(chain) /\ chain'[j] = pool[n][i]
          BY <3>2
        <4>2. j > Pos(n)' /\ chain'[j].kind \in kinds
          BY <1>1, <2>1, <4>1
        <4> QED BY <4>2 DEF Waiting
      <3> QED BY <3>1, <3>2
    <2>2. ASSUME NEW i \in 1..Len(chain), i > Pos(n), chain[i].kind \in kinds
          PROVE  Waiting(n, kinds)'
      <3>1. i \in 1..Len(chain') /\ chain'[i] = chain[i] /\ i > Pos(n)'
        BY <1>1, <2>2
      <3> QED BY <2>2, <3>1 DEF Waiting
    <2> QED BY <1>2, <2>1, <2>2 DEF Waiting
  <1>3. OneReader(n)'
    BY NodeFacts DEF OneReader
  <1>4. CallFine(n)'
    <2>1. CASE call[n] \in Setters
      <3>1. call[n] # NULL
        BY <2>1, ListingAssumption DEF Setters, Kinds
      <3>2. PICK i \in 1..Len(pool[n]) : Pos(n) > 0 /\ pool[n][i].kind = call[n]
        BY <2>1, NodeFacts DEF CallFine
      <3>3. PICK j \in 1..Len(pool'[n]) : pool'[n][j] = pool[n][i]
        BY <3>1
      <3>4. pool'[n][j].kind = call'[n]
        BY <3>2, <3>3
      <3> QED BY <1>1, <3>2, <3>4 DEF CallFine
    <2> QED BY <2>1 DEF CallFine
  <1>5. EntryFine(n)'
    BY <1>1, NodeFacts DEF EntryFine
  <1>6. Follows(n, entry[n], ReplayTo[Pos(n)])'
    BY <1>1, <1>2, NodeFacts DEF Follows
  <1> QED BY <1>3, <1>4, <1>5, <1>6 DEF NodeFine

(* The replay is the same as long as the chain is. *)
LEMMA ReplayKept ==
  ASSUME ReplayFine, chain' = chain
  PROVE  ReplayFine' /\ ReplayTo' = ReplayTo
  <1>1. ReplayTo' = ReplayTo
    BY DEF ReplayTo
  <1> QED BY <1>1 DEF ReplayFine, IsReplay

(* What a node still waits for after it has read a message of another kind. *)
LEMMA WaitingPasses ==
  ASSUME TypeOK, AgreeInv, NEW n \in Nodes, NEW p, p = Pos(n), p < Len(chain),
         Pos(n)' = p + 1, chain' = chain, pool'[n] = pool[n],
         NEW kinds, chain[p + 1].kind \notin kinds, Waiting(n, kinds)
  PROVE  Waiting(n, kinds)'
  <1>1. p \in Nat /\ Len(chain) \in Nat
    BY NodeFacts
  <1>2. CASE \E i \in 1..Len(pool[n]) : pool[n][i].kind \in kinds
    BY <1>2 DEF Waiting
  <1>3. ASSUME NEW i \in 1..Len(chain), i > p, chain[i].kind \in kinds
        PROVE  Waiting(n, kinds)'
    <2>1. i # p + 1
      BY <1>3
    <2>2. i > p + 1
      BY <1>1, <1>3, <2>1
    <2> QED BY <1>3, <2>2 DEF Waiting
  <1> QED BY <1>2, <1>3 DEF Waiting

(* The node reads the message after those it has read. *)
LEMMA ReadStep ==
  ASSUME TypeOK, AgreeInv, NEW n \in Nodes, NEW p, p = Pos(n), p < Len(chain),
         Pos(n)' = p + 1, OneReader(n)', entry'[n] = Handled(entry[n], chain[p + 1]),
         UNCHANGED <<call, pool, chain, ahead>>
  PROVE  NodeFine(n)'
  <1>1. PICK e, r, m : e = entry[n] /\ r = ReplayTo[p] /\ m = chain[p + 1]
    OBVIOUS
  <1>2. /\ p \in Nat /\ Len(chain) \in Nat /\ p + 1 \in 1..Len(chain) /\ (p + 1) - 1 = p
        /\ chain \in Seq(Messages) /\ m \in Messages /\ e \in Entries
    BY <1>1, NodeFacts
  <1>3. entry'[n] = Handled(e, m) /\ ReplayTo[p + 1] = Handled(r, m)
    <2>1. ReplayTo[p + 1] = Handled(ReplayTo[(p + 1) - 1], chain[p + 1])
      BY <1>2, NodeFacts
    <2> QED BY <1>1, <1>2, <2>1
  <1>4. ReplayTo'[p + 1] = Handled(r, m)
    <2>1. ReplayTo' = ReplayTo
      BY DEF ReplayTo
    <2> QED BY <1>3, <2>1
  <1>5. CallFine(n)'
    <2>1. CallFine(n) /\ Pos(n)' > 0
      BY <1>2, NodeFacts
    <2>2. call'[n] = call[n] /\ pool' = pool /\ p = Pos(n)
      OBVIOUS
    <2> QED BY <2>1, <2>2 DEF CallFine
  <1>6. Opened(Handled(e, m)) /\ Follows(n, Handled(e, m), Handled(r, m))'
    <2>1. CASE p = 0
      <3>1. e \in {NoEntry, Announcing} /\ ahead[n] = {} /\ r = NoEntry
        BY <1>1, <2>1, NodeFacts DEF EntryFine
      <3>2. m.kind = "LIST"
        BY <1>1, <1>2, <2>1 DEF AgreeInv, ListedFirst
      <3>3. Handled(e, m) = Handled(r, m)
        BY <3>1, <3>2, HandledFirst
      <3>4. Opened(Handled(e, m))
        <4>1. Handled(e, m) = [there |-> TRUE, status |-> "ACTIVE", seller |-> Seller,
                               buyer |-> NULL, tagged |-> TRUE, ratings |-> <<>>]
          BY <3>1, <3>2, HandledFirst
        <4> QED BY <4>1 DEF Opened
      <3> QED BY <3>1, <3>3, <3>4 DEF Follows
    <2>2. CASE p # 0
      <3>1. p \in 1..Len(chain)
        BY <1>2, <2>2
      <3>2. Opened(e) /\ Opened(r) /\ r \in Entries /\ Follows(n, e, r)
        BY <1>1, <2>2, <3>1, NodeFacts DEF EntryFine
      <3>3. /\ Opened(Handled(e, m))
            /\ Handled(e, m).status = StatusAfter(e.status, m)
            /\ Handled(e, m).buyer = BuyerAfter(e.buyer, m)
            /\ Handled(e, m).ratings = RatingsAfter(e.ratings, e.buyer, m)
        BY <1>2, <3>2, HandledLater
      <3>4. /\ Handled(r, m).status = StatusAfter(r.status, m)
            /\ Handled(r, m).buyer = BuyerAfter(r.buyer, m)
            /\ Handled(r, m).ratings = RatingsAfter(r.ratings, r.buyer, m)
        BY <1>2, <3>2, HandledLater
      <3>5. StatusAfter(e.status, m) = StatusAfter(r.status, m) \/ Waiting(n, Setters)'
        <4>1. CASE m.kind \in Setters
          BY <4>1 DEF Setters, StatusAfter
        <4>2. CASE m.kind \notin Setters
          <5>1. Waiting(n, Setters) => Waiting(n, Setters)'
            BY <1>1, <4>2, WaitingPasses
          <5>2. e.status = r.status \/ Waiting(n, Setters)
            BY <3>2 DEF Follows
          <5> QED BY <5>1, <5>2
        <4> QED BY <4>1, <4>2
      <3>6. BuyerAfter(e.buyer, m) = BuyerAfter(r.buyer, m) \/ "buyer" \in ahead[n]
              \/ Waiting(n, Offers)'
        <4>1. CASE m.kind \in Offers
          BY <4>1 DEF Offers, BuyerAfter
        <4>2. CASE m.kind \notin Offers
          <5>1. Waiting(n, Offers) => Waiting(n, Offers)'
            BY <1>1, <4>2, WaitingPasses
          <5>2. e.buyer = r.buyer \/ "buyer" \in ahead[n] \/ Waiting(n, Offers)
            BY <3>2 DEF Follows
          <5> QED BY <5>1, <5>2
        <4> QED BY <4>1, <4>2
      <3>7. "ratings" \in ahead[n] \/
              (ahead[n] = {} /\ e.buyer = r.buyer /\ e.ratings = r.ratings)
        BY <3>2 DEF Follows
      <3>8. ahead'[n] = ahead[n]
        OBVIOUS
      <3> QED BY <3>3, <3>4, <3>5, <3>6, <3>7, <3>8 DEF Follows
    <2> QED BY <2>1, <2>2
  <1>7. EntryFine(n)' /\ Follows(n, entry[n], ReplayTo[Pos(n)])'
    <2>1. Pos(n)' # 0
      BY <1>2
    <2>2. entry'[n] = Handled(e, m) /\ ReplayTo'[Pos(n)'] = Handled(r, m)
      BY <1>3, <1>4
    <2> QED BY <1>6, <2>1, <2>2 DEF EntryFine, Follows
  <1> QED BY <1>5, <1>7 DEF NodeFine

(* The sending of a message, where the listing was read before anything    *)
(* else is said of it.                                                     *)
LEMMA SubmitKeeps ==
  ASSUME TypeOK, AgreeInv, NEW n \in Nodes, NEW kind, NEW receiver, NEW outcome,
         Submit(n, kind, receiver, outcome), kind = "LIST" \/ Pos(n) > 0,
         \A k \in Nodes \ {n} : entry'[k] = entry[k] /\ ahead'[k] = ahead[k]
  PROVE  /\ ListedFirst' /\ ReplayFine' /\ ReplayTo' = ReplayTo
         /\ \A k \in Nodes \ {n} : NodeFine(k)'
         /\ Pos(n)' = Pos(n) /\ OneReader(n)' /\ CallFine(n)'
         /\ \A kinds : Waiting(n, kinds) => Waiting(n, kinds)'
         /\ outcome # "failed" => Waiting(n, {kind})'
  <1> DEFINE m == [kind |-> kind, sender |-> n, receiver |-> receiver]
  <1>1. /\ call[n] = NULL /\ UNCHANGED <<chain, seen>>
        /\ pool' = IF outcome = "failed" THEN pool ELSE [pool EXCEPT ![n] = Append(@, m)]
        /\ call' = IF outcome = "sent" THEN [call EXCEPT ![n] = kind] ELSE call
    BY DEF Submit
  <1>2. /\ pool \in [Nodes -> Seq(Messages)] /\ pool[n] \in Seq(Messages)
        /\ call \in [Nodes -> Kinds \cup {NULL}] /\ Len(chain) \in Nat /\ Pos(n) \in 0..Len(chain)
    BY NodeFacts DEF TypeOK
  <1>3. m.kind = kind
    OBVIOUS
  <1> HIDE DEF m
  <1>4. /\ \A k \in Nodes \ {n} : pool'[k] = pool[k] /\ call'[k] = call[k]
        /\ \A i \in 1..Len(pool[n]) : i \in 1..Len(pool'[n]) /\ pool'[n][i] = pool[n][i]
        /\ \A i \in 1..Len(pool'[n]) : i \in 1..Len(pool[n]) \/ pool'[n][i] = m
        /\ outcome # "failed" => \E i \in 1..Len(pool'[n]) : pool'[n][i] = m
    <2>1. CASE outcome = "failed"
      BY <1>1, <1>2, <2>1
    <2>2. CASE outcome # "failed"
      <3>1. PICK q : q = pool[n] /\ q \in Seq(Messages)
        BY <1>2
      <3>2. pool'[n] = Append(q, m)
        BY <1>1, <1>2, <2>2, <3>1
      <3>3. /\ \A i \in 1..Len(q) : i \in 1..Len(Append(q, m)) /\ Append(q, m)[i] = q[i]
            /\ \A i \in 1..Len(Append(q, m)) : i \in 1..Len(q) \/ Append(q, m)[i] = m
            /\ \E i \in 1..Len(Append(q, m)) : Append(q, m)[i] = m
        <4>1. Len(q) \in Nat /\ Len(Append(q, m)) = Len(q) + 1 /\ Append(q, m)[Len(q) + 1] = m
          BY <3>1
        <4>2. \A i \in 1..Len(q) : Append(q, m)[i] = q[i]
          BY <3>1
        <4>3. Len(q) + 1 \in 1..Len(Append(q, m))
          BY <4>1
        <4> QED BY <4>1, <4>2, <4>3
      <3>4. \A k \in Nodes \ {n} : pool'[k] = pool[k] /\ call'[k] = call[k]
        BY <1>1, <1>2
      <3> QED BY <3>1, <3>2, <3>3, <3>4
    <2> QED BY <2>1, <2>2
  <1>5. ReplayTo' = ReplayTo
    BY <1>1 DEF ReplayTo
  <1>6. ReplayFine'
    BY <1>1, ReplayKept DEF AgreeInv
  <1>7. ListedFirst'
    <2>1. CASE Len(chain) > 0
      BY <1>1, <2>1 DEF AgreeInv, ListedFirst
    <2>2. CASE Len(chain) = 0
      <3>1. kind = "LIST"
        BY <1>2, <2>2
      <3>2. \A k \in Nodes : \A i \in 1..Len(pool[k]) : pool[k][i].kind = "LIST"
        BY <2>2 DEF AgreeInv, ListedFirst
      <3>3. \A i \in 1..Len(pool'[n]) : pool'[n][i].kind = "LIST"
        BY <1>3, <1>4, <3>1, <3>2
      <3>4. \A k \in Nodes : \A i \in 1..Len(pool'[k]) : pool'[k][i].kind = "LIST"
        BY <1>4, <3>2, <3>3
      <3> QED BY <1>1, <2>2, <3>4 DEF ListedFirst
    <2> QED BY <1>2, <2>1, <2>2
  <1>8. ASSUME NEW k \in Nodes \ {n} PROVE NodeFine(k)'
    <2>1. /\ entry'[k] = entry[k] /\ call'[k] = call[k] /\ ahead'[k] = ahead[k]
          /\ seen'[k] = seen[k] /\ pool'[k] = pool[k] /\ chain' = chain /\ k \in Nodes
      BY <1>1, <1>4
    <2>2. /\ Len(chain') \in Nat /\ Len(chain) <= Len(chain')
          /\ \A i \in 1..Len(chain) : chain'[i] = chain[i]
          /\ \A i \in 0..Len(chain) : ReplayTo'[i] = ReplayTo[i]
          /\ \A i \in 1..Len(pool[k]) : \E j \in 1..Len(pool'[k]) : pool'[k][j] = pool[k][i]
      BY <1>2, <1>5, <2>1
    <2> QED BY <2>1, <2>2, NodeStays
  <1>9. Pos(n)' = Pos(n) /\ OneReader(n)'
    BY <1>1, NodeFacts DEF Pos, OneReader
  <1>10. ASSUME NEW kinds, Waiting(n, kinds) PROVE Waiting(n, kinds)'
    BY <1>1, <1>4, <1>9, <1>10 DEF Waiting
  <1>11. outcome # "failed" => Waiting(n, {kind})'
    BY <1>3, <1>4 DEF Waiting
  <1>12. CallFine(n)'
    <2>1. call'[n] = NULL \/ (call'[n] = kind /\ outcome # "failed")
      BY <1>1, <1>2
    <2>2. NULL \notin Setters /\ "LIST" \notin Setters
      BY ListingAssumption DEF Setters, Kinds
    <2>3. outcome # "failed" => \E i \in 1..Len(pool'[n]) : pool'[n][i].kind = kind
      BY <1>3, <1>4
    <2> QED BY <1>9, <2>1, <2>2, <2>3 DEF CallFine
  <1> QED BY <1>5, <1>6, <1>7, <1>8, <1>9, <1>10, <1>11, <1>12

(* A call: what it writes ahead is what its message will say, or is noted. *)
LEMMA CallStep ==
  ASSUME TypeOK, AgreeInv, NEW n \in Nodes, NEW kind, NEW receiver, NEW outcome,
         Submit(n, kind, receiver, outcome), kind = "LIST" \/ Pos(n) > 0,
         NEW e, entry' = [entry EXCEPT ![n] = e], e.status = entry[n].status,
         NEW h, ahead' = [ahead EXCEPT ![n] = h],
         IF Pos(n) = 0 THEN e \in {NoEntry, Announcing} ELSE Opened(e),
         \/ h = ahead[n] /\ e.buyer = entry[n].buyer /\ e.ratings = entry[n].ratings
         \/ /\ Pos(n) > 0 /\ "ratings" \in h
            /\ "buyer" \in h \/ (outcome # "failed" /\ kind \in Offers)
  PROVE  AgreeInv'
  <1>1. /\ entry'[n] = e /\ ahead'[n] = h
        /\ \A k \in Nodes \ {n} : entry'[k] = entry[k] /\ ahead'[k] = ahead[k]
    BY DEF TypeOK
  <1>2. /\ ListedFirst' /\ ReplayFine' /\ ReplayTo' = ReplayTo
        /\ \A k \in Nodes \ {n} : NodeFine(k)'
        /\ Pos(n)' = Pos(n) /\ OneReader(n)' /\ CallFine(n)'
        /\ \A kinds : Waiting(n, kinds) => Waiting(n, kinds)'
        /\ outcome # "failed" => Waiting(n, {kind})'
    BY <1>1, SubmitKeeps
  <1>3. PICK r : r = ReplayTo[Pos(n)]
    OBVIOUS
  <1>4. EntryFine(n) /\ Follows(n, entry[n], r) /\ Pos(n) \in Nat
    BY <1>3, NodeFacts
  <1>5. EntryFine(n)'
    BY <1>1, <1>2, <1>4 DEF EntryFine
  <1>6. outcome # "failed" /\ kind \in Offers => Waiting(n, Offers)'
    BY <1>2 DEF Waiting
  <1>7. Follows(n, e, r)'
    <2>1. e.status = r.status \/ Waiting(n, Setters)'
      BY <1>2, <1>4 DEF Follows
    <2>2. "buyer" \in h \/ e.buyer = r.buyer \/ Waiting(n, Offers)'
      BY <1>2, <1>4, <1>6 DEF Follows
    <2>3. "ratings" \in h \/ (h = {} /\ e.buyer = r.buyer /\ e.ratings = r.ratings)
      BY <1>4 DEF Follows
    <2> QED BY <1>1, <2>1, <2>2, <2>3 DEF Follows
  <1>8. Follows(n, entry[n], ReplayTo[Pos(n)])'
    BY <1>1, <1>2, <1>3, <1>7 DEF Follows
  <1>9. NodeFine(n)'
    BY <1>2, <1>5, <1>8 DEF NodeFine
  <1> QED BY <1>2, <1>9 DEF AgreeInv

(* A node that shows a status has read the message that opened the listing. *)
LEMMA ShownIsRead ==
  ASSUME TypeOK, AgreeInv, NEW n \in Nodes
  PROVE  /\ entry[n].status # "INACTIVE" => Pos(n) > 0
         /\ entry[n].there /\ entry[n].buyer # NULL => Pos(n) > 0
         /\ ~entry[n].there => Pos(n) = 0
         /\ Pos(n) > 0 => Opened(entry[n])
         /\ Pos(n) = 0 => entry[n] \in {NoEntry, Announcing}
  <1>1. EntryFine(n) /\ Pos(n) \in Nat
    BY NodeFacts
  <1>2. /\ NoEntry.status = "INACTIVE" /\ ~NoEntry.there
        /\ Announcing.status = "INACTIVE" /\ Announcing.buyer = NULL
    BY ZerosAre
  <1> QED BY <1>1, <1>2 DEF EntryFine, Opened

LEMMA ListStep ==
  ASSUME TypeOK, AgreeInv, NEW n \in Nodes, NEW outcome, List(n, outcome)
  PROVE  AgreeInv'
  <1>1. /\ n = Seller /\ ~entry[n].there /\ Submit(n, "LIST", NULL, outcome)
        /\ entry' = [entry EXCEPT ![n] = Announcing] /\ ahead' = ahead
    BY DEF List, Announcing
  <1>2. Pos(n) = 0 /\ entry[n] = NoEntry
    BY <1>1, ShownIsRead DEF TypeOK
  <1>3. /\ Announcing.status = entry[n].status /\ Announcing.buyer = entry[n].buyer
        /\ Announcing.ratings = entry[n].ratings
    BY <1>2, ZerosAre
  <1>4. ahead' = [ahead EXCEPT ![n] = ahead[n]]
    BY <1>1 DEF TypeOK
  <1> QED BY <1>1, <1>2, <1>3, <1>4, CallStep

LEMMA CancelStep ==
  ASSUME TypeOK, AgreeInv, NEW n \in Nodes, NEW outcome, Cancel(n, outcome)
  PROVE  AgreeInv'
  <1>1. /\ entry[n].status # "INACTIVE" /\ Submit(n, "CANCEL", entry[n].buyer, outcome)
        /\ UNCHANGED <<entry, ahead>>
    BY DEF Cancel
  <1>2. Pos(n) > 0 /\ Pos(n) # 0 /\ Opened(entry[n])
    BY <1>1, ShownIsRead
  <1>3. /\ ahead' = [ahead EXCEPT ![n] = ahead[n]]
        /\ entry' = [entry EXCEPT ![n] = entry[n]]
    BY <1>1 DEF TypeOK
  <1> QED BY <1>1, <1>2, <1>3, CallStep

LEMMA FeedbackStep ==
  ASSUME TypeOK, AgreeInv, NEW n \in Nodes, NEW outcome, Feedback(n, outcome)
  PROVE  AgreeInv'
  <1>1. PICK other : other = IF entry[n].buyer = n THEN entry[n].seller ELSE entry[n].buyer
    OBVIOUS
  <1>2. /\ entry[n].there /\ other # NULL /\ Submit(n, "FEEDBACK", other, outcome)
        /\ UNCHANGED <<entry, ahead>>
    BY <1>1 DEF Feedback
  <1>3. entry[n].buyer # NULL
    BY <1>1, <1>2, ListingAssumption
  <1>4. Pos(n) > 0 /\ Pos(n) # 0 /\ Opened(entry[n])
    BY <1>2, <1>3, ShownIsRead
  <1>5. /\ ahead' = [ahead EXCEPT ![n] = ahead[n]]
        /\ entry' = [entry EXCEPT ![n] = entry[n]]
    BY <1>2 DEF TypeOK
  <1> QED BY <1>2, <1>4, <1>5, CallStep

(* makeoffer_func and acceptoffer_func. *)
LEMMA OfferStep ==
  ASSUME TypeOK, AgreeInv, NEW n \in Nodes, NEW outcome, NEW b, WriteBuyer(n, b, outcome),
         NEW kind \in Offers, NEW receiver, Submit(n, kind, receiver, outcome),
         entry[n].status # "INACTIVE"
  PROVE  AgreeInv'
  <1>1. PICK e, h : /\ e = [entry[n] EXCEPT !.buyer = b]
                    /\ h = ahead[n] \cup {"ratings"} \cup
                             (IF outcome = "failed" THEN {"buyer"} ELSE {})
    OBVIOUS
  <1>2. entry' = [entry EXCEPT ![n] = e] /\ ahead' = [ahead EXCEPT ![n] = h]
    BY <1>1 DEF WriteBuyer
  <1>3. Pos(n) > 0 /\ Pos(n) # 0 /\ Opened(entry[n]) /\ entry[n] \in Entries
    BY ShownIsRead, NodeFacts
  <1>4. e.status = entry[n].status /\ Opened(e)
    BY <1>1, <1>3 DEF Opened, Entries
  <1>5. "ratings" \in h /\ ("buyer" \in h \/ outcome # "failed")
    BY <1>1
  <1> QED BY <1>2, <1>3, <1>4, <1>5, CallStep

(* A call returns and writes the status that its message will set. *)
LEMMA ReturnStep ==
  ASSUME TypeOK, AgreeInv, NEW n \in Nodes, Return(n)
  PROVE  AgreeInv'
  <1>1. /\ UNCHANGED <<pool, chain, seen, ahead, used>>
        /\ call' = [call EXCEPT ![n] = NULL]
    BY DEF Return
  <1>2. PICK e : e = entry'[n]
    OBVIOUS
  <1>3. /\ \A k \in Nodes \ {n} : entry'[k] = entry[k] /\ call'[k] = call[k]
        /\ call'[n] = NULL
    BY DEF Return, TypeOK
  <1>4. IF call[n] \in Setters
          THEN /\ e.status # "INACTIVE" /\ e.there = entry[n].there /\ e.tagged = entry[n].tagged
               /\ e.seller = entry[n].seller /\ e.buyer = entry[n].buyer
               /\ e.ratings = entry[n].ratings
          ELSE e = entry[n]
    <2>1. PICK d, c : d = entry[n] /\ c = call[n]
      OBVIOUS
    <2>2. /\ d \in Entries
          /\ e = [d EXCEPT !.status = CASE c = "CANCEL"    -> "CANCELLED"
                                        [] c = "MAKEOFFER" -> "OFFERED"
                                        [] c = "ACCEPT"    -> "ACCEPTED"
                                        [] OTHER           -> @]
      BY <1>2, <2>1 DEF Return, TypeOK
    <2>3. CASE c \in Setters
      BY <2>1, <2>2, <2>3 DEF Setters, Entries
    <2>4. CASE c \notin Setters
      BY <2>1, <2>2, <2>4 DEF Setters, Entries
    <2> QED BY <2>1, <2>3, <2>4
  <1>5. ListedFirst' /\ ReplayFine' /\ ReplayTo' = ReplayTo
    BY <1>1, ReplayKept DEF AgreeInv, ListedFirst
  <1>6. ASSUME NEW k \in Nodes, k # n PROVE NodeFine(k)'
    <2>1. /\ Len(chain') \in Nat /\ Len(chain) <= Len(chain')
          /\ \A i \in 1..Len(chain) : chain'[i] = chain[i]
          /\ \A i \in 0..Len(chain) : ReplayTo'[i] = ReplayTo[i]
          /\ \A i \in 1..Len(pool[k]) : \E j \in 1..Len(pool'[k]) : pool'[k][j] = pool[k][i]
          /\ entry'[k] = entry[k] /\ call'[k] = call[k] /\ ahead'[k] = ahead[k]
          /\ seen'[k] = seen[k]
      BY <1>1, <1>3, <1>5, <1>6, NodeFacts
    <2> QED BY <2>1, NodeStays
  <1>7. PICK r : r = ReplayTo[Pos(n)]
    OBVIOUS
  <1>8. /\ OneReader(n) /\ CallFine(n) /\ EntryFine(n) /\ Follows(n, entry[n], r)
        /\ Pos(n) \in Nat
    BY <1>7, NodeFacts
  <1>9. Pos(n)' = Pos(n) /\ (\A kinds : Waiting(n, kinds) => Waiting(n, kinds)')
    BY <1>1 DEF Pos, Waiting
  <1>10. CallFine(n)' /\ OneReader(n)'
    BY <1>1, <1>3, <1>8, ListingAssumption DEF CallFine, OneReader, Setters, Kinds
  <1>11. call[n] \in Setters => Waiting(n, Setters) /\ Pos(n) # 0
    BY <1>8 DEF CallFine, Waiting
  <1>12. EntryFine(n)'
    BY <1>1, <1>2, <1>4, <1>8, <1>9, <1>11 DEF EntryFine, Opened
  <1>13. Follows(n, entry[n], ReplayTo[Pos(n)])'
    <2>1. e.status = r.status \/ Waiting(n, Setters)'
      BY <1>4, <1>8, <1>9, <1>11 DEF Follows
    <2>2. e.buyer = entry[n].buyer /\ e.ratings = entry[n].ratings
      BY <1>4
    <2>3. /\ "buyer" \in ahead'[n] \/ e.buyer = r.buyer \/ Waiting(n, Offers)'
          /\ "ratings" \in ahead'[n] \/ (ahead'[n] = {} /\ e.buyer = r.buyer /\ e.ratings = r.ratings)
      BY <1>1, <1>8, <1>9, <2>2 DEF Follows
    <2>4. ReplayTo'[Pos(n)'] = r
      BY <1>5, <1>7, <1>9
    <2> QED BY <1>2, <2>1, <2>3, <2>4 DEF Follows
  <1> QED BY <1>5, <1>6, <1>10, <1>12, <1>13 DEF NodeFine, AgreeInv

(* Taking one element out of a sequence leaves the others. *)
LEMMA OthersRemain ==
  ASSUME NEW T, NEW q \in Seq(T), NEW i \in 1..Len(q), NEW j \in 1..Len(q), j # i
  PROVE  \E k \in 1..Len(RemoveAt(q, i)) : RemoveAt(q, i)[k] = q[j]
  <1>1. Len(q) \in Nat /\ i \in Nat /\ j \in Nat
    OBVIOUS
  <1>2. PICK x, y : x = SubSeq(q, 1, i - 1) /\ y = SubSeq(q, i + 1, Len(q))
    OBVIOUS
  <1>3. /\ x \in Seq(T) /\ Len(x) = i - 1 /\ \A k \in 1..(i - 1) : x[k] = q[k]
        /\ y \in Seq(T) /\ Len(y) = Len(q) - i /\ \A k \in 1..(Len(q) - i) : y[k] = q[i + k]
    BY <1>1, <1>2
  <1>4. RemoveAt(q, i) = x \o y
    BY <1>2 DEF RemoveAt
  <1>5. Len(x \o y) = Len(q) - 1
    <2>1. x \in Seq(T) /\ y \in Seq(T)
      BY <1>3
    <2>2. Len(x \o y) = Len(x) + Len(y)
      BY <2>1
    <2> QED BY <1>1, <1>3, <2>2
  <1>6. CASE j < i
    <2>1. j \in 1..Len(x) /\ j \in 1..Len(x \o y) /\ (x \o y)[j] = x[j] /\ x[j] = q[j]
      BY <1>1, <1>3, <1>5, <1>6
    <2> QED BY <1>4, <2>1
  <1>7. CASE j > i
    <2>1. /\ j - 1 \in 1..Len(x \o y) /\ j - 1 > Len(x) /\ (j - 1) - Len(x) = j - i
          /\ j - i \in 1..(Len(q) - i) /\ i + (j - i) = j
      BY <1>1, <1>3, <1>5, <1>7
    <2>2. (x \o y)[j - 1] = y[j - i]
      BY <1>3, <2>1
    <2>3. y[j - i] = q[j]
      BY <1>3, <2>1
    <2> QED BY <1>4, <2>1, <2>2, <2>3
  <1> QED BY <1>1, <1>6, <1>7

(* A message comes into a block. *)
LEMMA ForgeStep ==
  ASSUME Prompt, TypeOK, AgreeInv, NEW n \in Nodes, NEW i \in 1..Len(pool[n]), Forge(n, i)
  PROVE  AgreeInv'
  <1>1. PICK m : m = pool[n][i]
    OBVIOUS
  <1>2. /\ call[n] = NULL /\ chain' = Append(chain, m)
        /\ pool' = [pool EXCEPT ![n] = RemoveAt(pool[n], i)]
        /\ UNCHANGED <<entry, call, seen, ahead, used>>
    BY <1>1 DEF Forge
  <1>3. /\ chain \in Seq(Messages) /\ Len(chain) \in Nat /\ pool[n] \in Seq(Messages)
        /\ m \in Messages /\ pool \in [Nodes -> Seq(Messages)]
    BY <1>1 DEF TypeOK
  <1>4. /\ Len(chain') = Len(chain) + 1 /\ chain'[Len(chain) + 1] = m
        /\ \A j \in 1..Len(chain) : chain'[j] = chain[j]
    BY <1>2, <1>3
  <1>5. ReplayFine
    BY DEF AgreeInv
  <1>6. /\ IsReplay(chain, ReplayTo)'
        /\ \A j \in 0..Len(chain) : ReplayTo'[j] = ReplayTo[j]
        /\ ReplayTo'[Len(chain) + 1] = Handled(ReplayTo[Len(chain)], m)
    BY <1>2, <1>3, <1>5, ReplayGrows DEF ReplayFine
  <1>7. Len(chain) = 0 => m.kind = "LIST"
    BY <1>1 DEF AgreeInv, ListedFirst
  <1>8. Handled(ReplayTo[Len(chain)], m) \in Entries /\ Opened(Handled(ReplayTo[Len(chain)], m))
    <2>1. PICK r : r = ReplayTo[Len(chain)]
      OBVIOUS
    <2>2. CASE Len(chain) = 0
      <3>1. r = NoEntry
        BY <2>1, <2>2, NodeFacts
      <3>2. Handled(r, m) = [there |-> TRUE, status |-> "ACTIVE", seller |-> Seller,
                             buyer |-> NULL, tagged |-> TRUE, ratings |-> <<>>]
        BY <1>7, <2>2, <3>1, HandledFirst
      <3>3. Opened(Handled(r, m))
        BY <3>2 DEF Opened
      <3> QED BY <1>3, <2>1, <3>1, <3>3, EntriesOfZeros, HandledIsEntry
    <2>3. CASE Len(chain) # 0
      <3>1. Len(chain) \in 1..Len(chain)
        BY <1>3, <2>3
      <3>2. r \in Entries /\ Opened(r)
        BY <1>5, <2>1, <3>1 DEF ReplayFine
      <3> QED BY <1>3, <2>1, <3>2, HandledIsEntry, HandledLater
    <2> QED BY <2>2, <2>3
  <1>9. ReplayFine'
    <2>1. ASSUME NEW j \in 1..Len(chain') PROVE ReplayTo'[j] \in Entries /\ Opened(ReplayTo'[j])
      <3>1. j \in 1..Len(chain) \/ j = Len(chain) + 1
        BY <1>3, <1>4
      <3>2. CASE j \in 1..Len(chain)
        BY <1>3, <1>5, <1>6, <3>2 DEF ReplayFine
      <3>3. CASE j = Len(chain) + 1
        BY <1>6, <1>8, <3>3
      <3> QED BY <3>1, <3>2, <3>3
    <2>2. Entries' = Entries /\ \A e : Opened(e)' <=> Opened(e)
      BY DEF Entries, Opened
    <2> QED BY <1>6, <2>1, <2>2 DEF ReplayFine, Opened
  <1>10. ListedFirst'
    <2>1. chain'[1].kind = "LIST"
      <3>1. CASE Len(chain) = 0
        BY <1>4, <1>7, <3>1
      <3>2. CASE Len(chain) # 0
        BY <1>3, <1>4, <3>2 DEF AgreeInv, ListedFirst
      <3> QED BY <3>1, <3>2
    <2> QED BY <1>3, <1>4, <2>1 DEF ListedFirst
  <1>11. ASSUME NEW k \in Nodes PROVE NodeFine(k)'
    <2>1. ASSUME NEW j \in 1..Len(pool[k])
          PROVE  \/ \E l \in 1..Len(pool'[k]) : pool'[k][l] = pool[k][j]
                 \/ /\ call[k] = NULL
                    /\ \E l \in 1..Len(chain') : l > Len(chain) /\ chain'[l] = pool[k][j]
      <3>1. CASE k # n
        BY <1>2, <1>3, <3>1
      <3>2. CASE k = n /\ j = i
        <4>1. Len(chain) + 1 \in 1..Len(chain') /\ Len(chain) + 1 > Len(chain)
          BY <1>3, <1>4
        <4>2. chain'[Len(chain) + 1] = pool[k][j]
          BY <1>1, <1>4, <3>2
        <4> QED BY <1>2, <3>2, <4>1, <4>2
      <3>3. CASE k = n /\ j # i
        <4>1. pool'[n] = RemoveAt(pool[n], i)
          BY <1>2, <1>3
        <4>2. PICK q : q = pool[n] /\ q \in Seq(Messages) /\ i \in 1..Len(q) /\ j \in 1..Len(q)
          BY <1>3, <3>3
        <4>3. \E l \in 1..Len(RemoveAt(q, i)) : RemoveAt(q, i)[l] = q[j]
          BY <3>3, <4>2, OthersRemain
        <4> QED BY <3>3, <4>1, <4>2, <4>3
      <3> QED BY <3>1, <3>2, <3>3
    <2>2. /\ Len(chain') \in Nat /\ Len(chain) <= Len(chain')
          /\ entry'[k] = entry[k] /\ call'[k] = call[k] /\ ahead'[k] = ahead[k]
          /\ seen'[k] = seen[k]
      BY <1>2, <1>3, <1>4
    <2> QED BY <1>4, <1>6, <2>1, <2>2, NodeStays
  <1> QED BY <1>9, <1>10, <1>11 DEF AgreeInv

(* Of the others nothing changes when a node reads or starts again. *)
LEMMA OneNodeStep ==
  ASSUME TypeOK, AgreeInv, NEW n \in Nodes, UNCHANGED <<pool, chain>>,
         \A k \in Nodes \ {n} : /\ entry'[k] = entry[k] /\ call'[k] = call[k]
                                /\ ahead'[k] = ahead[k] /\ seen'[k] = seen[k],
         NodeFine(n)'
  PROVE  AgreeInv'
  <1>1. ListedFirst' /\ ReplayFine' /\ ReplayTo' = ReplayTo
    BY ReplayKept DEF AgreeInv, ListedFirst
  <1>2. ASSUME NEW k \in Nodes, k # n PROVE NodeFine(k)'
    <2>1. /\ Len(chain') \in Nat /\ Len(chain) <= Len(chain')
          /\ \A i \in 1..Len(chain) : chain'[i] = chain[i]
          /\ \A i \in 0..Len(chain) : ReplayTo'[i] = ReplayTo[i]
          /\ \A i \in 1..Len(pool[k]) : \E j \in 1..Len(pool'[k]) : pool'[k][j] = pool[k][i]
      BY <1>1, NodeFacts
    <2>2. entry'[k] = entry[k] /\ call'[k] = call[k] /\ ahead'[k] = ahead[k] /\ seen'[k] = seen[k]
      BY <1>2
    <2> QED BY <2>1, <2>2, NodeStays
  <1> QED BY <1>1, <1>2 DEF AgreeInv

LEMMA ReadHistoryStep ==
  ASSUME TypeOK, AgreeInv, NEW n \in Nodes, ReadHistory(n)
  PROVE  AgreeInv'
  <1>1. /\ seen[n].hist < seen[n].start
        /\ seen' = [seen EXCEPT ![n] = [seen[n] EXCEPT !.hist = @ + 1]]
        /\ entry' = [entry EXCEPT ![n] = Handled(entry[n], chain[seen[n].hist + 1])]
        /\ UNCHANGED <<call, pool, chain, ahead>>
    BY DEF ReadHistory
  <1>2. PICK s : s = seen[n] /\ s \in [hist : Nat, start : Nat, real : Nat]
    BY NodeFacts
  <1>3. /\ s.hist < s.start /\ s.real = s.start /\ Pos(n) = s.hist
        /\ s.real <= Len(chain) /\ Len(chain) \in Nat
    BY <1>1, <1>2, NodeFacts DEF OneReader, Pos, TypeOK
  <1>4. seen'[n] = [s EXCEPT !.hist = @ + 1] /\ \A k \in Nodes \ {n} : seen'[k] = seen[k]
    BY <1>1, <1>2 DEF TypeOK
  <1>5. seen'[n].hist = s.hist + 1 /\ seen'[n].start = s.start /\ seen'[n].real = s.real
    BY <1>2, <1>4
  <1>6. Pos(n)' = s.hist + 1 /\ OneReader(n)'
    BY <1>2, <1>3, <1>5 DEF Pos, OneReader
  <1>7. /\ entry'[n] = Handled(entry[n], chain[s.hist + 1])
        /\ \A k \in Nodes \ {n} : entry'[k] = entry[k]
    BY <1>1, <1>2 DEF TypeOK
  <1>8. s.hist < Len(chain)
    BY <1>2, <1>3
  <1>9. NodeFine(n)'
    BY <1>1, <1>3, <1>6, <1>7, <1>8, ReadStep
  <1> QED BY <1>1, <1>4, <1>7, <1>9, OneNodeStep

LEMMA ReadNewsStep ==
  ASSUME Quiet, TypeOK, AgreeInv, NEW n \in Nodes, ReadNews(n)
  PROVE  AgreeInv'
  <1>1. /\ seen[n].real < Len(chain) /\ seen[n].hist = seen[n].start
        /\ seen' = [seen EXCEPT ![n] = [seen[n] EXCEPT !.real = @ + 1]]
        /\ entry' = [entry EXCEPT ![n] = Handled(entry[n], chain[seen[n].real + 1])]
        /\ UNCHANGED <<call, pool, chain, ahead>>
    BY DEF ReadNews
  <1>2. PICK s : s = seen[n] /\ s \in [hist : Nat, start : Nat, real : Nat]
    BY NodeFacts
  <1>3. s.hist = s.start /\ Pos(n) = s.real /\ s.real < Len(chain)
    BY <1>1, <1>2 DEF Pos
  <1>4. seen'[n] = [s EXCEPT !.real = @ + 1] /\ \A k \in Nodes \ {n} : seen'[k] = seen[k]
    BY <1>1, <1>2 DEF TypeOK
  <1>5. seen'[n].hist = s.hist /\ seen'[n].start = s.start /\ seen'[n].real = s.real + 1
    BY <1>2, <1>4
  <1>6. Pos(n)' = s.real + 1 /\ OneReader(n)'
    BY <1>2, <1>3, <1>5 DEF Pos, OneReader
  <1>7. /\ entry'[n] = Handled(entry[n], chain[s.real + 1])
        /\ \A k \in Nodes \ {n} : entry'[k] = entry[k]
    BY <1>1, <1>2 DEF TypeOK
  <1>8. NodeFine(n)'
    BY <1>1, <1>3, <1>6, <1>7, ReadStep
  <1> QED BY <1>1, <1>4, <1>7, <1>8, OneNodeStep

(* A node that starts again has read nothing and holds nothing. *)
LEMMA RestartStep ==
  ASSUME TypeOK, AgreeInv, NEW n \in Nodes, Restart(n)
  PROVE  AgreeInv'
  <1>1. /\ entry' = [entry EXCEPT ![n] = NoEntry] /\ call' = [call EXCEPT ![n] = NULL]
        /\ seen' = [seen EXCEPT ![n] = [hist |-> 0, start |-> Len(chain), real |-> Len(chain)]]
        /\ ahead' = [ahead EXCEPT ![n] = {}] /\ UNCHANGED <<pool, chain>>
    BY DEF Restart
  <1>2. PICK s : s = [hist |-> 0, start |-> Len(chain), real |-> Len(chain)]
    OBVIOUS
  <1>3. /\ seen'[n] = s /\ entry'[n] = NoEntry /\ call'[n] = NULL /\ ahead'[n] = {}
        /\ \A k \in Nodes \ {n} : /\ entry'[k] = entry[k] /\ call'[k] = call[k]
                                  /\ ahead'[k] = ahead[k] /\ seen'[k] = seen[k]
    BY <1>1, <1>2 DEF TypeOK
  <1>4. s.hist = 0 /\ s.start = Len(chain) /\ s.real = Len(chain) /\ Len(chain) \in Nat
    BY <1>2, NodeFacts
  <1>5. Pos(n)' = 0 /\ OneReader(n)'
    BY <1>3, <1>4 DEF Pos, OneReader
  <1>6. ReplayTo'[0] = NoEntry
    BY <1>1, NodeFacts, ReplayKept DEF AgreeInv
  <1>7. CallFine(n)' /\ EntryFine(n)'
    BY <1>3, <1>5, ListingAssumption DEF CallFine, EntryFine, Setters, Kinds
  <1>8. Follows(n, entry[n], ReplayTo[Pos(n)])'
    BY <1>3, <1>5, <1>6 DEF Follows
  <1>9. NodeFine(n)'
    BY <1>5, <1>7, <1>8 DEF NodeFine
  <1> QED BY <1>1, <1>3, <1>9, OneNodeStep

LEMMA AgreeInit ==
  ASSUME Init
  PROVE  AgreeInv
  <1>1. /\ chain = <<>> /\ Len(chain) = 0
        /\ \A n \in Nodes : /\ entry[n] = NoEntry /\ call[n] = NULL /\ pool[n] = <<>>
                            /\ Len(pool[n]) = 0
                            /\ seen[n] = [hist |-> 0, start |-> 0, real |-> 0] /\ ahead[n] = {}
    BY DEF Init
  <1>2. IsReplay(chain, ReplayTo) /\ ReplayTo[0] = NoEntry
    <2>1. PICK f : f = [i \in {0} |-> NoEntry]
      OBVIOUS
    <2>2. 0..Len(chain) = {0}
      BY <1>1
    <2>3. f = [i \in 0..Len(chain) |-> IF i = 0 THEN NoEntry ELSE Handled(f[i - 1], chain[i])]
      BY <2>1, <2>2
    <2>4. IsReplay(chain, ReplayTo)
      BY <2>3, ReplayToIs DEF IsReplay
    <2>5. PICK g : g = ReplayTo
      OBVIOUS
    <2>6. chain \in Seq(Messages)
      BY <1>1
    <2>7. g[0] = NoEntry
      BY <2>4, <2>5, <2>6, ReplaySteps
    <2> QED BY <2>4, <2>5, <2>7
  <1>3. ListedFirst /\ ReplayFine
    BY <1>1, <1>2 DEF ListedFirst, ReplayFine
  <1>4. ASSUME NEW n \in Nodes PROVE NodeFine(n)
    <2>1. Pos(n) = 0 /\ OneReader(n)
      BY <1>1 DEF Pos, OneReader
    <2>2. CallFine(n) /\ EntryFine(n)
      BY <1>1, <2>1, ListingAssumption DEF CallFine, EntryFine, Setters, Kinds
    <2>3. Follows(n, entry[n], ReplayTo[Pos(n)])
      BY <1>1, <1>2, <2>1 DEF Follows
    <2> QED BY <2>1, <2>2, <2>3 DEF NodeFine
  <1> QED BY <1>3, <1>4 DEF AgreeInv

LEMMA AgreeInvMeans ==
  ASSUME TypeOK, AgreeInv
  PROVE  NodesAgree
  <1> SUFFICES ASSUME NEW n \in Nodes, CaughtUp(n) PROVE Agrees(n)
    BY DEF NodesAgree
  <1>1. PICK e, r : e = entry[n] /\ r = ReplayTo[Len(chain)]
    OBVIOUS
  <1>2. Pos(n) = Len(chain) /\ pool[n] = <<>>
    BY NodeFacts DEF CaughtUp, Pos
  <1>3. ~Waiting(n, Setters) /\ ~Waiting(n, Offers)
    <2>1. Len(pool[n]) = 0 /\ Len(chain) \in Nat
      BY <1>2, NodeFacts
    <2> QED BY <1>2, <2>1 DEF Waiting
  <1>4. Follows(n, e, r) /\ EntryFine(n) /\ Len(chain) \in Nat
    BY <1>1, <1>2, NodeFacts
  <1>5. /\ e.status = r.status
        /\ "buyer" \notin ahead[n] => e.buyer = r.buyer
        /\ "ratings" \notin ahead[n] => e.ratings = r.ratings
    BY <1>3, <1>4 DEF Follows
  <1>6. e.tagged = r.tagged /\ (r.there => e.seller = r.seller)
    <2>1. CASE Len(chain) = 0
      <3>1. e \in {NoEntry, Announcing} /\ r = NoEntry
        BY <1>1, <1>2, <1>4, <2>1, NodeFacts DEF EntryFine
      <3>2. NoEntry.tagged = FALSE /\ Announcing.tagged = FALSE /\ NoEntry.there = FALSE
        BY ZerosAre
      <3> QED BY <3>1, <3>2
    <2>2. CASE Len(chain) # 0
      <3>1. Len(chain) \in 1..Len(chain)
        BY <1>4, <2>2
      <3>2. Opened(e) /\ Opened(r) /\ e \in Entries /\ r \in Entries
        BY <1>1, <1>2, <1>4, <2>2, <3>1, NodeFacts DEF EntryFine
      <3> QED BY <3>2 DEF Opened, Entries
    <2> QED BY <2>1, <2>2
  <1>7. <<e.status, e.tagged>> = <<r.status, r.tagged>>
    BY <1>5, <1>6
  <1> QED BY <1>1, <1>5, <1>6, <1>7, Zenon DEF Agrees, Replay

(* The settings in which a call returns before its message is in a block,  *)
(* no news is read before the history, and no offer is accepted for a      *)
(* listing that is in no block.                                            *)
Orderly == Prompt /\ Quiet /\ ~EarlyAccept

(* For every set of nodes, and any number of calls, of messages that fail  *)
(* or whose answer is lost, and of restarts: whatever the handlers wrote   *)
(* ahead, a node that has read every message shows the listing as the      *)
(* chain has it.                                                           *)
THEOREM NodesAlwaysAgree == Orderly => (Spec => []NodesAgree)
  <1> SUFFICES ASSUME Orderly PROVE Spec => []NodesAgree
    OBVIOUS
  <1>1. Init => AgreeInv
    BY AgreeInit
  <1>2. TypeOK /\ AgreeInv /\ [Next]_vars => AgreeInv'
    <2> SUFFICES ASSUME TypeOK, AgreeInv, [Next]_vars PROVE AgreeInv'
      OBVIOUS
    <2>0. Prompt /\ Quiet /\ ~EarlyAccept
      BY DEF Orderly
    <2>1. ASSUME NEW n \in Nodes, NEW outcome, MakeOffer(n, outcome) PROVE AgreeInv'
      BY <2>1, OfferStep DEF MakeOffer, Offers
    <2>2. ASSUME NEW n \in Nodes, NEW outcome, NEW b \in Nodes, AcceptOffer(n, b, outcome)
          PROVE  AgreeInv'
      BY <2>0, <2>2, OfferStep DEF AcceptOffer, Offers
    <2>3. ASSUME NEW n \in Nodes, Calls(n) PROVE AgreeInv'
      BY <2>1, <2>2, <2>3, ListStep, CancelStep, FeedbackStep DEF Calls
    <2>4. CASE UNCHANGED vars
      <3>1. ReplayFine' /\ ReplayTo' = ReplayTo
        BY <2>4, ReplayKept DEF AgreeInv, vars
      <3> QED BY <2>4, <3>1 DEF vars, AgreeInv, ListedFirst, NodeFine, OneReader, CallFine,
                              EntryFine, Follows, Pos, Waiting
    <2> QED BY <2>0, <2>3, <2>4, ReturnStep, ForgeStep, ReadHistoryStep, ReadNewsStep,
               RestartStep DEF Next
  <1>3. TypeOK /\ AgreeInv => NodesAgree
    BY AgreeInvMeans
  <1> QED BY <1>1, <1>2, <1>3, TypeCorrect, PTL DEF Spec
=============================================================================
