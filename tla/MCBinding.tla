----------------------------- MODULE MCBinding -----------------------------
(* Three gateways; gateway 1 and a node that is none are followed.         *)
EXTENDS Binding

(* Nothing goes wrong and two attempts are made for two accounts.          *)
Plain ==
  [callsFail |-> FALSE, asking |-> Accts, gens |-> 2, fresh |-> 0, odd |-> 0,
   restarts |-> 0, foreign |-> 0, quiet |-> TRUE]
OneAcct == [Plain EXCEPT !.asking = {"ann"}]

(* A wallet moves on between two attempts for one account; calls fail and  *)
(* others connect; a node is started again; another message is in between. *)
MCSettings == {
  Plain,
  [OneAcct EXCEPT !.fresh = 1],
  [OneAcct EXCEPT !.gens = 1, !.callsFail = TRUE, !.fresh = 1, !.odd = 1, !.restarts = 1],
  [OneAcct EXCEPT !.restarts = 1],
  [OneAcct EXCEPT !.gens = 1, !.foreign = 1]}

(* Announcements arrive while a node still reads its history.              *)
MCHistory == {[OneAcct EXCEPT !.restarts = 1, !.quiet = FALSE, !.fresh = 1]}
=============================================================================
