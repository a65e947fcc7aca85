------------------------------ MODULE Buffers ------------------------------
(***************************************************************************)
(* The fixed-size arrays in[] and out[] of the threaded signing plugin     *)
(* (plugins/threaded-signing/plugin.c) are modelled as sequences that hold *)
(* their first in_idx and out_idx elements.  Every element carries the id  *)
(* of the session it belongs to.  This module has what is done with the    *)
(* elements of one session.  It is written without recursion so that       *)
(* DataLemmas can prove what it returns.                                 *)
(***************************************************************************)
EXTENDS Naturals, Sequences, FiniteSets

(* The positions of buf that belong to the session id, and the others. *)
Owned(buf, id) == {i \in DOMAIN buf : buf[i].id = id}
Kept(buf, id) == {i \in DOMAIN buf : buf[i].id # id}

(* How many members of the set of positions S are not beyond i. *)
Rank(S, i) == Cardinality({j \in S : j <= i})

(* The k-th smallest member of S. *)
Nth(S, k) == CHOOSE i \in S : Rank(S, i) = k

(* The elements of buf at the positions S, in their order. *)
Select(buf, S) == [k \in 1..Cardinality(S) |-> buf[Nth(S, k)]]

(* buf without the elements of session id, and those elements alone. *)
Without(buf, id) == Select(buf, Kept(buf, id))
Only(buf, id) == Select(buf, Owned(buf, id))

(* The hashes of the elements of session id, oldest first. *)
HashesOf(buf, id) ==
  [k \in 1..Cardinality(Owned(buf, id)) |-> buf[Nth(Owned(buf, id), k)].hash]

=============================================================================
