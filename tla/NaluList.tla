------------------------------ MODULE NaluList ------------------------------
(***************************************************************************)
(* The list of NAL Units that wait for their validation                    *)
(* (lib/src/oms_nalu_list.c): what its functions return and how they       *)
(* change the list, as operators on sequences of items.                    *)
(*                                                                         *)
(* A received NAL Unit is a record of its kind, its content (id), for a    *)
(* SEI of this library what it says (data), and whether it is as it was    *)
(* sent (intact).  An item is known by the number of its arrival (at); that is  *)
(* what the pointer associated_sei is, 0 for NULL.  An item that stands    *)
(* for a missing NAL Unit has the kind "missing" for no nalu_info.         *)
(***************************************************************************)
EXTENDS Integers, Sequences, SequencesExt

(* The characters of the validation status. *)
Pending == "P"
Valid == "."
Invalid == "N"
Unknown == "U"
Ignored == "_"
Missing == "M"
Error == "E"
Unset == " "

(* What nalu_info says of the NAL Unit of an item. *)
IsSei(item) == item.nalu.kind = "sei"
IsSigned(item) == IsSei(item) /\ item.nalu.data.signed
IsCertificate(item) == IsSei(item) /\ item.nalu.data.isCertificate
IsFirstInGop(item) == item.nalu.kind = "I"
IsHashable(item) == item.nalu.kind \in {"I", "P", "slice", "sei"}

(* nalu_list_item_create(), and whether the signature was verified *)
NewItem(at, nalu, hash, verified) ==
  LET status == IF nalu.kind = "other" THEN Ignored ELSE Pending
  IN  [at |-> at, nalu |-> nalu, hash |-> hash, status |-> status, tmp |-> status,
       verified |-> verified, ifSeiOk |-> Unset, sei |-> 0, decoded |-> FALSE,
       inValidation |-> FALSE]

MissingItem(sei) ==
  [at |-> 0, nalu |-> [kind |-> "missing"], hash |-> <<>>, status |-> Missing,
   tmp |-> Missing, verified |-> FALSE, ifSeiOk |-> Unset, sei |-> sei,
   decoded |-> FALSE, inValidation |-> FALSE]

(* The list with another item at place k. *)
WithItem(list, k, item) == [j \in DOMAIN list |-> IF j = k THEN item ELSE list[j]]

(* The place of the first item from place k on that passes a test, 0 if    *)
(* there is none.                                                          *)
First(list, k, Test(_)) == SelectInSubSeq(list, k, Len(list), Test)

(* The place of an item, given the number of its arrival. *)
PlaceOf(list, at) == First(list, 1, LAMBDA item : item.at = at)

(* nalu_list_add_missing_items(), before the item at place k *)
AddMissing(list, num, k, sei) ==
  SubSeq(list, 1, k - 1)
    \o [i \in 1..num |-> MissingItem(sei)]
    \o SubSeq(list, k, Len(list))

(* nalu_list_add_missing_items_at_end_of_partial_gop() *)
AddMissingAtEnd(list, num, sei) ==
  LET ends == {k \in 2..Len(list) : list[k - 1].sei = sei /\ list[k].sei # sei}
  IN  IF num <= 0 \/ ends = {}
      THEN list
      ELSE AddMissing(list, num, CHOOSE k \in ends : \A j \in ends : k <= j, sei)

(* nalu_list_get_next_sei_item() *)
NextSei(list) ==
  First(list, 1, LAMBDA item : IsSei(item) /\ item.tmp = Pending /\ item.ifSeiOk = Unset)

(* nalu_list_item_get_next_hashable() *)
NextHashable(list, k) == First(list, k + 1, IsHashable)

(* nalu_list_update_status() *)
UpdateStatus(list, update) ==
  [k \in DOMAIN list |->
     IF update THEN [list[k] EXCEPT !.status = list[k].tmp]
               ELSE [list[k] EXCEPT !.tmp = list[k].status]]

(* nalu_list_get_stats(), sei = 0 for NULL *)
Counted(list, sei) == {k \in DOMAIN list : sei # 0 => list[k].sei # 0}

NumInvalid(list, sei) ==
  Cardinality({k \in Counted(list, sei) :
    list[k].tmp \in {Invalid, Error} /\ (IsSei(list[k]) => list[k].inValidation)})

NumMissed(list, sei) == Cardinality({k \in Counted(list, sei) : list[k].tmp = Missing})

HasValid(list, sei) == \E k \in Counted(list, sei) : list[k].tmp = Valid /\ ~IsSei(list[k])

(* nalu_list_num_pending_items() *)
NumPending(list) == Cardinality({k \in DOMAIN list : list[k].tmp = Pending})

(* The items that nalu_list_clean_up() takes out of the list. *)
Validated(list) ==
  LET pending == First(list, 1, LAMBDA item : item.status = Pending)
  IN  IF pending = 0 THEN list ELSE SubSeq(list, 1, pending - 1)

=============================================================================
