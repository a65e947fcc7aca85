----------------------------- MODULE MCSeiBytes -----------------------------
(* Documents with all short values of zeros, ones and threes, where the    *)
(* bytes of emulation prevention are, in one TLV (a certificate SEI) or    *)
(* two; then a SEI whose document ends in zeros or does not.  SizeUnit is  *)
(* so small that payload sizes take several bytes, the last one also 0.    *)
EXTENDS SeiBytes

Values(n) == SeqOf({0, 1, 3}, n) \ {<<>>}

MCDocuments ==
  [certificate : {TRUE}, tlvs : {<<[tag |-> 4, value |-> v]>> : v \in Values(3)}]
    \cup [certificate : {FALSE},
          tlvs : {<<[tag |-> 1, value |-> v], [tag |-> 2, value |-> u]>> :
                    v, u \in Values(2)}]

MCNextDocuments ==
  [certificate : {FALSE},
   tlvs : {<<[tag |-> 1, value |-> v]>> : v \in {<<0, 0>>, <<0, 3>>, <<7, 7>>}}]

MCSignatures == {<<0, 0, 0>>, <<0, 0, 3, 5>>, <<9, 0, 0, 1, 128, 0>>}
=============================================================================
