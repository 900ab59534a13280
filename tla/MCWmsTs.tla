------------------------------ MODULE MCWmsTs ------------------------------
(* Instances of WmsTs for TLC: two information elements (one that the       *)
(* encoder drops), two texts, calls of every kind.                          *)
EXTENDS WmsTs

CONSTANTS t1, t2, b1, b2, x1, x2

Good1 == [id |-> "concat8", complete |-> TRUE, body |-> b1]
Drop == [id |-> "concat8", complete |-> FALSE, body |-> b1]
Port2 == [id |-> "port8", complete |-> TRUE, body |-> b2]

MkJob(k, hs, l, x) == [kind |-> k, headers |-> hs, lang |-> l, text |-> x]

LockedJob == {MkJob("gw_pp_encode", <<Port2, Drop, Good1>>, NoText, x2),
              MkJob("gw_cb_encode", <<>>, x1, x2),
              MkJob("gw_cb_encode", <<>>, NoText, x1),
              MkJob("gw_cb_decode", <<>>, x1, x2),
              MkJob("bad_format", <<>>, NoText, NoText),
              MkJob("cdma_encode", <<Port2>>, NoText, x1),
              MkJob("cdma_decode", <<Good1>>, NoText, x2)}

(* The exported header encoder beside a TPDU that has a header. *)
SharedJob == {MkJob("gw_pp_encode", <<Good1>>, NoText, x1),
              MkJob("udh_encode", <<Port2>>, NoText, NoText)}
=============================================================================
