-------------------------- MODULE MCUserDataHeader --------------------------
(* UserDataHeader for TLC: three elements instead of seven, a buffer of 20  *)
(* octets, elements of every kind of check.                                 *)
EXTENDS UserDataHeader

E(id, iedl, total, seq) ==
  [id |-> id, iedl |-> iedl, w8 |-> 1, h |-> 2, total |-> total, seq |-> seq]

Elements == {E("concat8", 3, 2, 2), E("concat8", 3, 2, 1), E("concat8", 4, 1, 2),
             E("concat16", 4, 2, 2), E("concat16", 4, 2, 1), E("concat16", 3, 2, 1),
             E("eo", 7, 0, 0), E("eo", 2, 0, 0),
             E("var_picture", 5, 0, 0), E("var_picture", 6, 0, 0),
             E("port8", 255, 0, 0), E("other", 0, 0, 0)}

MCMessage == [udhl : 0..22 \union {255}, elements : [1..3 -> Elements]]
=============================================================================
