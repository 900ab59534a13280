----------------------------- MODULE MCUserData -----------------------------
(* UserData for TLC: up to two headers, elements with every kind of length, *)
(* texts at the ends of the range and around the capacity.                  *)
EXTENDS UserData

H(id, n, flag, total, seq) ==
  [id |-> id, n |-> n, w |-> 16, h |-> 3, flag |-> flag, total |-> total, seq |-> seq]

One == {H("concat8", 0, FALSE, 2, 2), H("concat8", 0, FALSE, 0, 0),
        H("concat16", 0, FALSE, 2, 1), H("concat16", 0, FALSE, 2, 2), H("port16", 0, FALSE, 0, 0),
        H("text_format", 0, TRUE, 0, 0), H("large_picture", 0, FALSE, 0, 0),
        H("small_anim", 0, FALSE, 0, 0), H("user_def_sound", 128, FALSE, 0, 0),
        H("var_picture", 0, FALSE, 0, 0), H("eo", 20, TRUE, 0, 0), H("eo", 131, TRUE, 0, 0),
        H("eo", 9, FALSE, 0, 0), H("other", 0, FALSE, 0, 0), H("other", 61, FALSE, 0, 0),
        H("rfc822", 0, FALSE, 0, 0),
        [H("var_picture", 0, FALSE, 0, 0) EXCEPT !.w = 20]}

MCUserDatum == [seven : BOOLEAN,
                headers : {<<>>} \union {<<a>> : a \in One} \union {<<a, b>> : a, b \in One},
                sm_len : {0, 1, 7, 8, 70, 71, 72, 80, 152, 153, 255} \union 130..142
                         \union 155..161]
=============================================================================
