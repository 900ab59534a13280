--------------------------- MODULE ParameterReader ---------------------------
(***************************************************************************)
(* What a reader of parameters promises, for the transport layer and for   *)
(* the bearer data of a CDMA message alike: it goes through the octets     *)
(* from one parameter to the next, never back and never within one's       *)
(* identifier and length; it takes the first parameter of each kind and    *)
(* leaves it as it is when the kind comes again; it is content only at the *)
(* exact end; and it comes to an end.                                      *)
(***************************************************************************)
EXTENDS Integers, Sequences

VARIABLES data,     \* the octets that are read
          pos,      \* of the next parameter, from 0
          taken,    \* from kinds to values
          state     \* "reading", "refused", "elsewhere"

vars == <<data, pos, taken, state>>

Init == state # "reading"

Start == state # "reading" /\ state' = "reading" /\ DOMAIN taken' = {}

Take == /\ state = "reading" /\ state' = "reading"
        /\ pos + 2 <= Len(data) /\ pos' >= pos + 2
        /\ data' = data
        /\ DOMAIN taken \subseteq DOMAIN taken'
        /\ \A k \in DOMAIN taken : taken'[k] = taken[k]

Accept == state = "reading" /\ pos = Len(data) /\ state' = "elsewhere"
Refuse == state = "reading" /\ state' = "refused"

Elsewhere == state # "reading" /\ state' # "reading"

Next == Start \/ Take \/ Accept \/ Refuse \/ Elsewhere

Ends == (state = "reading") ~> (state # "reading")

Spec == Init /\ [][Next]_vars
=============================================================================
