----------------------------- MODULE MCValidity -----------------------------
(* Validity for TLC: every minute of a day and every tenth day of 480, all  *)
(* octets of a relative time, timestamps with good and bad digits.          *)
EXTENDS Validity

Bcd(n) == IntToBcd(n)
Relative == {[Zero EXCEPT !.hour = Bcd(h), !.minute = Bcd(m)] : h \in 0..23, m \in 0..59}
            \union {[Zero EXCEPT !.year = y, !.month = Bcd(mo), !.day = Bcd(d)] :
                      y \in 0..1, mo \in {0, 1, 2, 6, 12}, d \in 0..30}
            \union {[Zero EXCEPT !.day = d, !.hour = Bcd(h)] :
                      d \in 0..2, h \in {1, 24, 99}}
            \union {[Zero EXCEPT !.hour = 31], [Zero EXCEPT !.day = 26]}

Absolute == [year : {0, 153}, month : {0, 1, 18}, day : {1, 49}, hour : {0, 35},
             minute : {89, 96}, second : {9}, timezone : {-128, -48, -9, 0, 10, 48, 127}]

MCSent == [format : {"relative"}, time : Relative]
          \union [format : {"absolute"}, time : Absolute]
          \union [format : {"none", "enhanced"}, time : {Zero}]

MCArriving == [format : {"relative"}, data : [1..1 -> Octet]]
              \union [format : {"absolute"}, data : [1..7 -> {0, 33, 153, 175}]]
=============================================================================
