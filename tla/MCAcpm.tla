------------------------------- MODULE MCAcpm -------------------------------
(* The four calls of the g0s board's pmic_init, and after them each call the *)
(* driver offers, with bulk transfers of one and of both words.              *)
EXTENDS Acpm

MCReg  == 0 .. 7
MCByte == {0, 1, 2, 3, 5, 6, 240, 216}

Read(r)  == [func |-> "read", reg |-> r, count |-> 1, data |-> <<>>]
Write(r, v) == [func |-> "write", reg |-> r, count |-> 1, data |-> <<v>>]
BulkRead(r, n) == [func |-> "bulk_read", reg |-> r, count |-> n, data |-> <<>>]
BulkWrite(r, buf) ==
  [func |-> "bulk_write", reg |-> r, count |-> Len(buf), data |-> buf]

(* LDO17S of the sub-PMIC to 3.0 V, LDO28M of the main one to 1.8 V *)
G0s == <<Read(1), Write(1, 192 + (3000000 - 1800000) \div 25000),
         Read(2), Write(2, 192 + (1800000 - 1500000) \div 12500)>>

EveryCall ==
  <<BulkWrite(0, <<1, 2, 3, 5, 6, 1, 2, 3>>), BulkRead(0, 8), Write(3, 6),
    BulkRead(1, 4), BulkWrite(4, <<3, 2>>), Read(5), BulkRead(3, 5)>>

MCScript == G0s \o EveryCall
=============================================================================
