------------------------------- MODULE MCAta -------------------------------
(* A drive with three sectors of four bytes, whose numbers differ in each  *)
(* of the four address registers.                                          *)
EXTENDS Ata

MCDiskSector == {257, 513, 251724033}       (* 0x101, 0x201, 0xF010101 *)
MCLargeSector == {268435456}                (* 0x10000000 *)
MCData == {<<1>>, <<2, 1, 1, 2>>, <<1, 1, 1, 1, 1>>}
MCCount == {1, 4}
=============================================================================
