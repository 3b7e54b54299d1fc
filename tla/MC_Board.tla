------------------------------- MODULE MC_Board -------------------------------
(***************************************************************************)
(* Instance of Board for TLC: a string that fits the transmitter of UART2  *)
(* and one that does not.                                                  *)
(***************************************************************************)
EXTENDS Board

StringLengths == <<1, 4>>
=============================================================================
