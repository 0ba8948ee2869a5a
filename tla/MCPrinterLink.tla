----------------------------- MODULE MCPrinterLink -----------------------------
(***************************************************************************)
(* TLC instance of PrinterLink: two printers, and the shortest stale       *)
(* windows.                                                                *)
(***************************************************************************)
EXTENDS PrinterLink

TwoPrinters == {"u1", "other"}
MCInit == Init /\ conf = "u1"
MCFairSpec == MCInit /\ [][Next]_vars /\ Fairness
===============================================================================
