---------------------------- MODULE MCWorldNews ----------------------------
(***************************************************************************)
(* Two readers, and three stocks in two tabs.                               *)
(***************************************************************************)
EXTENDS WorldNews

CONSTANTS sp500, apple, visa

MCTabs == << <<sp500, apple>>, <<visa>> >>
=============================================================================
