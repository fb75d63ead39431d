---------------------------- MODULE MCWalletSync ----------------------------
(* Two competing blocks per height; chains named by their length.          *)
EXTENDS WalletSync

Labels == {0, 1}
ThreeBlocks == <<0, 0, 0>>
FourBlocks == <<0, 0, 0, 0>>
FiveBlocks == <<0, 0, 0, 0, 0>>
Rungs == <<1, 2>>
=============================================================================
