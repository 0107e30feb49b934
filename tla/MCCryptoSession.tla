-------------------------- MODULE MCCryptoSession --------------------------
(* A small instance of CryptoSession for TLC.                              *)
EXTENDS CryptoSession

MCMaxChunks == 3
MCRequests == [seq : 0..MCMaxChunks, options : BOOLEAN]
=============================================================================
