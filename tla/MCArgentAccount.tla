-------------------------- MODULE MCArgentAccount --------------------------
(* Small instances of ArgentAccount for TLC.                               *)
EXTENDS ArgentAccount, TLC

MCSignerType == {"Starknet", "Eip191"}
MCOrderedTypes == <<"Starknet", "Eip191">>
MCOneType == {"Starknet"}
MCOneOrderedType == <<"Starknet">>
MCKeySymmetry == Permutations(Keys)
=============================================================================
