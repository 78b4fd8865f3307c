------------------------ MODULE MCAggregateCustody ------------------------
(***************************************************************************)
(* AggregateCustody for TLC.  SDNV digits are base 3 and words have three   *)
(* digits, so that the four ids already take one or two octets and a        *)
(* difference that wraps takes three.  The configured limit admits a few    *)
(* entries; the operator may lower the delay, lower the limit or lift it.   *)
(***************************************************************************)
EXTENDS AggregateCustody

MCStartParams == <<2, 7>>
MCParams == {MCStartParams, <<1, 3>>, <<3, 0>>}
=============================================================================
