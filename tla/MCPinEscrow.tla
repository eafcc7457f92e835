----------------------------- MODULE MCPinEscrow ------------------------------
(***************************************************************************)
(* One escrow address of Alice, two mints, and amounts small enough that   *)
(* the escrow can be made again after a take, with other mints, other      *)
(* amounts, and for nothing.                                               *)
(***************************************************************************)
EXTENDS PinEscrow
===============================================================================
