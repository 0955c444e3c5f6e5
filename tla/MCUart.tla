-------------------------------- MODULE MCUart --------------------------------
(***************************************************************************)
(* A buffer of six bytes for the 300 of the code and a pointer of two for  *)
(* its four: messages shorter than the pointer, longer than it, and as     *)
(* long as the buffer allows, in every order of three.                     *)
(***************************************************************************)
EXTENDS Uart

MCLengths == {1, 3, BUFFER_SIZE - 1}
===============================================================================
