------------------------------ MODULE MCShell ------------------------------
EXTENDS Shell

(* Codes of k, 2, space, bar and ampersand. *)
MCKeyCodes == {107, 50, 32, 124, 38}

(* Names that are prefixes of each other, as /sem and /semtest are. *)
MCCommandNames ==
  [help |-> <<107, 107>>, printmem |-> <<50, 50, 107>>, bgcolour |-> <<50, 107, 50>>,
   user |-> <<50, 107>>, ftcolour |-> <<50>>,
   divzero |-> <<107, 50>>, opcode |-> <<50, 50>>, nice |-> <<107, 107, 107>>,
   kill |-> <<107>>, block |-> <<50, 107, 107>>, unblock |-> <<107, 50, 50>>]
=============================================================================
