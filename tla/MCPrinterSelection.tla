------------------------- MODULE MCPrinterSelection --------------------------
(* Small instances of PrinterSelection: two printers on two addresses.     *)
EXTENDS PrinterSelection

CONSTANTS A, B

Lan(addrA, everywhereA, addrB) ==
  [p \in {A, B} |-> IF p = A THEN [addr |-> addrA, everywhere |-> everywhereA]
                    ELSE [addr |-> addrB, everywhere |-> FALSE]]

(* Nothing moves; printer A is IPP Everywhere, printer B is not.           *)
Static == {Lan(1, TRUE, 2)}

(* Printer A changes its profile.                                          *)
Changing == {Lan(1, everywhere, 2) : everywhere \in BOOLEAN}

(* It changes its profile and gets an address no other printer had.        *)
Restless == {Lan(1, TRUE, 2), Lan(3, FALSE, 2)}
=============================================================================
