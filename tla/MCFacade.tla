------------------------------ MODULE MCFacade -------------------------------
(***************************************************************************)
(* Printers for model checking Facade: those that differ in what a job may *)
(* choose, and those that differ in operations, formats and versions; and  *)
(* a place where their answers break off.                                  *)
(***************************************************************************)
EXTENDS Facade, TLC

MCNeutral == {"copies", "sides"}

MCTried == {"Print-Job", "Create-Job", "Send-Document"}

MCNamed == {PDF}

MCWanted == {"all", "job-template"}

Symmetry == Permutations(Clients)

Stating(known) == [a \in Attributes |-> IF a \in known THEN Values ELSE {}]

Plain == [txt |-> {PDF, URF}, duplex |-> TRUE, formats |-> {PDF, URF}, urf |-> TRUE,
          operations |-> {"Print-Job"} \cup Pair, job |-> Stating({"sides"}),
          color |-> {OutputMode}, v2 |-> FALSE, partial |-> FALSE]

(* The one that two clients ask at a time, and the one whose address is    *)
(* resolved while a client asks.                                           *)
Shared == [Plain EXCEPT !.color = {ColorMode, OutputMode}, !.duplex = FALSE]
Moved == [Plain EXCEPT !.job = Stating({"copies"})]

MCPrinters ==
  {Shared, Moved,
   [Plain EXCEPT !.v2 = TRUE],
   [Plain EXCEPT !.job = Stating(Attributes), !.partial = TRUE],
   [Plain EXCEPT !.txt = {}, !.formats = {PWG, URF},
                 !.operations = {"Print-Job", "Create-Job", "Hold-Job"}],
   [Plain EXCEPT !.formats = {}, !.operations = {}, !.job = Stating({})]}

(* Within the operations and the values of sides, before print-color-mode. *)
MCCuts ==
  {[formats |-> {URF}, urf |-> TRUE, operations |-> Operations \ {"Send-Document"},
    job |-> [Stating({}) EXCEPT !["sides"] = {"neutral"}], color |-> {OutputMode}]}

(* Where there are two clients, and where addresses change.                *)
Overlap ==
  /\ printer # Shared =>
       Cardinality({c \in Clients : asking[c] # Null \/ shown[c] # Nothing}) <= 1
  /\ printer # Moved => moving = Null
=============================================================================
