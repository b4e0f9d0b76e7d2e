-------------------------- MODULE PrinterSelection ---------------------------
(***************************************************************************)
(* The selected printer and its advertisement: app_state.c keeps the       *)
(* target in NVS and in memory, printer_discovery.c finds printers,        *)
(* selects one and announces it by mDNS. Several kinds of task work on it: *)
(*   "web"       the HTTP server's task: scan, select, clear, rename;      *)
(*   "net"       boot, later a task started when Wi-Fi gets an address;    *)
(*   Refreshers  more tasks like that, which may overlap;                  *)
(*   Workers     proxy workers that refresh the profile from a Get-        *)
(*               Printer-Attributes response.                              *)
(* A step ends where the code blocks or gives up a lock: between writing   *)
(* NVS and memory, between memory and the advertisement, and around every  *)
(* query of the network. The calls under printer_discovery's lock are one  *)
(* step. A profile is the printer it describes, its address and whether it *)
(* is IPP Everywhere: the rest of the structure goes the same way.         *)
(***************************************************************************)
EXTENDS Integers, Sequences, FiniteSets

CONSTANTS
  Printers,
  Addrs,
  Names,      \* custom names the user may give
  Workers,    \* proxy workers that may refresh the profile
  Refreshers, \* tasks that may refresh the address, besides "net"
  Networks,   \* the address and profile of every printer, as they may become
  MdnsFails,  \* may an mDNS call fail for want of memory?
  MaxBoots,   \* bound on the number of restarts
  NoTarget, NoName, Absent

ASSUME SelectionAssumption ==
  /\ Networks \subseteq [Printers -> [addr : Addrs, everywhere : BOOLEAN]]
  /\ Networks # {}
  /\ MdnsFails \in BOOLEAN
  /\ MaxBoots \in Nat
  /\ "web" \notin Workers \cup Refreshers /\ "net" \notin Workers \cup Refreshers
  /\ Workers \cap Refreshers = {}
  /\ NoTarget \notin Printers /\ NoName \notin Names

VARIABLES
  net,       \* the printers as they are
  nvs,       \* the "printer" blob
  ram,       \* s_target, NoTarget if s_has_target is false
  name,      \* s_printer_name, the same in NVS
  list,      \* s_printers
  found,     \* the result of the scan in progress
  op, at,    \* what each task does, and where it is
  tmp,       \* its local copy of a target
  svc,       \* the services mDNS answers for
  s_ipp_advertised, s_ipps_advertised, s_everywhere_advertised, s_advertisement,
  ready,     \* s_mdns_ready
  choice,    \* what the user was last told is selected
  boots

stored == <<nvs, ram, name>>
mdns == <<svc, s_ipp_advertised, s_ipps_advertised, s_everywhere_advertised, s_advertisement>>
tasks == <<op, at, tmp>>
vars == <<net, stored, list, found, tasks, mdns, ready, choice, boots>>

Nets == {"net"} \cup Refreshers
Tasks == {"web"} \cup Nets \cup Workers
Targets == [p : Printers, addr : Addrs, everywhere : BOOLEAN]
Services == {"ipp", "ipps"}
Unknown == "unknown"

(* printer_advertisement_build: the custom name or a generated one, the    *)
(* TXT record and the _print subtype. The address is not announced.        *)
Build(t, n) ==
  [inst |-> IF n = NoName THEN t.p ELSE n, txt |-> <<t.p, t.everywhere>>, print |-> t.everywhere]

Entries ==
  [inst : Printers \cup Names, txt : Printers \X BOOLEAN, print : BOOLEAN]

(* Neither stands for a target or a service.                               *)
ASSUME SentinelAssumption == NoTarget \notin Targets /\ Absent \notin Entries

Ops == {"idle", "select", "clear", "scan", "rename", "refresh", "gpa"}
Steps == {"idle", "save", "store", "advertise", "remove", "compare", "list",
          "read", "resolve", "ask", "update", "abort"}

SelectionTypeOK ==
  /\ net \in Networks
  /\ nvs \in Targets \cup {NoTarget}
  /\ ram \in Targets \cup {NoTarget}
  /\ name \in Names \cup {NoName}
  /\ list \subseteq Targets /\ found \subseteq Targets
  /\ op \in [Tasks -> Ops] /\ at \in [Tasks -> Steps]
  /\ tmp \in [Tasks -> Targets \cup {NoTarget}]
  /\ svc \in [Services -> Entries \cup {Absent}]
  /\ s_ipp_advertised \in BOOLEAN /\ s_ipps_advertised \in BOOLEAN
  /\ s_everywhere_advertised \in BOOLEAN
  /\ s_advertisement \in Entries \cup {Absent}
  /\ ready \in BOOLEAN
  /\ choice \in Printers \cup {NoTarget, Unknown}
  /\ boots \in 0..MaxBoots

Profile(p) == [p |-> p, addr |-> net[p].addr, everywhere |-> net[p].everywhere]

Nothing == [s \in Services |-> Absent]

(* A device that has just started, with or without a saved printer.        *)
Init ==
  /\ net \in Networks
  /\ nvs \in {Profile(p) : p \in Printers} \cup {NoTarget}
  /\ ram = nvs
  /\ name = NoName
  /\ list = {} /\ found = {}
  /\ op = [x \in Tasks |-> IF x = "net" THEN "refresh" ELSE "idle"]
  /\ at = [x \in Tasks |-> IF x = "net" THEN "read" ELSE "idle"]
  /\ tmp = [x \in Tasks |-> NoTarget]
  /\ svc = Nothing
  /\ s_ipp_advertised = FALSE /\ s_ipps_advertised = FALSE
  /\ s_everywhere_advertised = FALSE /\ s_advertisement = Absent
  /\ ready = FALSE
  /\ choice = IF nvs = NoTarget THEN NoTarget ELSE nvs.p
  /\ boots = 0

----------------------------------------------------------------------------
(* Where a task goes.                                                      *)
Begin(x, o, step, t) ==
  /\ at[x] = "idle"
  /\ op' = [op EXCEPT ![x] = o]
  /\ at' = [at EXCEPT ![x] = step]
  /\ tmp' = [tmp EXCEPT ![x] = t]

Goto(x, step) ==
  /\ at' = [at EXCEPT ![x] = step]
  /\ op' = [op EXCEPT ![x] = IF step = "idle" THEN "idle" ELSE @]
  /\ tmp' = [tmp EXCEPT ![x] = IF step = "idle" THEN NoTarget ELSE @]

(* app_state_set_target and app_state_clear_target: NVS is written and     *)
(* committed first, without a lock.                                        *)
Save(x) ==
  /\ at[x] = "save"
  /\ nvs' = tmp[x]
  /\ Goto(x, "store")
  /\ UNCHANGED <<net, ram, name, list, found, mdns, ready, choice, boots>>

(* A slip that a run must notice: a failed write is only logged.           *)
SaveFailsLogged(x) ==
  /\ at[x] = "save"
  /\ nvs' \in {nvs, tmp[x]}
  /\ Goto(x, "store")
  /\ UNCHANGED <<net, ram, name, list, found, mdns, ready, choice, boots>>

(* A failed write may have reached the flash. Select and clear give up, a  *)
(* scan goes on without its change, a refresh goes on to advertise.        *)
SaveFails(x) ==
  /\ at[x] = "save"
  /\ nvs' \in {nvs, tmp[x]}
  /\ at' = [at EXCEPT ![x] = CASE op[x] = "scan" -> "list"
                               [] op[x] = "refresh" -> "advertise"
                               [] OTHER -> "idle"]
  /\ op' = [op EXCEPT ![x] = IF @ \in {"scan", "refresh"} THEN @ ELSE "idle"]
  /\ tmp' = [tmp EXCEPT ![x] = NoTarget]
  /\ UNCHANGED <<net, ram, name, list, found, mdns, ready, choice, boots>>

(* Then memory, under app_state's lock.                                    *)
Store(x) ==
  /\ at[x] = "store"
  /\ ram' = tmp[x]
  /\ Goto(x, CASE op[x] = "clear" -> "remove"
               [] op[x] = "scan" -> "list"
               [] OTHER -> "advertise")
  /\ UNCHANGED <<net, nvs, name, list, found, mdns, ready, choice, boots>>

----------------------------------------------------------------------------
(* advertise_selected_locked. The mDNS table after the first k edits of    *)
(* the update path, or after the first k registrations of the other path;  *)
(* ESP_RETURN_ON_ERROR leaves everything done so far in place.             *)
Edits(adv) ==
  (IF adv.inst # s_advertisement.inst THEN <<<<"ipp", "inst">>, <<"ipps", "inst">>>> ELSE <<>>)
  \o <<<<"ipp", "txt">>, <<"ipps", "txt">>>>
  \o (IF adv.print # s_everywhere_advertised
      THEN <<<<"ipp", "print">>, <<"ipps", "print">>>> ELSE <<>>)

Edited(adv, k) ==
  [s \in Services |->
     IF svc[s] = Absent THEN Absent
     ELSE [f \in {"inst", "txt", "print"} |->
             IF \E i \in 1..k : Edits(adv)[i] = <<s, f>> THEN adv[f] ELSE svc[s][f]]]

Registrations == <<<<"ipp", "service">>, <<"ipp", "print">>, <<"ipps", "service">>, <<"ipps", "print">>>>

Registered(adv, k) ==
  [s \in Services |->
     IF \E i \in 1..k : Registrations[i] = <<s, "service">>
     THEN [adv EXCEPT !.print = adv.print /\ \E i \in 1..k : Registrations[i] = <<s, "print">>]
     ELSE svc[s]]

(* An edit needs the service, a registration needs it to be new.           *)
CanEdit(adv, k) == \A i \in 1..k : svc[Edits(adv)[i][1]] # Absent
CanRegister(k) ==
  \A i \in 1..k : Registrations[i][2] = "service" => svc[Registrations[i][1]] = Absent

Noted(adv) ==
  /\ s_advertisement' = adv
  /\ s_everywhere_advertised' = adv.print

Advertised(adv) ==
  \/ /\ s_ipp_advertised /\ s_ipps_advertised /\ s_advertisement = adv
     /\ UNCHANGED mdns
  \/ /\ s_ipp_advertised
     /\ ~(s_ipps_advertised /\ s_advertisement = adv)
     /\ CanEdit(adv, Len(Edits(adv)))
     /\ svc' = Edited(adv, Len(Edits(adv)))
     /\ Noted(adv)
     /\ UNCHANGED <<s_ipp_advertised, s_ipps_advertised>>
  \/ /\ ~s_ipp_advertised
     /\ CanRegister(4)
     /\ svc' = Registered(adv, 4)
     /\ Noted(adv)
     /\ s_ipp_advertised' = TRUE /\ s_ipps_advertised' = TRUE

(* A slip that a run must notice: the flags are set before the services    *)
(* are registered.                                                         *)
AdvertisingFailsFlagged(adv) ==
  /\ ~s_ipp_advertised
  /\ \E k \in 0..3 :
       /\ CanRegister(k) /\ (MdnsFails \/ ~CanRegister(k + 1))
       /\ svc' = Registered(adv, k)
  /\ s_ipp_advertised' = TRUE /\ s_ipps_advertised' = TRUE
  /\ UNCHANGED <<s_everywhere_advertised, s_advertisement>>

AdvertisingFails(adv) ==
  /\ \/ /\ s_ipp_advertised
        /\ ~(s_ipps_advertised /\ s_advertisement = adv)
        /\ \E k \in 0..Len(Edits(adv)) - 1 :
             /\ CanEdit(adv, k) /\ (MdnsFails \/ ~CanEdit(adv, k + 1))
             /\ svc' = Edited(adv, k)
     \/ /\ ~s_ipp_advertised
        /\ \E k \in 0..3 :
             /\ CanRegister(k) /\ (MdnsFails \/ ~CanRegister(k + 1))
             /\ svc' = Registered(adv, k)
  /\ UNCHANGED <<s_ipp_advertised, s_ipps_advertised, s_everywhere_advertised, s_advertisement>>

(* A slip that a run must notice: a task announces its own copy instead of *)
(* the target selected now.                                                *)
AdvertiseOwnCopy(x) ==
  /\ at[x] = "advertise"
  /\ IF tmp[x] = NoTarget THEN UNCHANGED mdns ELSE Advertised(Build(tmp[x], name))
  /\ ready' = (ready \/ x = "net")
  /\ choice' = IF op[x] = "select" THEN tmp[x].p ELSE choice
  /\ Goto(x, "idle")
  /\ UNCHANGED <<net, stored, list, found, boots>>

(* The web handlers report the result, boot aborts on a failure, the       *)
(* others ignore it.                                                       *)
Advertise(x) ==
  /\ at[x] = "advertise"
  /\ IF ram = NoTarget THEN UNCHANGED mdns ELSE Advertised(Build(ram, name))
  /\ ready' = (ready \/ x = "net")
  /\ choice' = IF op[x] = "select" THEN tmp[x].p ELSE choice
  /\ Goto(x, "idle")
  /\ UNCHANGED <<net, stored, list, found, boots>>

AdvertiseFails(x) ==
  /\ at[x] = "advertise"
  /\ ram # NoTarget
  /\ AdvertisingFails(Build(ram, name))
  /\ Goto(x, IF x = "net" /\ ~ready THEN "abort" ELSE "idle")
  /\ UNCHANGED <<net, stored, list, found, ready, choice, boots>>

----------------------------------------------------------------------------
(* The web server's task.                                                  *)

Select ==
  /\ \E t \in list : Begin("web", "select", "save", t)
  /\ choice' = Unknown
  /\ UNCHANGED <<net, stored, list, found, mdns, ready, boots>>

Clear ==
  /\ Begin("web", "clear", "save", NoTarget)
  /\ choice' = Unknown
  /\ UNCHANGED <<net, stored, list, found, mdns, ready, boots>>

(* The two removals of printer_discovery_clear_selection: a service whose  *)
(* removal fails keeps its flag, and the user is told.                     *)
Remove ==
  /\ at["web"] = "remove"
  /\ \E okIpp, okIpps \in (IF MdnsFails THEN BOOLEAN ELSE {TRUE}) :
       /\ s_ipp_advertised' = (s_ipp_advertised /\ ~okIpp)
       /\ s_advertisement' = IF s_ipp_advertised /\ okIpp THEN Absent ELSE s_advertisement
       /\ s_ipps_advertised' = (s_ipps_advertised /\ ~okIpps)
       /\ s_everywhere_advertised' =
            (s_everywhere_advertised /\ ~(s_ipps_advertised /\ okIpps))
       /\ svc' = [svc EXCEPT !["ipp"] = IF s_ipp_advertised /\ okIpp THEN Absent ELSE @,
                             !["ipps"] = IF s_ipps_advertised /\ okIpps THEN Absent ELSE @]
       /\ choice' = IF ~s_ipp_advertised' /\ ~s_ipps_advertised' THEN NoTarget ELSE choice
  /\ Goto("web", "idle")
  /\ UNCHANGED <<net, stored, list, found, ready, boots>>

Rename ==
  /\ ram # NoTarget
  /\ Begin("web", "rename", "advertise", NoTarget)
  /\ name' \in Names \cup {NoName}
  /\ UNCHANGED <<net, nvs, ram, list, found, mdns, ready, choice, boots>>

(* printer_discovery_scan: queries, then the selected endpoint's profile,  *)
(* then the list, then the advertisement if the profile changed. Not every *)
(* printer need answer.                                                    *)
Scan ==
  /\ ready
  /\ Begin("web", "scan", "compare", NoTarget)
  /\ \E P \in SUBSET Printers : found' = {Profile(p) : p \in P}
  /\ UNCHANGED <<net, stored, list, mdns, ready, choice, boots>>

SameEndpoint(t) == ram # NoTarget /\ t.addr = ram.addr

Compare ==
  /\ at["web"] = "compare"
  /\ \/ \E t \in found :
          /\ SameEndpoint(t) /\ t # ram
          /\ at' = [at EXCEPT !["web"] = "save"]
          /\ tmp' = [tmp EXCEPT !["web"] = t]
     \/ /\ \A t \in found : SameEndpoint(t) => t = ram
        /\ at' = [at EXCEPT !["web"] = "list"]
        /\ UNCHANGED tmp
  /\ UNCHANGED <<net, stored, list, found, op, mdns, ready, choice, boots>>

KeepList ==
  /\ at["web"] = "list"
  /\ list' = found
  /\ found' = {}
  /\ Goto("web", IF tmp["web"] = NoTarget THEN "idle" ELSE "advertise")
  /\ UNCHANGED <<net, stored, mdns, ready, choice, boots>>

----------------------------------------------------------------------------
(* Boot and printer_discovery_network_ready: refresh_saved_address, then   *)
(* the advertisement.                                                      *)

NetworkReady(x) ==
  /\ ready
  /\ Begin(x, "refresh", "read", NoTarget)
  /\ UNCHANGED <<net, stored, list, found, mdns, ready, choice, boots>>

ReadTarget(x) ==
  /\ at[x] = "read"
  /\ at' = [at EXCEPT ![x] = IF ram = NoTarget THEN "advertise" ELSE "resolve"]
  /\ tmp' = [tmp EXCEPT ![x] = ram]
  /\ UNCHANGED <<net, stored, list, found, op, mdns, ready, choice, boots>>

(* The printer's host name is resolved, or not; the copy read before the   *)
(* query is saved with the new address.                                    *)
Resolve(x) ==
  /\ at[x] = "resolve"
  /\ LET moved == [tmp[x] EXCEPT !.addr = net[tmp[x].p].addr]
     IN  \/ /\ moved # tmp[x]
            /\ at' = [at EXCEPT ![x] = "save"]
            /\ tmp' = [tmp EXCEPT ![x] = moved]
         \/ /\ at' = [at EXCEPT ![x] = "advertise"]
            /\ UNCHANGED tmp
  /\ UNCHANGED <<net, stored, list, found, op, mdns, ready, choice, boots>>

----------------------------------------------------------------------------
(* A worker with Get-Printer-Attributes: the target as it was when the     *)
(* request came, whoever answers at its address, and the result into       *)
(* memory without NVS.                                                     *)

Ask(w) ==
  /\ ready /\ ram # NoTarget
  /\ Begin(w, "gpa", "ask", ram)
  /\ UNCHANGED <<net, stored, list, found, mdns, ready, choice, boots>>

Reply(w) ==
  /\ at[w] = "ask"
  /\ \/ \E p \in Printers :
          LET updated == [tmp[w] EXCEPT !.everywhere = net[p].everywhere]
          IN  /\ net[p].addr = tmp[w].addr
              /\ updated # tmp[w]
              /\ at' = [at EXCEPT ![w] = "update"]
              /\ tmp' = [tmp EXCEPT ![w] = updated]
              /\ UNCHANGED op
     \/ Goto(w, "idle")
  /\ UNCHANGED <<net, stored, list, found, mdns, ready, choice, boots>>

Update(w) ==
  /\ at[w] = "update"
  /\ ram' = tmp[w]
  /\ Goto(w, "advertise")
  /\ UNCHANGED <<net, nvs, name, list, found, mdns, ready, choice, boots>>

----------------------------------------------------------------------------
(* The surroundings: printers move and change, the device restarts.        *)

NetworkChanges ==
  /\ net' \in Networks \ {net}
  /\ UNCHANGED <<stored, list, found, tasks, mdns, ready, choice, boots>>

Restart ==
  /\ boots < MaxBoots
  /\ boots' = boots + 1
  /\ ram' = nvs
  /\ list' = {} /\ found' = {}
  /\ op' = [x \in Tasks |-> IF x = "net" THEN "refresh" ELSE "idle"]
  /\ at' = [x \in Tasks |-> IF x = "net" THEN "read" ELSE "idle"]
  /\ tmp' = [x \in Tasks |-> NoTarget]
  /\ svc' = Nothing
  /\ s_ipp_advertised' = FALSE /\ s_ipps_advertised' = FALSE
  /\ s_everywhere_advertised' = FALSE /\ s_advertisement' = Absent
  /\ ready' = FALSE
  /\ UNCHANGED <<net, nvs, name, choice>>

Next ==
  \/ \E x \in Tasks : Save(x) \/ SaveFails(x) \/ Store(x) \/ Advertise(x) \/ AdvertiseFails(x)
  \/ Select \/ Clear \/ Remove \/ Rename \/ Scan \/ Compare \/ KeepList
  \/ \E x \in Nets : NetworkReady(x) \/ ReadTarget(x) \/ Resolve(x)
  \/ \E w \in Workers : Ask(w) \/ Reply(w) \/ Update(w)
  \/ NetworkChanges \/ Restart

Spec == Init /\ [][Next]_vars

----------------------------------------------------------------------------
Quiet == \A x \in Tasks : at[x] = "idle"

PrinterOf(t) == IF t = NoTarget THEN NoTarget ELSE t.p

(* What the web page confirmed is what is kept: a printer whose selection  *)
(* was confirmed, or a confirmed clear, is what memory and NVS say         *)
(* afterwards, through refreshes, failed writes, failed mDNS calls and     *)
(* power loss between any two steps. This needs a network that stays as it *)
(* is: the refreshes then have nothing to write.                           *)
ConfirmedIsKept ==
  choice # Unknown => PrinterOf(nvs) = choice /\ PrinterOf(ram) = choice

(* Once the tasks have come to rest, the device announces the printer in   *)
(* its memory or none at all, and it announces nothing when none is        *)
(* selected: whichever of several concurrent changes came last, its        *)
(* advertisement is not lost behind an older one.                          *)
AdvertisedIsSelected ==
  Quiet =>
    IF ram = NoTarget THEN svc = Nothing
    ELSE svc = Nothing \/ svc = [s \in Services |-> Build(ram, name)]

(* A flag that says "advertised" is never ahead of the mDNS table: the     *)
(* update path it leads to finds the services it edits, and a clear knows  *)
(* what to remove, also after calls that failed half way.                  *)
FlagsAreRegistered ==
  /\ s_ipp_advertised => svc["ipp"] # Absent /\ s_advertisement # Absent
  /\ s_ipps_advertised => svc["ipps"] # Absent

(* "Replace the in-memory profile ... during live refresh": a worker's     *)
(* refresh changes the profile of the selected printer; it does not select *)
(* a printer, in particular none that the user has cleared or replaced.    *)
RefreshKeepsSelection ==
  [][\A w \in Workers : at[w] = "update" /\ at'[w] = "advertise"
       => PrinterOf(ram') = PrinterOf(ram)]_vars
=============================================================================
