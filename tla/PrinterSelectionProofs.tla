------------------------ MODULE PrinterSelectionProofs ------------------------
(***************************************************************************)
(* The selected printer and its advertisement, for any printers, names,    *)
(* workers, networks and number of restarts: the flags never run ahead of  *)
(* the mDNS table; a device at rest announces what it has selected; what   *)
(* the user was told stays selected.                                       *)
(***************************************************************************)
EXTENDS PrinterSelection, SequenceTheorems, TLAPS

(* Which task is in which operation, and where it may be there.            *)
WebPlaces ==
  /\ op["web"] \in {"idle", "select", "clear", "scan", "rename"}
  /\ op["web"] = "idle" => at["web"] = "idle"
  /\ op["web"] = "select" => at["web"] \in {"save", "store", "advertise"}
  /\ op["web"] = "clear" => at["web"] \in {"save", "store", "remove"}
  /\ op["web"] = "scan" => at["web"] \in {"compare", "save", "store", "list", "advertise"}
  /\ op["web"] = "rename" => at["web"] = "advertise"

NetPlaces ==
  \A x \in Nets :
    /\ op[x] \in {"idle", "refresh"}
    /\ op[x] = "idle" => at[x] = "idle"
    /\ at[x] \in {"idle", "read", "resolve", "save", "store", "advertise", "abort"}

WorkerPlaces ==
  \A w \in Workers :
    /\ op[w] \in {"idle", "gpa"}
    /\ at[w] \in {"idle", "ask", "update", "advertise"}

(* What their copies hold.                                                 *)
Copies ==
  /\ op["web"] = "select" => tmp["web"] \in Targets
  /\ op["web"] = "clear" => tmp["web"] = NoTarget
  /\ op["web"] = "scan" /\ at["web"] \in {"save", "store"} => tmp["web"] \in Targets
  /\ \A x \in Nets : at[x] \in {"resolve", "save", "store"} => tmp[x] \in Targets
  /\ \A w \in Workers : at[w] \in {"ask", "update"} => tmp[w] \in Targets

TasksOK ==
  /\ op \in [Tasks -> Ops] /\ at \in [Tasks -> Steps]
  /\ tmp \in [Tasks -> Targets \cup {NoTarget}]
  /\ WebPlaces /\ NetPlaces /\ WorkerPlaces
  /\ Copies

StoredOK ==
  /\ nvs \in Targets \cup {NoTarget}
  /\ ram \in Targets \cup {NoTarget}
  /\ name \in Names \cup {NoName}
  /\ list \subseteq Targets /\ found \subseteq Targets

MdnsOK ==
  /\ svc \in [Services -> Entries \cup {Absent}]
  /\ s_ipp_advertised \in BOOLEAN /\ s_ipps_advertised \in BOOLEAN
  /\ s_everywhere_advertised \in BOOLEAN
  /\ s_advertisement \in Entries \cup {Absent}
  /\ FlagsAreRegistered

RestOK ==
  /\ net \in Networks
  /\ ready \in BOOLEAN
  /\ choice \in Printers \cup {NoTarget, Unknown}
  /\ boots \in 0..MaxBoots

Sound == TasksOK /\ StoredOK /\ MdnsOK /\ RestOK

----------------------------------------------------------------------------
(* The mDNS table.                                                         *)

LEMMA BuildType ==
  ASSUME NEW t \in Targets, NEW n \in Names \cup {NoName}
  PROVE  Build(t, n) \in Entries
BY DEF Targets, Build, Entries

(* Edits change entries and add none; registrations add entries.           *)
LEMMA EditedType ==
  ASSUME svc \in [Services -> Entries \cup {Absent}], NEW adv \in Entries, NEW k
  PROVE  /\ Edited(adv, k) \in [Services -> Entries \cup {Absent}]
         /\ \A s \in Services : svc[s] # Absent => Edited(adv, k)[s] \in Entries
<1>1. ASSUME NEW s \in Services, svc[s] # Absent
      PROVE  [f \in {"inst", "txt", "print"} |->
                IF \E i \in 1..k : Edits(adv)[i] = <<s, f>> THEN adv[f] ELSE svc[s][f]]
               \in Entries
  <2>1. svc[s] \in Entries
    BY <1>1
  <2> DEFINE touched(f) == \E i \in 1..k : Edits(adv)[i] = <<s, f>>
  <2> HIDE DEF touched
  <2>2. [f \in {"inst", "txt", "print"} |-> IF touched(f) THEN adv[f] ELSE svc[s][f]]
          \in Entries
    BY <2>1 DEF Entries
  <2> QED
    BY <2>2 DEF touched
<1> QED
  BY <1>1 DEF Edited

LEMMA RegisteredType ==
  ASSUME svc \in [Services -> Entries \cup {Absent}], NEW adv \in Entries, NEW k
  PROVE  /\ Registered(adv, k) \in [Services -> Entries \cup {Absent}]
         /\ \A s \in Services : svc[s] # Absent => Registered(adv, k)[s] \in Entries
<1>1. ASSUME NEW b \in BOOLEAN PROVE [adv EXCEPT !.print = adv.print /\ b] \in Entries
  BY DEF Entries
<1>2. ASSUME NEW s \in Services
      PROVE  [adv EXCEPT !.print = adv.print /\ \E i \in 1..k : Registrations[i] = <<s, "print">>]
               \in Entries
  <2> DEFINE b == \E i \in 1..k : Registrations[i] = <<s, "print">>
  <2>1. b \in BOOLEAN
    OBVIOUS
  <2> HIDE DEF b
  <2>2. [adv EXCEPT !.print = adv.print /\ b] \in Entries
    BY <1>1, <2>1
  <2> QED
    BY <2>2 DEF b
<1> QED
  BY <1>2 DEF Registered

LEMMA RegisteredAll ==
  ASSUME NEW adv \in Entries
  PROVE  Registered(adv, 4) = [s \in Services |-> adv]
<1>1. ASSUME NEW s \in Services
      PROVE  /\ \E i \in 1..4 : Registrations[i] = <<s, "service">>
             /\ \E i \in 1..4 : Registrations[i] = <<s, "print">>
  <2>1. /\ Registrations[1] = <<"ipp", "service">> /\ Registrations[2] = <<"ipp", "print">>
        /\ Registrations[3] = <<"ipps", "service">> /\ Registrations[4] = <<"ipps", "print">>
    BY DEF Registrations
  <2>2. s = "ipp" \/ s = "ipps"
    BY DEF Services
  <2> QED
    BY <2>1, <2>2
<1>2. [adv EXCEPT !.print = adv.print /\ TRUE] = adv
  BY DEF Entries
<1> QED
  BY <1>1, <1>2 DEF Registered

LEMMA ThreeParts ==
  ASSUME NEW S, NEW x \in Seq(S), NEW y \in Seq(S), NEW z \in Seq(S)
  PROVE  /\ Len(x \o y \o z) = Len(x) + Len(y) + Len(z)
         /\ \A i \in 1..Len(x) : (x \o y \o z)[i] = x[i]
         /\ \A i \in 1..Len(y) : (x \o y \o z)[Len(x) + i] = y[i]
         /\ \A i \in 1..Len(z) : (x \o y \o z)[Len(x) + Len(y) + i] = z[i]
<1>1. x \o y \in Seq(S)
  BY ConcatProperties
<1> QED
  BY <1>1, ConcatProperties, LenProperties

Fields == {"ipp", "ipps"} \X {"inst", "txt", "print"}

LEMMA TwoFields ==
  ASSUME NEW f \in {"inst", "txt", "print"}
  PROVE  <<<<"ipp", f>>, <<"ipps", f>>>> \in Seq(Fields)
<1>1. <<"ipp", f>> \in Fields /\ <<"ipps", f>> \in Fields
  BY DEF Fields
<1> QED
  BY <1>1

LEMMA EditsType == ASSUME NEW adv PROVE Edits(adv) \in Seq(Fields)
BY TwoFields, ConcatProperties, EmptySeq DEF Edits

(* The edits of advertise_selected_locked reach every field that differs   *)
(* from what was announced.                                                *)
LEMMA EditedAll ==
  ASSUME NEW adv \in Entries, s_advertisement \in Entries,
         s_everywhere_advertised = s_advertisement.print,
         svc = [s \in Services |-> s_advertisement]
  PROVE  Edited(adv, Len(Edits(adv))) = [s \in Services |-> adv]
<1> DEFINE x == IF adv.inst # s_advertisement.inst
                THEN <<<<"ipp", "inst">>, <<"ipps", "inst">>>> ELSE <<>>
           y == <<<<"ipp", "txt">>, <<"ipps", "txt">>>>
           z == IF adv.print # s_everywhere_advertised
                THEN <<<<"ipp", "print">>, <<"ipps", "print">>>> ELSE <<>>
           e == Edits(adv)
<1>1. x \in Seq(Fields) /\ y \in Seq(Fields) /\ z \in Seq(Fields)
  BY TwoFields, EmptySeq
<1>2. /\ Len(e) = Len(x) + Len(y) + Len(z)
      /\ \A i \in 1..Len(x) : e[i] = x[i]
      /\ \A i \in 1..Len(y) : e[Len(x) + i] = y[i]
      /\ \A i \in 1..Len(z) : e[Len(x) + Len(y) + i] = z[i]
  <2>1. e = x \o y \o z
    BY DEF Edits
  <2> HIDE DEF x, y, z, e
  <2> QED
    BY <1>1, <2>1, ThreeParts
<1> DEFINE touched(s, f) == \E i \in 1..Len(e) : e[i] = <<s, f>>
<1>3. Len(x) \in Nat /\ Len(y) = 2 /\ Len(z) \in Nat
  OBVIOUS
<1>4. ASSUME NEW s \in Services PROVE touched(s, "txt")
  <2>1. 1 \in 1..2 /\ 2 \in 1..2 /\ Len(x) + 1 \in 1..Len(e) /\ Len(x) + 2 \in 1..Len(e)
    BY <1>2, <1>3
  <2>2. e[Len(x) + 1] = <<"ipp", "txt">> /\ e[Len(x) + 2] = <<"ipps", "txt">>
    BY <1>2, <1>3, <2>1
  <2> HIDE DEF x, y, z, e
  <2> QED
    BY <2>1, <2>2 DEF Services
<1>5. ASSUME NEW s \in Services, adv.inst # s_advertisement.inst PROVE touched(s, "inst")
  <2>1. x = <<<<"ipp", "inst">>, <<"ipps", "inst">>>> /\ Len(x) = 2
    BY <1>5
  <2>2. e[1] = <<"ipp", "inst">> /\ e[2] = <<"ipps", "inst">> /\ Len(e) \in Nat /\ Len(e) >= 2
    BY <1>2, <1>3, <2>1
  <2> HIDE DEF x, y, z, e
  <2> QED
    BY <2>2 DEF Services
<1>6. ASSUME NEW s \in Services, adv.print # s_everywhere_advertised PROVE touched(s, "print")
  <2>1. z = <<<<"ipp", "print">>, <<"ipps", "print">>>> /\ Len(z) = 2
    BY <1>6
  <2>2. Len(x) + Len(y) + 1 \in 1..Len(e) /\ Len(x) + Len(y) + 2 \in 1..Len(e)
    BY <1>2, <1>3, <2>1
  <2>3. e[Len(x) + Len(y) + 1] = <<"ipp", "print">> /\ e[Len(x) + Len(y) + 2] = <<"ipps", "print">>
    BY <1>2, <1>3, <2>1
  <2> HIDE DEF x, y, z, e
  <2> QED
    BY <2>2, <2>3 DEF Services
<1>7. ASSUME NEW s \in Services
      PROVE  [f \in {"inst", "txt", "print"} |-> IF touched(s, f) THEN adv[f] ELSE svc[s][f]] = adv
  <2>1. svc[s] = s_advertisement
    OBVIOUS
  <2>2. \A f \in {"inst", "txt", "print"} : ~touched(s, f) => svc[s][f] = adv[f]
    BY <1>4, <1>5, <1>6, <2>1
  <2> HIDE DEF touched
  <2> QED
    BY <2>2 DEF Entries
<1>8. \A s \in Services : svc[s] # Absent
  BY SentinelAssumption
<1> QED
  BY <1>7, <1>8 DEF Edited

(* The flags and the table agree when no mDNS call fails.                  *)
Table ==
  \/ /\ ~s_ipp_advertised /\ ~s_ipps_advertised
     /\ svc = Nothing
  \/ /\ s_ipp_advertised /\ s_ipps_advertised
     /\ s_advertisement \in Entries
     /\ s_everywhere_advertised = s_advertisement.print
     /\ svc = [s \in Services |-> s_advertisement]

LEMMA TableAdvertised ==
  ASSUME Table, NEW adv \in Entries, Advertised(adv)
  PROVE  /\ s_ipp_advertised' /\ s_ipps_advertised'
         /\ s_advertisement' = adv
         /\ s_everywhere_advertised' = adv.print
         /\ svc' = [s \in Services |-> adv]
<1>1. CASE s_ipp_advertised /\ s_ipps_advertised /\ s_advertisement = adv /\ UNCHANGED mdns
  BY <1>1 DEF Table, mdns
<1>2. CASE /\ s_ipp_advertised
           /\ svc' = Edited(adv, Len(Edits(adv)))
           /\ Noted(adv)
           /\ UNCHANGED <<s_ipp_advertised, s_ipps_advertised>>
  BY <1>2, EditedAll DEF Table, Noted
<1>3. CASE /\ svc' = Registered(adv, 4)
           /\ Noted(adv)
           /\ s_ipp_advertised' = TRUE /\ s_ipps_advertised' = TRUE
  BY <1>3, RegisteredAll DEF Noted
<1> QED
  BY <1>1, <1>2, <1>3 DEF Advertised

LEMMA TableNeverFails ==
  ASSUME MdnsFails = FALSE, Table, NEW adv \in Entries, AdvertisingFails(adv)
  PROVE  FALSE
<1>1. CASE s_ipp_advertised
  <2>1. PICK k \in 0..Len(Edits(adv)) - 1 : ~CanEdit(adv, k + 1)
    BY <1>1 DEF AdvertisingFails
  <2>2. PICK i \in 1..k + 1 : svc[Edits(adv)[i][1]] = Absent
    BY <2>1 DEF CanEdit
  <2>3. Edits(adv)[i] \in Fields
    BY EditsType, LenProperties, ElementOfSeq
  <2> QED
    BY <1>1, <2>2, <2>3, SentinelAssumption DEF Table, Fields, Services
<1>2. CASE ~s_ipp_advertised
  <2>1. PICK k \in 0..3 : ~CanRegister(k + 1)
    BY <1>2 DEF AdvertisingFails
  <2> QED
    BY <1>2, <2>1 DEF CanRegister, Table, Nothing, Registrations, Services
<1> QED
  BY <1>1, <1>2

----------------------------------------------------------------------------
(* Types, places and flags.                                                *)

LEMMA SoundInit == Init => Sound
<1> SUFFICES ASSUME Init PROVE Sound
  OBVIOUS
<1>1. net \in [Printers -> [addr : Addrs, everywhere : BOOLEAN]]
  BY SelectionAssumption DEF Init
<1>2. \A p \in Printers : Profile(p) \in Targets
  BY <1>1 DEF Profile, Targets
<1>3. StoredOK
  BY <1>2 DEF Init, StoredOK
<1>4. TasksOK
  BY SelectionAssumption DEF Init, TasksOK, Tasks, Ops, Steps, WebPlaces, NetPlaces, WorkerPlaces, Copies
<1>5. MdnsOK
  BY DEF Init, MdnsOK, FlagsAreRegistered, Nothing
<1>6. RestOK
  <2>1. choice \in Printers \cup {NoTarget, Unknown}
    BY <1>2 DEF Init, Profile
  <2>2. ready \in BOOLEAN
    BY DEF Init
  <2> QED
    BY <2>1, <2>2, SelectionAssumption DEF Init, RestOK
<1> QED
  BY <1>3, <1>4, <1>5, <1>6 DEF Sound

(* Profiles taken from the network are targets.                            *)
LEMMA ProfileType ==
  ASSUME Sound, NEW p \in Printers
  PROVE  Profile(p) \in Targets
<1>1. net \in [Printers -> [addr : Addrs, everywhere : BOOLEAN]]
  BY SelectionAssumption DEF Sound, RestOK
<1> QED
  BY <1>1 DEF Profile, Targets

LEMMA AdvertisedOK ==
  ASSUME Sound, NEW adv \in Entries, Advertised(adv) \/ AdvertisingFails(adv)
  PROVE  MdnsOK'
<1> USE DEF Sound, MdnsOK
<1>1. adv.print \in BOOLEAN /\ adv # Absent
  BY SentinelAssumption DEF Entries
<1>2. \A s \in Services : svc[s] # Absent => svc'[s] # Absent
  BY EditedType, RegisteredType, SentinelAssumption DEF Advertised, AdvertisingFails, mdns
<1>3. svc' \in [Services -> Entries \cup {Absent}]
  BY EditedType, RegisteredType DEF Advertised, AdvertisingFails, mdns
<1>4. CASE AdvertisingFails(adv)
  BY <1>2, <1>3, <1>4 DEF AdvertisingFails, FlagsAreRegistered, Services
<1>5. CASE s_ipp_advertised /\ Advertised(adv)
  <2>1. UNCHANGED <<s_ipp_advertised, s_ipps_advertised>>
    BY <1>5 DEF Advertised, mdns
  <2>2. \/ UNCHANGED <<s_advertisement, s_everywhere_advertised>>
        \/ s_advertisement' = adv /\ s_everywhere_advertised' = adv.print
    BY <1>5 DEF Advertised, mdns, Noted
  <2> QED
    BY <1>1, <1>2, <1>3, <2>1, <2>2 DEF FlagsAreRegistered, Services
<1>6. CASE ~s_ipp_advertised /\ Advertised(adv)
  <2>1. svc' = [s \in Services |-> adv]
    BY <1>6, RegisteredAll DEF Advertised
  <2>2. Noted(adv) /\ s_ipp_advertised' = TRUE /\ s_ipps_advertised' = TRUE
    BY <1>6 DEF Advertised
  <2> QED
    BY <1>1, <1>3, <2>1, <2>2 DEF Noted, FlagsAreRegistered, Services
<1> QED
  BY <1>4, <1>5, <1>6

LEMMA Apart == "web" \notin Nets \cup Workers /\ Nets \cap Workers = {}
BY SelectionAssumption DEF Nets

(* Steps between NVS, memory and the advertisement, of any task.           *)
LEMMA TaskStep ==
  ASSUME Sound, NEW x \in Tasks,
         Save(x) \/ SaveFails(x) \/ Store(x) \/ Advertise(x) \/ AdvertiseFails(x)
  PROVE  Sound'
<1> USE DEF Sound
<1>1. x = "web" \/ x \in Nets \/ x \in Workers
  BY DEF Tasks
<1>2. TasksOK'
  <2> USE SelectionAssumption DEF TasksOK, Tasks, Ops, Steps, WebPlaces, NetPlaces, WorkerPlaces, Copies
  <2>1. CASE Save(x)
    BY <1>1, <2>1 DEF Save, Goto
  <2>2. CASE SaveFails(x)
    BY <1>1, <2>2 DEF SaveFails
  <2>3. CASE Store(x)
    BY <1>1, <2>3 DEF Store, Goto
  <2>4. CASE Advertise(x)
    BY <1>1, <2>4 DEF Advertise, Goto
  <2>5. CASE AdvertiseFails(x)
    BY <1>1, <2>5 DEF AdvertiseFails, Goto
  <2> QED
    BY <2>1, <2>2, <2>3, <2>4, <2>5
<1>3. StoredOK'
  <2>1. CASE Save(x) \/ SaveFails(x) \/ Store(x)
    BY <2>1 DEF TasksOK, StoredOK, Save, SaveFails, Store
  <2>2. CASE Advertise(x) \/ AdvertiseFails(x)
    BY <2>2 DEF StoredOK, Advertise, AdvertiseFails, stored
  <2> QED
    BY <2>1, <2>2
<1>4. MdnsOK'
  <2>1. CASE Save(x) \/ SaveFails(x) \/ Store(x)
    BY <2>1 DEF MdnsOK, FlagsAreRegistered, Save, SaveFails, Store, mdns
  <2>2. CASE (Advertise(x) \/ AdvertiseFails(x)) /\ ram # NoTarget
    <3>1. Build(ram, name) \in Entries
      BY <2>2, BuildType DEF StoredOK
    <3>2. Advertised(Build(ram, name)) \/ AdvertisingFails(Build(ram, name))
      BY <2>2 DEF Advertise, AdvertiseFails
    <3> QED
      BY <3>1, <3>2, AdvertisedOK
  <2>3. CASE Advertise(x) /\ ram = NoTarget
    BY <2>3 DEF MdnsOK, FlagsAreRegistered, Advertise, mdns
  <2> QED
    BY <2>1, <2>2, <2>3 DEF AdvertiseFails
<1>5. RestOK'
  <2>1. CASE Save(x) \/ SaveFails(x) \/ Store(x) \/ AdvertiseFails(x)
    BY <2>1 DEF RestOK, Save, SaveFails, Store, AdvertiseFails
  <2>2. CASE Advertise(x)
    <3>1. op[x] = "select" => tmp[x] \in Targets
      BY <1>1 DEF TasksOK, Copies, NetPlaces, WorkerPlaces
    <3>2. choice' \in Printers \cup {NoTarget, Unknown}
      BY <2>2, <3>1 DEF RestOK, Advertise, Targets
    <3>3. ready' \in BOOLEAN
      BY <2>2 DEF Advertise
    <3> QED
      BY <2>2, <3>2, <3>3 DEF RestOK, Advertise
  <2> QED
    BY <2>1, <2>2
<1> QED
  BY <1>2, <1>3, <1>4, <1>5

(* The web server's task.                                                  *)
LEMMA WebStep ==
  ASSUME Sound, Select \/ Clear \/ Remove \/ Rename \/ Scan \/ Compare \/ KeepList
  PROVE  Sound'
<1> USE DEF Sound
<1>1. TasksOK'
  <2> USE SelectionAssumption DEF TasksOK, StoredOK, Tasks, Ops, Steps, WebPlaces, NetPlaces,
        WorkerPlaces, Copies
  <2>1. CASE Select
    BY <2>1, Apart DEF Select, Begin
  <2>2. CASE Clear
    BY <2>2, Apart DEF Clear, Begin
  <2>3. CASE Remove
    <3>1. Goto("web", "idle")
      BY <2>3 DEF Remove
    <3> QED
      BY <3>1 DEF Goto
  <2>4. CASE Rename
    BY <2>4, Apart DEF Rename, Begin
  <2>5. CASE Scan
    BY <2>5, Apart DEF Scan, Begin
  <2>6. CASE Compare
    <3>1. op["web"] = "scan" /\ UNCHANGED op
      BY <2>6 DEF Compare
    <3>2. CASE at' = [at EXCEPT !["web"] = "list"] /\ UNCHANGED tmp
      BY <3>1, <3>2
    <3>3. ASSUME NEW t \in found,
                 at' = [at EXCEPT !["web"] = "save"], tmp' = [tmp EXCEPT !["web"] = t]
          PROVE  TasksOK'
      BY <3>1, <3>3
    <3> QED
      BY <2>6, <3>2, <3>3 DEF Compare
  <2>7. CASE KeepList
    BY <2>7 DEF KeepList, Goto
  <2> QED
    BY <2>1, <2>2, <2>3, <2>4, <2>5, <2>6, <2>7
<1>2. StoredOK'
  <2>1. CASE Scan
    BY <2>1, ProfileType DEF StoredOK, Scan, stored
  <2>2. CASE ~Scan
    BY <2>2 DEF StoredOK, Select, Clear, Remove, Rename, Compare, KeepList, stored
  <2> QED
    BY <2>1, <2>2
<1>3. MdnsOK'
  <2>1. CASE Remove
    <3>1. PICK okIpp, okIpps \in BOOLEAN :
            /\ s_ipp_advertised' = (s_ipp_advertised /\ ~okIpp)
            /\ s_advertisement' = IF s_ipp_advertised /\ okIpp THEN Absent ELSE s_advertisement
            /\ s_ipps_advertised' = (s_ipps_advertised /\ ~okIpps)
            /\ s_everywhere_advertised' =
                 (s_everywhere_advertised /\ ~(s_ipps_advertised /\ okIpps))
            /\ svc' = [svc EXCEPT !["ipp"] = IF s_ipp_advertised /\ okIpp THEN Absent ELSE @,
                                  !["ipps"] = IF s_ipps_advertised /\ okIpps THEN Absent ELSE @]
      BY <2>1 DEF Remove
    <3>2. /\ s_ipp_advertised' \in BOOLEAN /\ s_ipps_advertised' \in BOOLEAN
          /\ s_everywhere_advertised' \in BOOLEAN
      BY <3>1
    <3>3. svc' \in [Services -> Entries \cup {Absent}]
      BY <3>1 DEF MdnsOK, Services
    <3> QED
      BY <3>1, <3>2, <3>3 DEF MdnsOK, FlagsAreRegistered, Services
  <2>2. CASE ~Remove
    BY <2>2 DEF MdnsOK, FlagsAreRegistered, mdns, Select, Clear, Rename, Scan, Compare, KeepList
  <2> QED
    BY <2>1, <2>2
<1>4. RestOK'
  <2>1. choice' \in {choice, NoTarget, Unknown}
    BY DEF Select, Clear, Remove, Rename, Scan, Compare, KeepList
  <2>2. UNCHANGED <<net, ready, boots>>
    BY DEF Select, Clear, Remove, Rename, Scan, Compare, KeepList
  <2> QED
    BY <2>1, <2>2 DEF RestOK
<1> QED
  BY <1>1, <1>2, <1>3, <1>4

(* Boot and network, and the workers.                                      *)
LEMMA RefreshStep ==
  ASSUME Sound, \/ \E x \in Nets : NetworkReady(x) \/ ReadTarget(x) \/ Resolve(x)
                \/ \E w \in Workers : Ask(w) \/ Reply(w) \/ Update(w)
  PROVE  Sound'
<1> USE DEF Sound
<1>1. net \in [Printers -> [addr : Addrs, everywhere : BOOLEAN]]
  BY SelectionAssumption DEF RestOK
<1>2. TasksOK'
  <2> USE SelectionAssumption DEF TasksOK, StoredOK, Tasks, Ops, Steps, WebPlaces, NetPlaces,
        WorkerPlaces, Copies
  <2>1. ASSUME NEW x \in Nets, NetworkReady(x) PROVE TasksOK'
    BY Apart, <2>1 DEF NetworkReady, Begin
  <2>2. ASSUME NEW x \in Nets, ReadTarget(x) PROVE TasksOK'
    BY Apart, <2>2 DEF ReadTarget
  <2>3. ASSUME NEW x \in Nets, Resolve(x) PROVE TasksOK'
    <3>1. tmp[x] \in Targets
      BY <2>3 DEF Resolve
    <3>2. [tmp[x] EXCEPT !.addr = net[tmp[x].p].addr] \in Targets
      BY <1>1, <3>1 DEF Targets
    <3>3. PICK t \in Targets, step \in {"save", "advertise"} :
            /\ at' = [at EXCEPT ![x] = step]
            /\ tmp' = [tmp EXCEPT ![x] = t]
      <4>1. tmp = [tmp EXCEPT ![x] = tmp[x]]
        OBVIOUS
      <4> QED
        BY <2>3, <3>1, <3>2, <4>1 DEF Resolve
    <3> QED
      BY Apart, <2>3, <3>3 DEF Resolve
  <2>4. ASSUME NEW w \in Workers, Ask(w) PROVE TasksOK'
    BY <2>4, Apart DEF Ask, Begin
  <2>5. ASSUME NEW w \in Workers, Reply(w) PROVE TasksOK'
    <3>1. tmp[w] \in Targets
      BY <2>5 DEF Reply
    <3>2. \A p \in Printers : [tmp[w] EXCEPT !.everywhere = net[p].everywhere] \in Targets
      BY <1>1, <3>1 DEF Targets
    <3> QED
      BY <2>5, <3>1, <3>2 DEF Reply, Goto
  <2>6. ASSUME NEW w \in Workers, Update(w) PROVE TasksOK'
    BY <2>6 DEF Update, Goto
  <2> QED
    BY <2>1, <2>2, <2>3, <2>4, <2>5, <2>6
<1>3. StoredOK'
  <2>1. \A w \in Workers : tmp[w] \in Targets \cup {NoTarget}
    BY DEF TasksOK, Tasks
  <2> QED
    BY <2>1 DEF StoredOK, NetworkReady, ReadTarget, Resolve, Ask, Reply, Update, stored
<1>4. MdnsOK' /\ RestOK'
  <2>1. UNCHANGED <<mdns, net, ready, choice, boots>>
    BY DEF NetworkReady, ReadTarget, Resolve, Ask, Reply, Update
  <2> QED
    BY <2>1 DEF MdnsOK, RestOK, FlagsAreRegistered, mdns
<1> QED
  BY <1>2, <1>3, <1>4

LEMMA WorldStep ==
  ASSUME Sound, NetworkChanges \/ Restart
  PROVE  Sound'
<1>1. CASE NetworkChanges
  BY <1>1 DEF NetworkChanges, Sound, TasksOK, WebPlaces, NetPlaces, WorkerPlaces, Copies,
     StoredOK, MdnsOK, FlagsAreRegistered, RestOK, stored, tasks, mdns
<1>2. CASE Restart
  <2>1. StoredOK'
    BY <1>2 DEF Restart, Sound, StoredOK
  <2>2. TasksOK'
    BY <1>2, SelectionAssumption DEF Restart, TasksOK, Tasks, Ops, Steps, WebPlaces, NetPlaces,
       WorkerPlaces, Copies
  <2>3. MdnsOK'
    BY <1>2 DEF Restart, MdnsOK, FlagsAreRegistered, Nothing
  <2>4. ready' \in BOOLEAN
    BY <1>2 DEF Restart
  <2>5. RestOK'
    BY <1>2, <2>4, SelectionAssumption DEF Restart, Sound, RestOK
  <2> QED
    BY <2>1, <2>2, <2>3, <2>5 DEF Sound
<1> QED
  BY <1>1, <1>2

LEMMA SoundStep == Sound /\ [Next]_vars => Sound'
<1> SUFFICES ASSUME Sound, [Next]_vars PROVE Sound'
  OBVIOUS
<1>1. CASE UNCHANGED vars
  BY <1>1 DEF vars, Sound, TasksOK, WebPlaces, NetPlaces, WorkerPlaces, Copies,
     StoredOK, MdnsOK, FlagsAreRegistered, RestOK, stored, tasks, mdns
<1> QED
  BY <1>1, TaskStep, WebStep, RefreshStep, WorldStep DEF Next

LEMMA SoundAlways == Spec => []Sound
BY SoundInit, SoundStep, PTL DEF Spec

(* The types of the selection hold, and a flag that says "advertised" is   *)
(* never ahead of the mDNS table: for any printers, names and workers, in  *)
(* every interleaving of web server, boot and refreshes, whichever NVS or  *)
(* mDNS call fails half way, and over restarts.                            *)
THEOREM FlagsFollowTable == Spec => [](SelectionTypeOK /\ FlagsAreRegistered)
<1>1. Sound => SelectionTypeOK /\ FlagsAreRegistered
  BY DEF Sound, TasksOK, StoredOK, MdnsOK, RestOK, SelectionTypeOK
<1> QED
  BY <1>1, SoundAlways, PTL

----------------------------------------------------------------------------
(* What is announced, where no mDNS call fails.                            *)

(* A task that will advertise before it comes to rest.                     *)
Due(x) == at[x] = "advertise" \/ (x = "web" /\ at[x] = "list" /\ tmp[x] # NoTarget)

(* Whoever has made the table out of date is on its way to correct it.     *)
Announced ==
  s_ipp_advertised =>
    IF ram = NoTarget THEN at["web"] = "remove"
    ELSE s_advertisement = Build(ram, name) \/ \E x \in Tasks : Due(x)

LEMMA AnnouncedTask ==
  ASSUME MdnsFails = FALSE, Sound, Table, Announced, NEW x \in Tasks,
         Save(x) \/ SaveFails(x) \/ Store(x) \/ Advertise(x) \/ AdvertiseFails(x)
  PROVE  Table' /\ Announced'
<1> USE DEF Sound, TasksOK
<1>1. x = "web" \/ x \in Nets \/ x \in Workers
  BY DEF Tasks
<1>2. "web" \in Tasks
  BY DEF Tasks
<1>3. CASE Save(x)
  BY <1>2, <1>3 DEF Save, Goto, Table, Announced, Due, mdns
<1>4. CASE SaveFails(x)
  BY <1>2, <1>4 DEF SaveFails, Table, Announced, Due, mdns
<1>5. CASE Store(x)
  <2>1. Table'
    BY <1>5 DEF Store, Table, mdns
  <2>2. CASE op[x] = "clear"
    <3>1. x = "web" /\ tmp[x] = NoTarget
      BY <1>1, <2>2 DEF Copies, NetPlaces, WorkerPlaces
    <3> QED
      BY <1>2, <1>5, <2>1, <2>2, <3>1 DEF Store, Goto, Announced
  <2>3. CASE op[x] # "clear"
    <3>1. tmp[x] \in Targets
      BY <1>1, <1>5, <2>3 DEF Store, Copies, WebPlaces, NetPlaces, WorkerPlaces
    <3>2. op[x] = "scan" => x = "web"
      BY <1>1 DEF NetPlaces, WorkerPlaces
    <3>3. ram' # NoTarget /\ Due(x)'
      BY <1>5, <2>3, <3>1, <3>2, SentinelAssumption DEF Store, Goto, Due
    <3> QED
      BY <2>1, <3>3 DEF Announced
  <2> QED
    BY <2>2, <2>3
<1>6. CASE Advertise(x) /\ ram = NoTarget
  <2>1. UNCHANGED <<mdns, ram>>
    BY <1>6 DEF Advertise, stored
  <2>2. at["web"] = "remove" => at'["web"] = "remove"
    BY <1>2, <1>6 DEF Advertise, Goto
  <2> QED
    BY <1>6, <2>1, <2>2 DEF Table, Announced, mdns
<1>7. CASE Advertise(x) /\ ram # NoTarget
  <2>1. Build(ram, name) \in Entries
    BY <1>7, BuildType DEF StoredOK
  <2>2. Advertised(Build(ram, name)) /\ UNCHANGED <<ram, name>>
    BY <1>7 DEF Advertise, stored
  <2>3. /\ s_ipp_advertised' /\ s_ipps_advertised'
        /\ s_advertisement' = Build(ram, name)
        /\ s_everywhere_advertised' = s_advertisement'.print
        /\ svc' = [s \in Services |-> s_advertisement']
    BY <2>1, <2>2, TableAdvertised
  <2>4. Build(ram', name') = Build(ram, name)
    BY <2>2
  <2> QED
    BY <1>7, <2>1, <2>2, <2>3, <2>4 DEF Table, Announced
<1>8. CASE AdvertiseFails(x)
  BY <1>8, BuildType, TableNeverFails DEF AdvertiseFails, StoredOK
<1> QED
  BY <1>3, <1>4, <1>5, <1>6, <1>7, <1>8

LEMMA AnnouncedWeb ==
  ASSUME MdnsFails = FALSE, Sound, Table, Announced,
         Select \/ Clear \/ Remove \/ Rename \/ Scan \/ Compare \/ KeepList
  PROVE  Table' /\ Announced'
<1> USE DEF Sound, TasksOK
<1>1. "web" \in Tasks
  BY DEF Tasks
<1>2. CASE Select \/ Clear \/ Scan
  BY <1>1, <1>2 DEF Select, Clear, Scan, Begin, Table, Announced, Due, mdns, stored
<1>3. CASE Remove
  <2>1. /\ s_ipp_advertised' = FALSE
        /\ s_ipps_advertised' = FALSE
        /\ svc' = [svc EXCEPT !["ipp"] = IF s_ipp_advertised THEN Absent ELSE @,
                              !["ipps"] = IF s_ipps_advertised THEN Absent ELSE @]
    BY <1>3 DEF Remove
  <2>2. svc' = Nothing
    BY <2>1 DEF Table, Nothing, Services
  <2> QED
    BY <2>1, <2>2 DEF Table, Announced
<1>4. CASE Rename
  <2>1. Due("web")' /\ ram' # NoTarget /\ UNCHANGED mdns
    BY <1>1, <1>4 DEF Rename, Begin, Due
  <2> QED
    BY <1>1, <2>1 DEF Table, Announced, mdns
<1>5. CASE Compare
  BY <1>1, <1>5 DEF Compare, Table, Announced, Due, mdns, stored
<1>6. CASE KeepList
  BY <1>1, <1>6 DEF KeepList, Goto, Table, Announced, Due, mdns, stored
<1> QED
  BY <1>2, <1>3, <1>4, <1>5, <1>6

LEMMA AnnouncedOther ==
  ASSUME Sound, Table, Announced,
         \/ \E x \in Nets : NetworkReady(x) \/ ReadTarget(x) \/ Resolve(x)
         \/ \E w \in Workers : Ask(w) \/ Reply(w) \/ Update(w)
         \/ NetworkChanges \/ Restart
  PROVE  Table' /\ Announced'
<1> USE SelectionAssumption DEF Sound, TasksOK, Tasks
<1>1. ASSUME NEW x \in Nets, NetworkReady(x) \/ ReadTarget(x) \/ Resolve(x)
      PROVE  Table' /\ Announced'
  BY <1>1 DEF NetworkReady, ReadTarget, Resolve, Begin, Table, Announced, Due, mdns, stored
<1>2. ASSUME NEW w \in Workers, Ask(w) \/ Reply(w) PROVE Table' /\ Announced'
  BY <1>2 DEF Ask, Reply, Begin, Goto, Table, Announced, Due, mdns, stored
<1>3. ASSUME NEW w \in Workers, Update(w) PROVE Table' /\ Announced'
  <2>1. Due(w)' /\ ram' # NoTarget /\ UNCHANGED mdns
    BY <1>3, SentinelAssumption DEF Update, Goto, Due, Copies
  <2> QED
    BY <2>1 DEF Table, Announced, mdns
<1>4. CASE NetworkChanges
  BY <1>4 DEF NetworkChanges, Table, Announced, Due, tasks, mdns, stored
<1>5. CASE Restart
  BY <1>5 DEF Restart, Table, Announced
<1> QED
  BY <1>1, <1>2, <1>3, <1>4, <1>5

(* Where no mDNS call fails for want of memory, a device whose tasks have  *)
(* come to rest announces the printer in its memory or nothing: for any    *)
(* number of workers that refresh the profile, while printers move, the    *)
(* user selects, clears, renames and scans, and the device restarts.       *)
THEOREM AnnouncedIsSelected ==
  ASSUME MdnsFails = FALSE
  PROVE  Spec => []AdvertisedIsSelected
<1>1. Init => Table /\ Announced
  BY DEF Init, Table, Announced
<1>2. Sound /\ (Table /\ Announced) /\ [Next]_vars => (Table /\ Announced)'
  <2> SUFFICES ASSUME Sound, Table, Announced, [Next]_vars PROVE Table' /\ Announced'
    OBVIOUS
  <2>1. CASE UNCHANGED vars
    BY <2>1 DEF vars, stored, tasks, mdns, Table, Announced, Due
  <2> QED
    BY <2>1, AnnouncedTask, AnnouncedWeb, AnnouncedOther DEF Next
<1>3. Sound /\ Table /\ Announced => AdvertisedIsSelected
  BY DEF Table, Announced, AdvertisedIsSelected, Quiet, Due, Tasks
<1> QED
  BY <1>1, <1>2, <1>3, SoundAlways, PTL DEF Spec

----------------------------------------------------------------------------
(* What the user was told, where the network stays as it is.               *)

(* Every printer keeps its address and its profile, and no two share one.  *)
StillNetwork ==
  \E n \in Networks :
    /\ Networks = {n}
    /\ \A p, q \in Printers : n[p].addr = n[q].addr => p = q

Profiles == {Profile(p) : p \in Printers}

(* Only profiles of the network are stored, so that only the user's choice *)
(* is ever saved. From then on until it is confirmed, NVS and memory take  *)
(* it one after the other.                                                 *)
Kept ==
  /\ nvs \in Profiles \cup {NoTarget} /\ ram \in Profiles \cup {NoTarget}
  /\ list \subseteq Profiles /\ found \subseteq Profiles
  /\ \A x \in Tasks : tmp[x] \in Profiles \cup {NoTarget}
  /\ at["web"] \in {"save", "store"} => op["web"] # "scan"
  /\ \A x \in Nets : at[x] \notin {"save", "store"}
  /\ \A w \in Workers : at[w] # "update"
  /\ op["web"] \in {"select", "clear"} =>
       /\ choice = Unknown
       /\ at["web"] # "save" => nvs = tmp["web"]
       /\ at["web"] \notin {"save", "store"} => ram = tmp["web"]
  /\ ConfirmedIsKept

(* A profile is known by its printer and by its address.                   *)
LEMMA ProfileKnown ==
  ASSUME StillNetwork, Sound
  PROVE  /\ Profiles \subseteq Targets
         /\ \A t, u \in Profiles : t.addr = u.addr => t = u
         /\ \A t \in Profiles : [t EXCEPT !.addr = net[t.p].addr] = t
         /\ \A t \in Profiles, p \in Printers :
              net[p].addr = t.addr => [t EXCEPT !.everywhere = net[p].everywhere] = t
<1>1. \A p, q \in Printers : net[p].addr = net[q].addr => p = q
  BY DEF StillNetwork, Sound, RestOK
<1>2. Profiles \subseteq Targets
  BY ProfileType DEF Profiles
<1>3. ASSUME NEW p \in Printers
      PROVE  Profile(p).p = p /\ Profile(p).addr = net[p].addr
             /\ Profile(p).everywhere = net[p].everywhere
  BY DEF Profile
<1>4. \A t, u \in Profiles : t.addr = u.addr => t = u
  BY <1>1, <1>3 DEF Profiles
<1>5. ASSUME NEW p \in Printers
      PROVE  [Profile(p) EXCEPT !.addr = net[Profile(p).p].addr] = Profile(p)
  BY DEF Profile
<1>6. ASSUME NEW p \in Printers, NEW q \in Printers, net[q].addr = Profile(p).addr
      PROVE  [Profile(p) EXCEPT !.everywhere = net[q].everywhere] = Profile(p)
  <2>1. q = p
    BY <1>1, <1>3, <1>6
  <2> QED
    BY <2>1 DEF Profile
<1> QED
  BY <1>2, <1>4, <1>5, <1>6 DEF Profiles

LEMMA KeptTask ==
  ASSUME StillNetwork, Sound, Kept, Profiles' = Profiles, NEW x \in Tasks,
         Save(x) \/ SaveFails(x) \/ Store(x) \/ Advertise(x) \/ AdvertiseFails(x)
  PROVE  Kept'
<1> USE SelectionAssumption DEF Sound, TasksOK
<1>1. x = "web" \/ x \in Nets \/ x \in Workers
  BY DEF Tasks
<1>2. "web" \in Tasks /\ Nets \subseteq Tasks /\ Workers \subseteq Tasks
  BY DEF Tasks
<1>3. CASE Save(x) \/ SaveFails(x) \/ Store(x)
  <2>1. /\ x = "web" /\ op[x] \in {"select", "clear"} /\ choice = Unknown
    BY <1>1, <1>3 DEF Kept, Save, SaveFails, Store, WebPlaces, WorkerPlaces
  <2>2. CASE Save(x)
    BY <1>2, <2>1, <2>2 DEF Save, Goto, Kept, ConfirmedIsKept
  <2>3. CASE SaveFails(x)
    BY <1>2, <2>1, <2>3 DEF SaveFails, Kept, ConfirmedIsKept
  <2>4. CASE Store(x)
    BY <1>2, <2>1, <2>4 DEF Store, Goto, Kept, ConfirmedIsKept
  <2> QED
    BY <1>3, <2>2, <2>3, <2>4
<1>4. CASE Advertise(x) /\ op[x] = "select"
  <2>1. x = "web" /\ tmp[x] \in Targets /\ tmp[x] # NoTarget
    BY <1>1, <1>4, SentinelAssumption DEF Copies, NetPlaces, WorkerPlaces
  <2>2. nvs = tmp[x] /\ ram = tmp[x] /\ choice' = tmp[x].p
    BY <1>4, <2>1 DEF Kept, Advertise
  <2>3. ConfirmedIsKept'
    BY <1>4, <2>1, <2>2 DEF Advertise, ConfirmedIsKept, PrinterOf, stored
  <2> QED
    BY <1>2, <1>4, <2>1, <2>3 DEF Advertise, Goto, Kept, stored
<1>5. CASE Advertise(x) /\ op[x] # "select"
  BY <1>1, <1>2, <1>5 DEF Advertise, Goto, Kept, ConfirmedIsKept, PrinterOf, stored
<1>6. CASE AdvertiseFails(x)
  BY <1>1, <1>2, <1>6 DEF AdvertiseFails, Goto, Kept, ConfirmedIsKept, PrinterOf, stored
<1> QED
  BY <1>3, <1>4, <1>5, <1>6

LEMMA KeptWeb ==
  ASSUME StillNetwork, Sound, Kept, Profiles' = Profiles,
         Select \/ Clear \/ Remove \/ Rename \/ Scan \/ Compare \/ KeepList
  PROVE  Kept'
<1> USE SelectionAssumption DEF Sound, TasksOK
<1>1. "web" \in Tasks /\ Nets \subseteq Tasks /\ Workers \subseteq Tasks
  BY DEF Tasks
<1>2. CASE Select \/ Clear
  BY <1>1, <1>2, Apart DEF Select, Clear, Begin, Kept, ConfirmedIsKept, stored
<1>3. CASE Remove
  <2>1. op["web"] = "clear" /\ nvs = NoTarget /\ ram = NoTarget
    BY <1>3 DEF Remove, WebPlaces, Copies, Kept
  <2>2. choice' \in {NoTarget, Unknown}
    BY <1>3, <2>1 DEF Remove, Kept
  <2>3. ConfirmedIsKept'
    BY <1>3, <2>1, <2>2 DEF Remove, ConfirmedIsKept, PrinterOf, stored
  <2> QED
    BY <1>1, <1>3, <2>3 DEF Remove, Goto, Kept, stored
<1>4. CASE Rename
  BY <1>1, <1>4 DEF Rename, Begin, Kept, ConfirmedIsKept, PrinterOf, stored
<1>5. CASE Scan
  <2>1. found' \subseteq Profiles
    BY <1>5 DEF Scan, Profiles
  <2> QED
    BY <1>1, <1>5, <2>1 DEF Scan, Begin, Kept, ConfirmedIsKept, PrinterOf, stored
<1>6. CASE Compare
  <2>1. \A t \in found : SameEndpoint(t) => t = ram
    BY ProfileKnown DEF Kept, SameEndpoint
  <2>2. at' = [at EXCEPT !["web"] = "list"] /\ UNCHANGED tmp
    BY <1>6, <2>1 DEF Compare
  <2>3. op["web"] = "scan"
    BY <1>6 DEF Compare, WebPlaces
  <2> QED
    BY <1>1, <1>6, <2>2, <2>3 DEF Compare, Kept, ConfirmedIsKept, PrinterOf, stored
<1>7. CASE KeepList
  BY <1>1, <1>7 DEF KeepList, Goto, WebPlaces, Kept, ConfirmedIsKept, PrinterOf, stored
<1> QED
  BY <1>2, <1>3, <1>4, <1>5, <1>6, <1>7

LEMMA KeptOther ==
  ASSUME StillNetwork, Sound, Kept, Profiles' = Profiles,
         \/ \E x \in Nets : NetworkReady(x) \/ ReadTarget(x) \/ Resolve(x)
         \/ \E w \in Workers : Ask(w) \/ Reply(w) \/ Update(w)
         \/ NetworkChanges \/ Restart
  PROVE  Kept'
<1> USE SelectionAssumption DEF Sound, TasksOK
<1>1. "web" \in Tasks /\ Nets \subseteq Tasks /\ Workers \subseteq Tasks
  BY DEF Tasks
<1>2. ASSUME NEW x \in Nets, NetworkReady(x) \/ ReadTarget(x) PROVE Kept'
  BY <1>1, <1>2 DEF NetworkReady, ReadTarget, Begin, Kept, ConfirmedIsKept, PrinterOf, stored
<1>3. ASSUME NEW x \in Nets, Resolve(x) PROVE Kept'
  <2>1. tmp[x] \in Profiles
    BY <1>1, <1>3, SentinelAssumption DEF Resolve, Copies, Kept
  <2>2. at' = [at EXCEPT ![x] = "advertise"] /\ UNCHANGED tmp
    BY <1>3, <2>1, ProfileKnown DEF Resolve
  <2> QED
    BY <1>1, <1>3, <2>2 DEF Resolve, Kept, ConfirmedIsKept, PrinterOf, stored
<1>4. ASSUME NEW w \in Workers, Ask(w) PROVE Kept'
  BY <1>1, <1>4 DEF Ask, Begin, Kept, ConfirmedIsKept, PrinterOf, stored
<1>5. ASSUME NEW w \in Workers, Reply(w) PROVE Kept'
  <2>1. tmp[w] \in Profiles
    BY <1>1, <1>5, SentinelAssumption DEF Reply, Copies, Kept
  <2>2. Goto(w, "idle")
    BY <1>5, <2>1, ProfileKnown DEF Reply
  <2> QED
    BY <1>1, <1>5, <2>2 DEF Reply, Goto, Kept, ConfirmedIsKept, PrinterOf, stored
<1>6. ASSUME NEW w \in Workers, Update(w) PROVE Kept'
  BY <1>6 DEF Update, Kept
<1>7. CASE NetworkChanges
  BY <1>7 DEF NetworkChanges, StillNetwork, RestOK
<1>8. CASE Restart
  BY <1>1, <1>8 DEF Restart, Kept, ConfirmedIsKept, PrinterOf
<1> QED
  BY <1>2, <1>3, <1>4, <1>5, <1>6, <1>7, <1>8

(* On a network whose printers keep their addresses and profiles, what the *)
(* web page has confirmed, a selection or a clear, is what NVS and memory  *)
(* say from then on: for any number of printers, refreshing workers and    *)
(* restarts, and whichever writes and mDNS calls fail.                     *)
THEOREM ConfirmedSelection ==
  ASSUME StillNetwork
  PROVE  Spec => []ConfirmedIsKept
<1>1. Init => Kept
  <2> SUFFICES ASSUME Init PROVE Kept
    OBVIOUS
  <2>1. \A p \in Printers : Profile(p).p = p
    BY DEF Profile
  <2>2. Profiles \subseteq Targets
    BY SoundInit, ProfileKnown
  <2>3. ConfirmedIsKept
    BY <2>1, <2>2, SentinelAssumption DEF Init, ConfirmedIsKept, PrinterOf, Profiles
  <2> QED
    BY <2>3, SelectionAssumption DEF Init, Kept, Profiles, Tasks
<1>2. Sound /\ Kept /\ [Next]_vars => Kept'
  <2> SUFFICES ASSUME Sound, Kept, [Next]_vars PROVE Kept'
    OBVIOUS
  <2>1. net' = net
    <3>1. net' \in Networks /\ net \in Networks
      BY SoundStep DEF Sound, RestOK
    <3> QED
      BY <3>1 DEF StillNetwork
  <2>2. Profiles' = Profiles
    BY <2>1 DEF Profiles, Profile
  <2>3. CASE UNCHANGED vars
    BY <2>2, <2>3 DEF vars, stored, tasks, Kept, ConfirmedIsKept, PrinterOf
  <2> QED
    BY <2>2, <2>3, KeptTask, KeptWeb, KeptOther DEF Next
<1>3. Kept => ConfirmedIsKept
  BY DEF Kept
<1> QED
  BY <1>1, <1>2, <1>3, SoundAlways, PTL DEF Spec
=============================================================================
