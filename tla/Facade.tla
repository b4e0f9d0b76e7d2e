-------------------------------- MODULE Facade --------------------------------
(***************************************************************************)
(* The modern printer that ESPresso pretends to be (main/ipp_codec.c,      *)
(* ipp_proxy_core.c, printer_capabilities.c and their use in ipp_proxy.c). *)
(* What the old printer says of itself is collected in a profile, by scans *)
(* and from its answers to clients; it is kept in memory and, as it was    *)
(* selected or scanned last, in NVS. Clients that ask for the printer's    *)
(* attributes get its answer, completed from the profile and with neutral  *)
(* defaults; what they then choose for a job is checked against the        *)
(* profile and translated back.                                            *)
(*                                                                         *)
(* An attribute is known by the values it may take: "neutral", the value   *)
(* that changes nothing, and "other". Names, media, colours, state and     *)
(* the encoding of messages are left out: they are copied or made up       *)
(* without a decision about a job.                                         *)
(***************************************************************************)
EXTENDS Integers, FiniteSets

CONSTANTS
  Clients,
  Printers,  \* what the selected printer may be, see Descriptions
  Neutral,   \* Job Template attributes with a neutral default: sides, copies, ...
  Tried,     \* the operations clients try
  Named,     \* the formats that clients ask about
  Wanted,    \* the groups of attributes that clients ask for
  Cuts,      \* what has come of an answer when it breaks off
  QueryMax,  \* FORMAT_QUERY_MAX
  Null

PWG == "image/pwg-raster"
URF == "image/urf"
PDF == "application/pdf"
Formats == {PWG, URF, PDF}
Values == {"neutral", "other"}

(* print-content-optimize stands for print-rendering-intent too.           *)
Optimize == "print-content-optimize"
ColorMode == "print-color-mode"
OutputMode == "output-mode"
Attributes == Neutral \cup {Optimize}

Safe ==
  {"Print-Job", "Print-URI", "Validate-Job", "Send-URI", "Cancel-Job",
   "Get-Job-Attributes", "Get-Jobs", "Get-Printer-Attributes",
   "Cancel-My-Jobs", "Close-Job", "Identify-Printer"}
Pair == {"Create-Job", "Send-Document"}
DocumentOperations == {"Print-Job", "Send-Document"}
FormatOperations == {"Print-Job", "Validate-Job", "Create-Job", "Send-Document"}
Operations == Safe \cup Pair \cup {"Hold-Job"}

(* External: what a printer states in DNS-SD (txt, duplex) and in IPP, and *)
(* whether it accepts IPP 2.0. One that is partial states its job          *)
(* attributes only when it is asked about PDF.                             *)
Descriptions ==
  [txt : SUBSET Formats, duplex : BOOLEAN,
   formats : SUBSET Formats, urf : BOOLEAN, operations : SUBSET Operations,
   job : [Attributes -> SUBSET Values], color : SUBSET {ColorMode, OutputMode},
   v2 : BOOLEAN, partial : BOOLEAN]

(* What may be read of an answer: any part, values come one by one.        *)
Fragments ==
  [formats : SUBSET Formats, urf : BOOLEAN, operations : SUBSET Operations,
   job : [Attributes -> SUBSET Values], color : SUBSET {ColorMode, OutputMode}]

Selectors == {"all", "printer-description", "job-template"}

ASSUME FacadeAssumption ==
  /\ Printers \subseteq Descriptions
  /\ Cuts \subseteq Fragments
  /\ Named \subseteq Formats
  /\ Wanted \subseteq Selectors
  /\ {"copies", "sides"} \subseteq Neutral
  /\ Neutral \cap {Optimize, ColorMode, OutputMode} = {}
  /\ Tried \subseteq Operations \ {"Get-Printer-Attributes"}
  /\ QueryMax \in Nat \ {0}

VARIABLES
  printer,  \* the printer
  found,    \* its entry in s_printers, Null if the last scan has not found it
  saved,    \* the "printer" blob in NVS
  profile,  \* s_target: what ESPresso knows of it; Null if it is not selected
  moving,   \* the copy of s_target that refresh_saved_address works on
  asking,   \* the copy of s_target and the query of each client's handler
  shown,    \* what each client was last told
  stale     \* history variable: the clients told of something forgotten since

vars == <<printer, found, saved, profile, moving, asking, shown, stale>>

Nothing == [operations |-> {}, formats |-> {}, job |-> [a \in Attributes |-> {}]]

Init ==
  /\ printer \in Printers
  /\ found = Null /\ saved = Null /\ profile = Null /\ moving = Null
  /\ asking = [c \in Clients |-> Null]
  /\ shown = [c \in Clients |-> Nothing]
  /\ stale = {}

(* Formats, operations or capabilities are gone.                           *)
Forgets(old, new) ==
  /\ old # Null
  /\ \/ new = Null
     \/ ~(old.pdl \subseteq new.pdl)
     \/ ~(old.operations \subseteq new.operations)
     \/ ~(old.caps \subseteq new.caps)

ProfileChanges == stale' = IF Forgets(profile, profile') THEN Clients ELSE stale

----------------------------------------------------------------------------
(* The profile.                                                            *)

(* External: the printer's answer to a query about a format, or about none.*)
AnswerTo(format) ==
  IF printer.partial /\ format # PDF
  THEN [printer EXCEPT !.job = [a \in Attributes |-> {}], !.color = {}]
  ELSE printer

(* The part of an answer that comes before it breaks off.                  *)
BrokenOff(a, cut) ==
  [a EXCEPT !.formats = @ \cap cut.formats, !.urf = @ /\ cut.urf,
            !.operations = @ \cap cut.operations,
            !.job = [n \in Attributes |-> a.job[n] \cap cut.job[n]],
            !.color = @ \cap cut.color]

(* ipp_codec_finalize_profile: a printer with URF modes prints.            *)
finalize_profile(t) ==
  [t EXCEPT !.operations = IF t.urf THEN @ \cup {"Print-Job", "Get-Printer-Attributes"} ELSE @]

(* How many copies and sides there are is learned besides whether they can *)
(* be chosen.                                                              *)
Counted == {"copies", "sides"}

(* A slip that a run must notice: every answer states all capabilities.    *)
replace_attributes(t, answers, version) ==
  LET caps == {n \in Neutral : \E a \in answers : a.job[n] # {}}
                \cup {m \in {ColorMode} : \E a \in answers : m \in a.color}
  IN  [t EXCEPT !.pdl = @ \cup UNION {a.formats : a \in answers},
                !.urf = @ \/ \E a \in answers : a.urf,
                !.operations = @ \cup UNION {a.operations : a \in answers},
                !.caps = caps,
                !.legacy = /\ ColorMode \notin caps
                           /\ @ \/ \E a \in answers : OutputMode \in a.color,
                !.more = @ \cup {n \in Counted : \E a \in answers : "other" \in a.job[n]},
                !.version = version]

(* The attributes of answers, read one after the other. They are added to  *)
(* what is known, and print-color-mode, once seen, ends the use of         *)
(* output-mode, whichever comes first: the order makes no difference.      *)
apply_attributes(t, answers, version) ==
  LET caps == t.caps \cup {n \in Neutral : \E a \in answers : a.job[n] # {}}
                \cup {m \in {ColorMode} : \E a \in answers : m \in a.color}
  IN  [t EXCEPT !.pdl = @ \cup UNION {a.formats : a \in answers},
                !.urf = @ \/ \E a \in answers : a.urf,
                !.operations = @ \cup UNION {a.operations : a \in answers},
                !.caps = caps,
                !.legacy = /\ ColorMode \notin caps
                           /\ @ \/ \E a \in answers : OutputMode \in a.color,
                !.more = @ \cup {n \in Counted : \E a \in answers : "other" \in a.job[n]},
                !.version = version]

(* An answer that is read to its end.                                      *)
apply_printer_attributes(t, a, version) == finalize_profile(apply_attributes(t, {a}, version))

(* The answer to IPP 2.0, or where that is refused or lost, to IPP 1.1.    *)
Version(two) == IF printer.v2 /\ two THEN 2 ELSE 1

(* target_from_result: what DNS-SD says.                                   *)
Discovered ==
  finalize_profile(
    [pdl |-> printer.txt, urf |-> printer.urf, operations |-> {}, caps |-> {},
     legacy |-> FALSE, more |-> IF printer.duplex THEN {"sides"} ELSE {},
     version |-> 0, queried |-> FALSE])

(* The probe starts by forgetting formats and operations.                  *)
Reset(t) == [t EXCEPT !.pdl = {}, !.operations = {}]

(* The formats asked about one by one, URF before the others.              *)
Asked(pdl) ==
  {s \in SUBSET pdl :
     /\ Cardinality(s) = QueryMax \/ (s = pdl /\ Cardinality(s) < QueryMax)
     /\ URF \in pdl => URF \in s}

(* app_state_set_target: NVS, then memory. If NVS fails, it may hold the   *)
(* new profile all the same.                                               *)
set_target(t) ==
  \/ saved' = t /\ profile' = t
  \/ saved' \in {saved, t} /\ UNCHANGED profile

(* The end of a scan, with what the probe has made of the printer. Printers*)
(* that accept URF are offered; one that states no format but URF modes is *)
(* taken to. The profile is replaced if the printer is the selected one,   *)
(* found at the address it had, and has changed in any respect.            *)
Scanned(t) ==
  LET known == IF t.pdl = {} /\ t.urf THEN [t EXCEPT !.pdl = {URF}] ELSE t
  IN  /\ IF URF \in known.pdl /\ known.urf
         THEN /\ found' = known
              /\ (profile # Null /\ set_target(known)) \/ UNCHANGED <<saved, profile>>
         ELSE found' = Null /\ UNCHANGED <<saved, profile>>
      /\ ProfileChanges
      /\ UNCHANGED <<printer, moving, asking, shown>>

(* What is read of the answer about one format: all, a part, or nothing.   *)
Readings(f) ==
  {{}, {AnswerTo(f)}} \cup {{BrokenOff(AnswerTo(f), cut)} : cut \in Cuts}

(* The first answer of a probe. The formats found by DNS-SD are kept where *)
(* IPP states none.                                                        *)
ProbedFirst(two) ==
  LET t == apply_printer_attributes(Reset(Discovered), AnswerTo(Null), Version(two))
  IN  [t EXCEPT !.queried = TRUE, !.pdl = IF @ = {} THEN printer.txt ELSE @]

(* What can become of it when the printer is asked about single formats.   *)
ProbedFormats(t) ==
  UNION {{finalize_profile(apply_attributes(t, UNION {read[f] : f \in asked}, t.version)) :
            read \in {r \in [asked -> UNION {Readings(f) : f \in asked}] :
                        \A f \in asked : r[f] \in Readings(f)}} :
         asked \in Asked(t.pdl)}

(* printer_discovery_scan, where printer_capabilities_probe gets its first *)
(* answer to the end. Before its end a scan touches nothing that others    *)
(* see.                                                                    *)
ScanAnswered ==
  \E t \in UNION {ProbedFormats(ProbedFirst(two)) : two \in BOOLEAN} : Scanned(t)

(* The same where no query is answered, or the answer breaks off: what has *)
(* been read is kept. What DNS-SD said of the formats is put back; what it *)
(* implies for the operations is not.                                      *)
ScanUnanswered ==
  \E t \in {Reset(Discovered)} \cup
         UNION {{apply_attributes(Reset(Discovered), {BrokenOff(AnswerTo(Null), cut)}, Version(two)) :
                   cut \in Cuts} : two \in BOOLEAN} :
    Scanned([t EXCEPT !.pdl = printer.txt])

(* mDNS does not show the printer.                                         *)
ScanMisses ==
  /\ found' = Null
  /\ UNCHANGED <<printer, saved, profile, moving, asking, shown, stale>>

(* printer_discovery_select and printer_discovery_clear_selection          *)
Select ==
  /\ found # Null
  /\ set_target(found)
  /\ ProfileChanges
  /\ UNCHANGED <<printer, found, moving, asking, shown>>

ClearSelection ==
  /\ \/ saved' = Null /\ profile' = Null
     \/ saved' \in {saved, Null} /\ UNCHANGED profile
  /\ ProfileChanges
  /\ UNCHANGED <<printer, found, moving, asking, shown>>

(* refresh_saved_address: a copy of the profile, and later that copy with  *)
(* a new address, saved. If the address is the same, nothing is.           *)
Resolve ==
  /\ profile # Null /\ moving = Null
  /\ moving' = profile
  /\ UNCHANGED <<printer, found, saved, profile, asking, shown, stale>>

Resolved ==
  /\ moving # Null
  /\ set_target(moving) \/ UNCHANGED <<saved, profile>>
  /\ moving' = Null
  /\ ProfileChanges
  /\ UNCHANGED <<printer, found, asking, shown>>

(* The device starts again and app_state_init loads the saved profile.     *)
Restart ==
  /\ profile' = IF saved = Null THEN Null ELSE finalize_profile(saved)
  /\ found' = Null /\ moving' = Null
  /\ asking' = [c \in Clients |-> Null]
  /\ ProfileChanges
  /\ UNCHANGED <<printer, saved, shown>>

----------------------------------------------------------------------------
(* Operations and formats.                                                 *)

(* A slip that a run must notice: the two halves of a job are advertised   *)
(* one by one.                                                             *)
relay_operations_singly(ops) == (ops \cap (Safe \cup Pair)) \cup {"Get-Printer-Attributes"}

relay_operations(ops) ==
  (ops \cap Safe) \cup {"Get-Printer-Attributes"} \cup (IF Pair \subseteq ops THEN Pair ELSE {})

Converts(t, format) == format = PWG /\ URF \in t.pdl

UpstreamFormat(t, format) == IF Converts(t, format) THEN URF ELSE format

(* The version the printer answered with, if it answered the probe.        *)
UpstreamVersion(t) == IF t.queried /\ t.version = 2 THEN 2 ELSE 1

----------------------------------------------------------------------------
(* Get-Printer-Attributes.                                                 *)

(* What append_synthesized_attributes says of a job attribute that the     *)
(* answer lacks.                                                           *)
Synthesized(t, a) ==
  {"neutral"} \cup (IF a \in t.more THEN {"other"} ELSE {})

(* ipp_codec_normalize_printer_response. Operations and formats are always *)
(* the profile's; job attributes the printer's where it has them. An       *)
(* optimisation is advertised in addition.                                 *)
normalize_printer_response(t, a) ==
  [operations |-> relay_operations(t.operations),
   formats |-> t.pdl \cup (IF URF \in t.pdl THEN {PWG} ELSE {}),
   job |-> [n \in Attributes |->
              IF n = Optimize THEN a.job[n] \cup {"neutral"}
              ELSE IF a.job[n] # {} THEN a.job[n] ELSE Synthesized(t, n)]]

(* ipp_codec_filter_response.                                              *)
filter_response(answer, requested) ==
  [answer EXCEPT
     !.operations = IF requested = "job-template" THEN {} ELSE @,
     !.formats = IF requested = "job-template" THEN {} ELSE @,
     !.job = IF requested = "printer-description" THEN [n \in Attributes |-> {}] ELSE @]

(* proxy_handler up to the query: s_target is copied. The query asks for   *)
(* everything, whatever the client requested.                              *)
Ask(c, format) ==
  /\ profile # Null
  /\ asking[c] = Null
  /\ asking' = [asking EXCEPT ![c] =
       [target |-> profile,
        format |-> IF format = Null THEN Null ELSE UpstreamFormat(profile, format)]]
  /\ UNCHANGED <<printer, found, saved, profile, moving, shown, stale>>

(* app_state_update_target replaces the whole profile in memory by the     *)
(* handler's copy with the answer merged in. It is not called if the two   *)
(* are the same; what they may differ in besides is left out here.         *)
Updates(c, updated) ==
  /\ profile' = updated \/ (updated = asking[c].target /\ UNCHANGED profile)
  /\ stale' = {d \in Clients : IF d = c THEN Forgets(updated, profile')
                               ELSE d \in stale \/ Forgets(profile, profile')}
  /\ asking' = [asking EXCEPT ![c] = Null]
  /\ UNCHANGED <<printer, found, saved, moving>>

Answer(c) ==
  /\ asking[c] # Null
  /\ LET a == AnswerTo(asking[c].format)
         updated == apply_printer_attributes(asking[c].target, a,
                                             Version(UpstreamVersion(asking[c].target) = 2))
     IN  /\ Updates(c, updated)
         /\ \E requested \in Wanted :
              shown' = [shown EXCEPT ![c] =
                filter_response(normalize_printer_response(updated, a), requested)]

(* The printer answers with an error: its version is noted, nothing is     *)
(* added to the answer.                                                    *)
AnswersError(c) ==
  /\ asking[c] # Null
  /\ \E version \in {1, 2} :
       /\ version = 2 => printer.v2
       /\ Updates(c, finalize_profile([asking[c].target EXCEPT !.version = version]))
  /\ shown' = [shown EXCEPT ![c] = Nothing]

(* No answer, or none that can be read to its end.                         *)
NoAnswer(c) ==
  /\ asking[c] # Null
  /\ asking' = [asking EXCEPT ![c] = Null]
  /\ UNCHANGED <<printer, found, saved, profile, moving, shown, stale>>

----------------------------------------------------------------------------
(* Every other request.                                                    *)

(* A request names a format, or none, and chooses a value of one attribute *)
(* of the job. One whose version, operation attributes or body are not as  *)
(* IPP asks is refused whatever the printer is, and left out.              *)
Requests ==
  [op : Tried, format : Formats \cup {Null},
   attr : Attributes \cup {ColorMode, Null}, value : Values]

(* ipp_proxy_plan_request                                                  *)
Planned(t, r) ==
  /\ r.op \in relay_operations(t.operations)
  /\ r.op \in FormatOperations /\ r.format # Null =>
       r.format \in t.pdl \/ Converts(t, r.format)

(* facade_job_attribute_action: an attribute the printer does not know of  *)
(* is left out if it asks for nothing, and refused otherwise.              *)
Unknown(t, a) == a = Optimize \/ (a \in Neutral /\ a \notin t.caps)

(* A slip that a run must notice: the value is not looked at.              *)
UnsupportedAnyway(t, a, value) == Unknown(t, a)

Unsupported(t, a, value) == Unknown(t, a) /\ value # "neutral"

Accepted(t, r) == Planned(t, r) /\ (r.attr # Null => ~Unsupported(t, r.attr, r.value))

(* normalize_facade_job_defaults                                           *)
rewrite_request(t, r) ==
  [op |-> r.op,
   version |-> UpstreamVersion(t),
   format |-> UpstreamFormat(t, r.format),
   converted |-> Converts(t, r.format) /\ r.op \in DocumentOperations,
   attrs |-> IF r.attr = Null \/ Unknown(t, r.attr) THEN {}
             ELSE {<<IF r.attr = ColorMode /\ t.legacy THEN OutputMode ELSE r.attr, r.value>>}]

Next ==
  \/ ScanAnswered \/ ScanUnanswered \/ ScanMisses
  \/ Select \/ ClearSelection \/ Resolve \/ Resolved \/ Restart
  \/ \E c \in Clients :
       \/ \E format \in Named \cup {Null} : Ask(c, format)
       \/ Answer(c) \/ AnswersError(c) \/ NoAnswer(c)

Spec == Init /\ [][Next]_vars

Profiles ==
  [pdl : SUBSET Formats, urf : BOOLEAN, operations : SUBSET Operations,
   caps : SUBSET (Neutral \cup {ColorMode}), legacy : BOOLEAN, more : SUBSET Counted,
   version : 0..2, queried : BOOLEAN]

(* No printer selected is not a profile.                                   *)
ASSUME NullAssumption == Null \notin Profiles

FacadeTypeOK ==
  /\ printer \in Printers
  /\ {found, saved, profile, moving} \subseteq {Null} \cup Profiles
  /\ asking \in [Clients -> {Null} \cup [target : Profiles, format : Formats \cup {Null}]]
  /\ DOMAIN shown = Clients
  /\ stale \subseteq Clients

----------------------------------------------------------------------------
Promised(c, r) ==
  /\ r.op \in shown[c].operations
  /\ r.format # Null => r.format \in shown[c].formats
  /\ r.attr \in Attributes => r.value \in shown[c].job[r.attr]

(* A job that keeps to what the client was told is not refused: not for    *)
(* its operation, its format or a value, whether that came from the        *)
(* printer's answer or was made up, however much later, and whatever else  *)
(* was learned, scanned, selected or reloaded in between. Not kept is what *)
(* ESPresso has forgotten since (stale): by a scan that heard less or was  *)
(* not answered, by selecting the printer as an earlier scan saw it, by a  *)
(* restart, or because one of two overlapping updates was lost. Nor are    *)
(* optimisations of the printer's own, and duplex that only DNS-SD knows   *)
(* of.                                                                     *)
PromisesAreKept ==
  \A c \in Clients \ stale, r \in Requests :
    /\ profile # Null /\ Promised(c, r)
    /\ r.value = "other" =>
         r.attr # Optimize /\ (r.attr = "sides" => ~printer.duplex \/ "sides" \in profile.caps)
    => Accepted(profile, r)

(* Whatever was learned, in whatever order, from answers that broke off    *)
(* too, and however often it was undone: a request that is relayed names   *)
(* an operation, a format, a version and job attributes that the printer   *)
(* has stated (or URF implies). The first half of a job is not begun where *)
(* the second would be refused, a document is converted exactly if its     *)
(* format is renamed, and no choice of the client's is silently left out.  *)
(* The choice of colour goes out as output-mode only where the printer has *)
(* stated that and no print-color-mode has been heard of, and as           *)
(* print-color-mode otherwise, whether or not the printer has stated it:   *)
(* but a printer that was probed and has only output-mode gets that one.   *)
PrinterTakesIt ==
  \A r \in Requests :
    profile # Null /\ Accepted(profile, r) =>
      LET q == rewrite_request(profile, r)
      IN  /\ q.op \in printer.operations
               \cup (IF printer.urf THEN {"Print-Job", "Get-Printer-Attributes"} ELSE {})
          /\ q.op = "Create-Job" =>
               Accepted(profile, [r EXCEPT !.op = "Send-Document"])
          /\ q.op \in FormatOperations /\ q.format # Null =>
               q.format \in printer.txt \cup printer.formats \cup {URF}
          /\ q.op \in DocumentOperations => (q.converted <=> q.format # r.format)
          /\ q.version = 2 => printer.v2
          /\ \A n \in Neutral : (\E v \in Values : <<n, v>> \in q.attrs) => printer.job[n] # {}
          /\ <<OutputMode, r.value>> \in q.attrs =>
               OutputMode \in printer.color /\ ColorMode \notin profile.caps
          /\ <<ColorMode, r.value>> \in q.attrs /\ profile.queried /\ ~printer.partial =>
               printer.color # {OutputMode}
          /\ r.attr # Null /\ r.value = "other" =>
               \E n \in {r.attr} \cup (IF r.attr = ColorMode THEN {OutputMode} ELSE {}) :
                 <<n, "other">> \in q.attrs

(* An answer whose handler's copy of the profile is still the profile when *)
(* it comes never makes ESPresso forget what it knew, even where the       *)
(* printer says less about one format than about another.                  *)
AnswersAdd ==
  [][\A c \in Clients :
       asking[c] # Null /\ asking[c].target = profile /\ (Answer(c) \/ AnswersError(c)) =>
         ~Forgets(profile, profile')]_vars
=============================================================================
