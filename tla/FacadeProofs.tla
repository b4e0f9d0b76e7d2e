----------------------------- MODULE FacadeProofs -----------------------------
(***************************************************************************)
(* What ESPresso asks of a printer, for any printers and clients, and that *)
(* the documents it converts for one stay the same, for any documents.     *)
(***************************************************************************)
EXTENDS Facade, RasterConverter, SequenceTheorems, WellFoundedInduction, TLAPS

UrfOperations == {"Print-Job", "Get-Printer-Attributes"}

Stated(p) == p.operations \cup (IF p.urf THEN UrfOperations ELSE {})

(* A profile holds nothing that the printer has not stated, in DNS-SD, in  *)
(* IPP or by having URF modes, and of what there is more than one it knows *)
(* that it can be chosen, unless DNS-SD alone speaks of duplex. Of the two *)
(* ways to choose colours, output-mode is used only while the other has    *)
(* not been heard of, and certainly if a complete answer has only that.    *)
Truthful(p, t) ==
  /\ t \in Profiles
  /\ t.urf => p.urf
  /\ t.operations \subseteq Stated(p)
  /\ t.pdl \subseteq p.txt \cup p.formats \cup {URF}
  /\ \A n \in Neutral : n \in t.caps => p.job[n] # {}
  /\ ColorMode \in t.caps => ColorMode \in p.color
  /\ t.legacy => OutputMode \in p.color /\ ColorMode \notin t.caps
  /\ t.queried /\ ~p.partial /\ p.color = {OutputMode} => t.legacy
  /\ t.version = 2 => p.v2
  /\ \A n \in t.more : n \in t.caps \/ (n = "sides" /\ p.duplex)

(* So do all the copies of the profile that are about.                     *)
FacadeInv ==
  /\ FacadeTypeOK
  /\ \A t \in {found, saved, profile, moving} : t # Null => Truthful(printer, t)
  /\ \A c \in Clients : asking[c] # Null => Truthful(printer, asking[c].target)

(* What is read of an answer, of which the printer has stated everything.  *)
Says(p, a) ==
  /\ a.formats \subseteq p.formats
  /\ a.operations \subseteq p.operations
  /\ a.urf => p.urf
  /\ a.color \subseteq p.color
  /\ \A n \in Neutral : a.job[n] # {} => p.job[n] # {}

----------------------------------------------------------------------------
LEMMA Finalized ==
  ASSUME NEW p \in Descriptions, NEW t, Truthful(p, t)
  PROVE  Truthful(p, finalize_profile(t))
<1> DEFINE u == finalize_profile(t)
<1>1. /\ u \in Profiles /\ u.urf = t.urf /\ u.pdl = t.pdl /\ u.caps = t.caps
      /\ u.legacy = t.legacy /\ u.version = t.version /\ u.more = t.more
      /\ u.queried = t.queried
  BY DEF Truthful, Profiles, finalize_profile, Operations, Safe
<1>2. u.operations \subseteq Stated(p)
  BY DEF Truthful, Profiles, finalize_profile, Stated, UrfOperations
<1> QED
  BY <1>1, <1>2 DEF Truthful

LEMMA AnswerSays ==
  ASSUME printer \in Descriptions, NEW format
  PROVE  /\ Says(printer, AnswerTo(format))
         /\ \A cut \in Cuts : Says(printer, BrokenOff(AnswerTo(format), cut))
<1> DEFINE a == AnswerTo(format)
<1>1. a \in Descriptions
  BY DEF AnswerTo, Descriptions
<1>2. Says(printer, a)
  BY DEF Says, AnswerTo, Descriptions, Attributes
<1> HIDE DEF a
<1>3. ASSUME NEW cut \in Cuts
      PROVE  Says(printer, BrokenOff(a, cut))
  <2> DEFINE b == BrokenOff(a, cut)
  <2>1. /\ b.formats = a.formats \cap cut.formats
        /\ b.operations = a.operations \cap cut.operations
        /\ b.urf = (a.urf /\ cut.urf)
        /\ b.color = a.color \cap cut.color
        /\ b.job = [n \in Attributes |-> a.job[n] \cap cut.job[n]]
    BY <1>1 DEF BrokenOff, Descriptions
  <2> HIDE DEF b
  <2>2. \A n \in Neutral : b.job[n] \subseteq a.job[n]
    BY <2>1 DEF Attributes
  <2> QED
    BY <1>2, <2>1, <2>2 DEF Says, b
<1> QED
  BY <1>2, <1>3 DEF a

LEMMA Applied ==
  ASSUME NEW p \in Descriptions, NEW t, Truthful(p, t),
         NEW answers, \A a \in answers : Says(p, a),
         NEW version \in 0..2, version = 2 => p.v2
  PROVE  Truthful(p, apply_attributes(t, answers, version))
<1> DEFINE u == apply_attributes(t, answers, version)
<1>1. t \in Profiles
  BY DEF Truthful
<1>2. \A n \in Counted : n \in Neutral
  BY FacadeAssumption DEF Counted
<1>3. /\ u.pdl = t.pdl \cup UNION {a.formats : a \in answers}
      /\ u.operations = t.operations \cup UNION {a.operations : a \in answers}
      /\ u.caps = t.caps \cup {n \in Neutral : \E a \in answers : a.job[n] # {}}
                    \cup {m \in {ColorMode} : \E a \in answers : m \in a.color}
      /\ u.more = t.more \cup {n \in Counted : \E a \in answers : "other" \in a.job[n]}
      /\ u.version = version
      /\ u.queried = t.queried
  BY <1>1 DEF apply_attributes, Profiles
<1>4. u.urf = (t.urf \/ \E a \in answers : a.urf)
  BY <1>1 DEF apply_attributes, Profiles
<1>5. u.legacy = (/\ ColorMode \notin u.caps
                  /\ t.legacy \/ \E a \in answers : OutputMode \in a.color)
  BY <1>1, <1>3 DEF apply_attributes, Profiles
<1>6. u \in Profiles
  <2>1. /\ u.pdl \in SUBSET Formats
        /\ u.operations \in SUBSET Operations
        /\ u.more \in SUBSET Counted
    BY <1>1, <1>3 DEF Says, Descriptions, Profiles
  <2>2. u.caps \in SUBSET (Neutral \cup {ColorMode})
    BY <1>1, <1>3 DEF Profiles
  <2>3. u.urf \in BOOLEAN /\ u.legacy \in BOOLEAN
    BY <1>4, <1>5
  <2>4. u.version \in 0..2 /\ u.queried \in BOOLEAN
    BY <1>1, <1>3 DEF Profiles
  <2>5. u = [t EXCEPT !.pdl = u.pdl, !.urf = u.urf, !.operations = u.operations, !.caps = u.caps,
                      !.legacy = u.legacy, !.more = u.more, !.version = u.version]
    BY <1>1 DEF apply_attributes, Profiles
  <2> HIDE DEF u
  <2> QED
    BY <1>1, <2>1, <2>2, <2>3, <2>4, <2>5 DEF Profiles
<1> HIDE DEF u
<1>7. u.urf => p.urf
  BY <1>4 DEF Truthful, Says
<1>8. /\ u.operations \subseteq Stated(p)
      /\ u.pdl \subseteq p.txt \cup p.formats \cup {URF}
      /\ u.version = 2 => p.v2
  BY <1>3 DEF Truthful, Stated, Says
<1>9. \A n \in Neutral : n \in u.caps => p.job[n] # {}
  BY <1>3, FacadeAssumption DEF Truthful, Says
<1>10. ColorMode \in u.caps => ColorMode \in p.color
  BY <1>3, FacadeAssumption DEF Truthful, Says
<1>11. u.legacy => OutputMode \in p.color /\ ColorMode \notin u.caps
  BY <1>5 DEF Truthful, Says
<1>12. u.queried /\ ~p.partial /\ p.color = {OutputMode} => u.legacy
  BY <1>3, <1>5, <1>10 DEF Truthful, ColorMode, OutputMode
<1>13. \A n \in u.more : n \in u.caps \/ (n = "sides" /\ p.duplex)
  BY <1>2, <1>3 DEF Truthful
<1> QED
  BY <1>6, <1>7, <1>8, <1>9, <1>10, <1>11, <1>12, <1>13 DEF Truthful, u

(* What DNS-SD said is true, and so is what is left when the probe begins. *)
LEMMA Starts ==
  ASSUME printer \in Descriptions
  PROVE  Truthful(printer, Reset(Discovered))
<1> DEFINE d == [pdl |-> printer.txt, urf |-> printer.urf, operations |-> {}, caps |-> {},
                 legacy |-> FALSE, more |-> IF printer.duplex THEN {"sides"} ELSE {},
                 version |-> 0, queried |-> FALSE]
<1>1. Truthful(printer, d)
  BY DEF Truthful, Profiles, Descriptions, Counted
<1>2. Truthful(printer, Discovered)
  BY <1>1, Finalized DEF Discovered
<1> QED
  BY <1>2 DEF Truthful, Reset, Profiles

(* The formats of DNS-SD may be put back.                                  *)
LEMMA PutBack ==
  ASSUME printer \in Descriptions, NEW t, Truthful(printer, t)
  PROVE  Truthful(printer, [t EXCEPT !.pdl = printer.txt])
BY DEF Truthful, Profiles, Descriptions

LEMMA VersionIsTrue ==
  ASSUME printer \in Descriptions, NEW two
  PROVE  Version(two) \in 0..2 /\ (Version(two) = 2 => printer.v2)
BY DEF Version

----------------------------------------------------------------------------
LEMMA InitInv == Init => FacadeInv
BY DEF Init, FacadeInv, FacadeTypeOK

(* A step that makes no copy but of what is there, or of what is true.     *)
LEMMA CopiesInv ==
  ASSUME FacadeInv, printer' = printer, DOMAIN shown' = DOMAIN shown, stale' \subseteq Clients,
         \A t \in {found', saved', profile', moving'} :
           t \in {Null, found, saved, profile, moving} \/ Truthful(printer, t),
         asking' \in [Clients -> {Null} \cup [target : Profiles, format : Formats \cup {Null}]],
         \A c \in Clients : asking'[c] # Null => Truthful(printer, asking'[c].target)
  PROVE  FacadeInv'
<1>1. \A t : Truthful(printer, t) => t \in Profiles
  BY DEF Truthful
<1>2. \A t \in {found', saved', profile', moving'} : t = Null \/ Truthful(printer, t)
  BY DEF FacadeInv
<1>3. {found', saved', profile', moving'} \subseteq {Null} \cup Profiles
  BY <1>1, <1>2
<1>4. FacadeTypeOK'
  BY <1>3 DEF FacadeInv, FacadeTypeOK
<1> QED
  BY <1>2, <1>4 DEF FacadeInv

(* The same where the handlers' copies stay.                               *)
LEMMA TargetsInv ==
  ASSUME FacadeInv, UNCHANGED <<printer, asking, shown>>, stale' \subseteq Clients,
         \A t \in {found', saved', profile', moving'} :
           t \in {Null, found, saved, profile, moving} \/ Truthful(printer, t)
  PROVE  FacadeInv'
<1>1. /\ asking' \in [Clients -> {Null} \cup [target : Profiles, format : Formats \cup {Null}]]
      /\ \A c \in Clients : asking'[c] # Null => Truthful(printer, asking'[c].target)
  BY DEF FacadeInv, FacadeTypeOK
<1> QED
  BY <1>1, CopiesInv

LEMMA StaleInv ==
  ASSUME FacadeInv, ProfileChanges PROVE stale' \subseteq Clients
BY DEF FacadeInv, FacadeTypeOK, ProfileChanges

LEMMA ScannedInv ==
  ASSUME FacadeInv, NEW t, Truthful(printer, t), Scanned(t)
  PROVE  FacadeInv'
<1> DEFINE known == IF t.pdl = {} /\ t.urf THEN [t EXCEPT !.pdl = {URF}] ELSE t
<1>1. Truthful(printer, known)
  BY DEF Truthful, Profiles, Formats
<1>2. /\ \/ found' = known /\ ((profile # Null /\ set_target(known)) \/ UNCHANGED <<saved, profile>>)
         \/ found' = Null /\ UNCHANGED <<saved, profile>>
      /\ ProfileChanges
      /\ UNCHANGED <<printer, moving, asking, shown>>
  BY DEF Scanned
<1> HIDE DEF known
<1>3. \A u \in {found', saved', profile', moving'} :
        u \in {Null, found, saved, profile, moving} \/ Truthful(printer, u)
  BY <1>1, <1>2 DEF set_target
<1> QED
  BY <1>2, <1>3, StaleInv, TargetsInv

(* The first answer of a probe is complete.                                *)
LEMMA ProbedFirstIsTrue ==
  ASSUME printer \in Descriptions, NEW two
  PROVE  Truthful(printer, ProbedFirst(two))
<1> DEFINE w == apply_attributes(Reset(Discovered), {AnswerTo(Null)}, Version(two))
           t == finalize_profile(w)
<1>1. Truthful(printer, w)
  BY Starts, AnswerSays, VersionIsTrue, Applied
<1>2. ~printer.partial /\ printer.color = {OutputMode} => w.legacy
  <2> SUFFICES ASSUME ~printer.partial, printer.color = {OutputMode} PROVE w.legacy
    OBVIOUS
  <2>1. AnswerTo(Null).color = {OutputMode}
    BY DEF AnswerTo
  <2>2. Reset(Discovered) \in Profiles
    BY Starts DEF Truthful
  <2>3. w.legacy = (/\ ColorMode \notin w.caps
                    /\ \/ Reset(Discovered).legacy
                       \/ \E a \in {AnswerTo(Null)} : OutputMode \in a.color)
    BY <2>2 DEF apply_attributes, Profiles
  <2>4. ColorMode \notin w.caps
    BY <1>1 DEF Truthful, ColorMode, OutputMode
  <2> QED
    BY <2>1, <2>3, <2>4
<1> HIDE DEF w
<1>3. Truthful(printer, t) /\ t.legacy = w.legacy
  BY <1>1, Finalized DEF finalize_profile, Truthful, Profiles
<1> HIDE DEF t
<1>4. Truthful(printer, [t EXCEPT !.queried = TRUE, !.pdl = IF @ = {} THEN printer.txt ELSE @])
  BY <1>2, <1>3 DEF Truthful, Profiles, Descriptions
<1> QED
  BY <1>4 DEF ProbedFirst, apply_printer_attributes, t, w

LEMMA ProbedFormatsAreTrue ==
  ASSUME printer \in Descriptions, NEW t, Truthful(printer, t), NEW u \in ProbedFormats(t)
  PROVE  Truthful(printer, u)
<1>0. PICK asked \in Asked(t.pdl) :
        u \in {finalize_profile(apply_attributes(t, UNION {read[f] : f \in asked}, t.version)) :
                 read \in {r \in [asked -> UNION {Readings(f) : f \in asked}] :
                             \A f \in asked : r[f] \in Readings(f)}}
  BY DEF ProbedFormats
<1>1. PICK read \in {r \in [asked -> UNION {Readings(f) : f \in asked}] :
                       \A f \in asked : r[f] \in Readings(f)} :
        u = finalize_profile(apply_attributes(t, UNION {read[f] : f \in asked}, t.version))
  BY <1>0
<1>2. \A f \in asked : read[f] \in Readings(f)
  BY <1>1
<1>3. \A f : \A s \in Readings(f) : \A a \in s : Says(printer, a)
  BY AnswerSays DEF Readings
<1>4. \A a \in UNION {read[f] : f \in asked} : Says(printer, a)
  BY <1>2, <1>3
<1>5. t.version \in 0..2 /\ (t.version = 2 => printer.v2)
  BY DEF Truthful, Profiles
<1> QED
  BY <1>1, <1>4, <1>5, Applied, Finalized

LEMMA ScanInv ==
  ASSUME FacadeInv, ScanAnswered \/ ScanUnanswered \/ ScanMisses
  PROVE  FacadeInv'
<1>1. printer \in Descriptions
  BY FacadeAssumption DEF FacadeInv, FacadeTypeOK
<1>2. CASE ScanAnswered
  <2>1. PICK two \in BOOLEAN : \E t \in ProbedFormats(ProbedFirst(two)) : Scanned(t)
    BY <1>2 DEF ScanAnswered
  <2> QED
    BY <1>1, <2>1, ProbedFirstIsTrue, ProbedFormatsAreTrue, ScannedInv
<1>3. CASE ScanUnanswered
  <2>1. PICK t \in {Reset(Discovered)} \cup
               UNION {{apply_attributes(Reset(Discovered),
                         {BrokenOff(AnswerTo(Null), cut)}, Version(two)) :
                         cut \in Cuts} : two \in BOOLEAN} :
          Scanned([t EXCEPT !.pdl = printer.txt])
    BY <1>3 DEF ScanUnanswered
  <2>2. ASSUME NEW two \in BOOLEAN, NEW cut \in Cuts
        PROVE  Truthful(printer, apply_attributes(Reset(Discovered),
                                   {BrokenOff(AnswerTo(Null), cut)}, Version(two)))
    BY <1>1, Starts, AnswerSays, VersionIsTrue, Applied
  <2>3. Truthful(printer, t)
    BY <1>1, <2>1, <2>2, Starts
  <2> QED
    BY <1>1, <2>1, <2>3, PutBack, ScannedInv
<1>4. CASE ScanMisses
  <2>1. stale' \subseteq Clients
    BY <1>4 DEF ScanMisses, FacadeInv, FacadeTypeOK
  <2> QED
    BY <1>4, <2>1, TargetsInv DEF ScanMisses
<1> QED
  BY <1>2, <1>3, <1>4

LEMMA SelectionInv ==
  ASSUME FacadeInv, Select \/ ClearSelection \/ Resolve \/ Resolved
  PROVE  FacadeInv'
<1>1. UNCHANGED <<printer, asking, shown>>
  BY DEF Select, ClearSelection, Resolve, Resolved
<1>2. stale' \subseteq Clients
  BY StaleInv DEF Select, ClearSelection, Resolve, Resolved, FacadeInv, FacadeTypeOK
<1>3. \A t \in {found', saved', profile', moving'} : t \in {Null, found, saved, profile, moving}
  BY DEF Select, ClearSelection, Resolve, Resolved, set_target
<1> QED
  BY <1>1, <1>2, <1>3, TargetsInv

LEMMA RestartInv ==
  ASSUME FacadeInv, Restart
  PROVE  FacadeInv'
<1>1. printer \in Descriptions
  BY FacadeAssumption DEF FacadeInv, FacadeTypeOK
<1>2. /\ profile' = IF saved = Null THEN Null ELSE finalize_profile(saved)
      /\ found' = Null /\ moving' = Null /\ asking' = [c \in Clients |-> Null]
      /\ UNCHANGED <<printer, saved, shown>>
  BY DEF Restart
<1>3. profile' = Null \/ Truthful(printer, profile')
  BY <1>1, <1>2, Finalized DEF FacadeInv
<1>4. \A t \in {found', saved', profile', moving'} :
        t \in {Null, found, saved, profile, moving} \/ Truthful(printer, t)
  BY <1>2, <1>3
<1>5. /\ asking' \in [Clients -> {Null} \cup [target : Profiles, format : Formats \cup {Null}]]
      /\ \A c \in Clients : asking'[c] = Null
  BY <1>2
<1> QED
  BY <1>2, <1>4, <1>5, StaleInv, CopiesInv DEF Restart

(* The updated copy replaces the profile, or nothing does.                 *)
LEMMA UpdatesInv ==
  ASSUME FacadeInv, NEW c \in Clients, NEW u, Truthful(printer, u), Updates(c, u),
         DOMAIN shown' = DOMAIN shown
  PROVE  FacadeInv'
<1>1. asking' = [asking EXCEPT ![c] = Null]
  BY DEF Updates
<1>2. /\ profile' \in {profile, u} /\ stale' \subseteq Clients
      /\ UNCHANGED <<printer, found, saved, moving>>
  BY DEF Updates
<1>3. asking' \in [Clients -> {Null} \cup [target : Profiles, format : Formats \cup {Null}]]
  BY <1>1 DEF FacadeInv, FacadeTypeOK
<1>4. \A d \in Clients : asking'[d] \in {Null, asking[d]}
  BY <1>1 DEF FacadeInv, FacadeTypeOK
<1>5. \A d \in Clients : asking'[d] # Null => Truthful(printer, asking'[d].target)
  BY <1>4 DEF FacadeInv
<1>6. \A t \in {found', saved', profile', moving'} :
        t \in {Null, found, saved, profile, moving} \/ Truthful(printer, t)
  BY <1>2
<1> QED
  BY <1>2, <1>3, <1>5, <1>6, CopiesInv

LEMMA AskInv ==
  ASSUME FacadeInv, NEW c \in Clients, NEW format \in Formats \cup {Null}, Ask(c, format)
  PROVE  FacadeInv'
<1> DEFINE query == [target |-> profile,
                     format |-> IF format = Null THEN Null ELSE UpstreamFormat(profile, format)]
<1>1. Truthful(printer, profile)
  BY DEF Ask, FacadeInv
<1>2. query \in [target : Profiles, format : Formats \cup {Null}]
  BY <1>1 DEF Truthful, UpstreamFormat, Formats
<1>3. /\ asking' = [asking EXCEPT ![c] = query]
      /\ UNCHANGED <<printer, found, saved, profile, moving, shown, stale>>
  BY DEF Ask
<1>4. query.target = profile
  OBVIOUS
<1> HIDE DEF query
<1>5. asking' \in [Clients -> {Null} \cup [target : Profiles, format : Formats \cup {Null}]]
  BY <1>2, <1>3 DEF FacadeInv, FacadeTypeOK
<1>6. \A d \in Clients : asking'[d] = IF d = c THEN query ELSE asking[d]
  BY <1>3 DEF FacadeInv, FacadeTypeOK
<1>7. \A d \in Clients : asking'[d] # Null => Truthful(printer, asking'[d].target)
  BY <1>1, <1>4, <1>6 DEF FacadeInv
<1>8. stale' \subseteq Clients
  BY <1>3 DEF FacadeInv, FacadeTypeOK
<1> QED
  BY <1>3, <1>5, <1>7, <1>8, CopiesInv

(* The copy with the answer merged in.                                     *)
Learned(c) ==
  apply_printer_attributes(asking[c].target, AnswerTo(asking[c].format),
                           Version(UpstreamVersion(asking[c].target) = 2))

LEMMA LearnedIsTrue ==
  ASSUME FacadeInv, NEW c \in Clients, asking[c] # Null
  PROVE  Truthful(printer, Learned(c))
<1>1. printer \in Descriptions
  BY FacadeAssumption DEF FacadeInv, FacadeTypeOK
<1>2. Truthful(printer, asking[c].target)
  BY DEF FacadeInv
<1> QED
  BY <1>1, <1>2, AnswerSays, VersionIsTrue, Applied, Finalized
     DEF Learned, apply_printer_attributes

LEMMA AnswerInv ==
  ASSUME FacadeInv, NEW c \in Clients, Answer(c)
  PROVE  FacadeInv'
<1>1. Updates(c, Learned(c))
  BY DEF Answer, Learned
<1>2. DOMAIN shown' = DOMAIN shown
  BY DEF Answer
<1>3. asking[c] # Null
  BY DEF Answer
<1> QED
  BY <1>1, <1>2, <1>3, LearnedIsTrue, UpdatesInv

LEMMA AnswersErrorInv ==
  ASSUME FacadeInv, NEW c \in Clients, AnswersError(c)
  PROVE  FacadeInv'
<1>1. printer \in Descriptions
  BY FacadeAssumption DEF FacadeInv, FacadeTypeOK
<1>2. Truthful(printer, asking[c].target)
  BY DEF FacadeInv, AnswersError
<1>3. PICK version \in {1, 2} :
        /\ version = 2 => printer.v2
        /\ Updates(c, finalize_profile([asking[c].target EXCEPT !.version = version]))
  BY DEF AnswersError
<1>4. Truthful(printer, [asking[c].target EXCEPT !.version = version])
  BY <1>2, <1>3 DEF Truthful, Profiles
<1>5. DOMAIN shown' = DOMAIN shown
  BY DEF AnswersError
<1> QED
  BY <1>1, <1>3, <1>4, <1>5, Finalized, UpdatesInv

LEMMA NoAnswerInv ==
  ASSUME FacadeInv, NEW c \in Clients, NoAnswer(c)
  PROVE  FacadeInv'
<1>1. /\ asking' = [asking EXCEPT ![c] = Null]
      /\ UNCHANGED <<printer, found, saved, profile, moving, shown, stale>>
  BY DEF NoAnswer
<1>2. asking' \in [Clients -> {Null} \cup [target : Profiles, format : Formats \cup {Null}]]
  BY <1>1 DEF FacadeInv, FacadeTypeOK
<1>3. \A d \in Clients : asking'[d] \in {Null, asking[d]}
  BY <1>1 DEF FacadeInv, FacadeTypeOK
<1>4. \A d \in Clients : asking'[d] # Null => Truthful(printer, asking'[d].target)
  BY <1>3 DEF FacadeInv
<1>5. stale' \subseteq Clients
  BY <1>1 DEF FacadeInv, FacadeTypeOK
<1> QED
  BY <1>1, <1>2, <1>4, <1>5, CopiesInv

LEMMA NextInv == FacadeInv /\ [Next]_vars => FacadeInv'
<1> SUFFICES ASSUME FacadeInv, [Next]_vars PROVE FacadeInv'
  OBVIOUS
<1>1. CASE UNCHANGED vars
  BY <1>1 DEF vars, FacadeInv, FacadeTypeOK
<1>2. CASE Next
  <2>1. \A format \in Named \cup {Null} : format \in Formats \cup {Null}
    BY FacadeAssumption
  <2> QED
    BY <1>2, <2>1, ScanInv, SelectionInv, RestartInv, AskInv, AnswerInv, AnswersErrorInv, NoAnswerInv
       DEF Next
<1> QED
  BY <1>1, <1>2

----------------------------------------------------------------------------
(* A profile that holds only what is true lets through only requests that  *)
(* the printer takes.                                                      *)
LEMMA Translated == FacadeInv => PrinterTakesIt
<1> SUFFICES ASSUME FacadeInv, NEW r \in Requests, profile # Null, Accepted(profile, r)
             PROVE  LET q == rewrite_request(profile, r)
                    IN  /\ q.op \in printer.operations
                             \cup (IF printer.urf THEN {"Print-Job", "Get-Printer-Attributes"} ELSE {})
                        /\ q.op = "Create-Job" =>
                             Accepted(profile, [r EXCEPT !.op = "Send-Document"])
                        /\ q.op \in FormatOperations /\ q.format # Null =>
                             q.format \in printer.txt \cup printer.formats \cup {URF}
                        /\ q.op \in DocumentOperations => (q.converted <=> q.format # r.format)
                        /\ q.version = 2 => printer.v2
                        /\ \A n \in Neutral :
                             (\E v \in Values : <<n, v>> \in q.attrs) => printer.job[n] # {}
                        /\ <<OutputMode, r.value>> \in q.attrs =>
                             OutputMode \in printer.color /\ ColorMode \notin profile.caps
                        /\ <<ColorMode, r.value>> \in q.attrs /\ profile.queried /\ ~printer.partial =>
                             printer.color # {OutputMode}
                        /\ r.attr # Null /\ r.value = "other" =>
                             \E n \in {r.attr} \cup (IF r.attr = ColorMode THEN {OutputMode} ELSE {}) :
                               <<n, "other">> \in q.attrs
  BY DEF PrinterTakesIt
<1> DEFINE q == rewrite_request(profile, r)
<1>1. Truthful(printer, profile)
  BY DEF FacadeInv
<1>2. /\ q.op = r.op /\ q.version = UpstreamVersion(profile)
      /\ q.format = UpstreamFormat(profile, r.format)
      /\ q.attrs = IF r.attr = Null \/ Unknown(profile, r.attr) THEN {}
                   ELSE {<<IF r.attr = ColorMode /\ profile.legacy THEN OutputMode ELSE r.attr,
                           r.value>>}
  BY DEF rewrite_request
<1>3. q.converted <=> Converts(profile, r.format) /\ r.op \in DocumentOperations
  BY DEF rewrite_request
<1>4. r.op \in relay_operations(profile.operations) /\ r.op \in Tried
  BY DEF Accepted, Planned, Requests
<1> HIDE DEF q
<1>5. q.op \in printer.operations
        \cup (IF printer.urf THEN {"Print-Job", "Get-Printer-Attributes"} ELSE {})
  BY <1>1, <1>2, <1>4, FacadeAssumption DEF Truthful, Stated, UrfOperations, relay_operations, Pair
<1>6. q.op = "Create-Job" => Accepted(profile, [r EXCEPT !.op = "Send-Document"])
  BY <1>2 DEF Accepted, Planned, relay_operations, Requests, Safe, Pair, FormatOperations
<1>7. q.op \in FormatOperations /\ q.format # Null =>
        q.format \in printer.txt \cup printer.formats \cup {URF}
  BY <1>1, <1>2 DEF Accepted, Planned, Truthful, UpstreamFormat, Converts
<1>8. q.op \in DocumentOperations => (q.converted <=> q.format # r.format)
  BY <1>2, <1>3 DEF UpstreamFormat, Converts, PWG, URF
<1>9. q.version = 2 => printer.v2
  BY <1>1, <1>2 DEF UpstreamVersion, Truthful
<1>10. \A n \in Neutral : (\E v \in Values : <<n, v>> \in q.attrs) => printer.job[n] # {}
  BY <1>1, <1>2, FacadeAssumption DEF Truthful, Unknown
<1>11. <<OutputMode, r.value>> \in q.attrs =>
         OutputMode \in printer.color /\ ColorMode \notin profile.caps
  BY <1>1, <1>2, FacadeAssumption
     DEF Truthful, Requests, Attributes, Optimize, ColorMode, OutputMode
<1>12. <<ColorMode, r.value>> \in q.attrs /\ profile.queried /\ ~printer.partial =>
         printer.color # {OutputMode}
  BY <1>1, <1>2 DEF Truthful, ColorMode, OutputMode
<1>13. r.attr # Null /\ r.value = "other" =>
         \E n \in {r.attr} \cup (IF r.attr = ColorMode THEN {OutputMode} ELSE {}) :
           <<n, "other">> \in q.attrs
  BY <1>2 DEF Accepted, Unsupported
<1> QED
  BY <1>5, <1>6, <1>7, <1>8, <1>9, <1>10, <1>11, <1>12, <1>13 DEF q

(* What is learned is added.                                               *)
LEMMA Grows ==
  ASSUME NEW t \in Profiles, NEW a, NEW version
  PROVE  \A u \in {apply_printer_attributes(t, a, version),
                   finalize_profile([t EXCEPT !.version = version])} :
           u # Null => ~Forgets(t, u)
<1> DEFINE u == apply_attributes(t, {a}, version)
           v == [t EXCEPT !.version = version]
<1>1. DOMAIN u = DOMAIN t /\ DOMAIN v = DOMAIN t
  BY DEF apply_attributes
<1>2. /\ t.pdl \subseteq u.pdl /\ t.operations \subseteq u.operations /\ t.caps \subseteq u.caps
      /\ v.pdl = t.pdl /\ v.operations = t.operations /\ v.caps = t.caps
  BY DEF apply_attributes, Profiles
<1>3. {"pdl", "operations", "caps"} \subseteq DOMAIN t
  BY DEF Profiles
<1> HIDE DEF u, v
<1>4. \A w : DOMAIN w = DOMAIN t =>
        /\ finalize_profile(w).pdl = w.pdl /\ finalize_profile(w).caps = w.caps
        /\ w.operations \subseteq finalize_profile(w).operations
  BY <1>3 DEF finalize_profile
<1> QED
  BY <1>1, <1>2, <1>4 DEF Forgets, apply_printer_attributes, u, v

(* An update from an answer: the updated copy is true and has forgotten    *)
(* nothing of the copy it was made from.                                   *)
LEMMA AnswerUpdates ==
  ASSUME FacadeInv, NEW c \in Clients, Answer(c)
  PROVE  /\ asking[c] # Null /\ Updates(c, Learned(c))
         /\ Learned(c) # Null /\ ~Forgets(asking[c].target, Learned(c))
<1>1. asking[c] # Null /\ Updates(c, Learned(c))
  BY DEF Answer, Learned
<1>2. Learned(c) # Null
  BY <1>1, LearnedIsTrue, NullAssumption DEF Truthful
<1>3. asking[c].target \in Profiles
  BY <1>1 DEF FacadeInv, FacadeTypeOK
<1> QED
  BY <1>1, <1>2, <1>3, Grows DEF Learned

LEMMA ErrorUpdates ==
  ASSUME FacadeInv, NEW c \in Clients, AnswersError(c)
  PROVE  /\ asking[c] # Null
         /\ \E u : u # Null /\ Updates(c, u) /\ ~Forgets(asking[c].target, u)
<1>1. PICK version \in {1, 2} :
        /\ version = 2 => printer.v2
        /\ Updates(c, finalize_profile([asking[c].target EXCEPT !.version = version]))
  BY DEF AnswersError
<1> DEFINE u == finalize_profile([asking[c].target EXCEPT !.version = version])
<1>2. asking[c] # Null
  BY DEF AnswersError
<1>3. printer \in Descriptions /\ asking[c].target \in Profiles
  BY <1>2, FacadeAssumption DEF FacadeInv, FacadeTypeOK
<1>4. Truthful(printer, [asking[c].target EXCEPT !.version = version])
  BY <1>1, <1>2, <1>3 DEF FacadeInv, Truthful, Profiles
<1>5. Truthful(printer, u)
  BY <1>3, <1>4, Finalized
<1>6. u # Null
  BY <1>5, NullAssumption DEF Truthful
<1>7. ~Forgets(asking[c].target, u)
  BY <1>3, <1>6, Grows
<1> QED
  BY <1>1, <1>2, <1>6, <1>7

LEMMA OwnCopy ==
  ASSUME FacadeInv, NEW c \in Clients, asking[c].target = profile,
         Answer(c) \/ AnswersError(c)
  PROVE  ~Forgets(profile, profile')
<1>1. PICK u : Updates(c, u) /\ ~Forgets(profile, u)
  BY AnswerUpdates, ErrorUpdates
<1>2. asking[c] # Null
  BY AnswerUpdates, ErrorUpdates
<1>3. profile # Null
  BY <1>2, NullAssumption DEF FacadeInv, FacadeTypeOK
<1>4. ~Forgets(profile, profile)
  BY <1>3 DEF Forgets
<1> QED
  BY <1>1, <1>4 DEF Updates

----------------------------------------------------------------------------
(* The profile t keeps what a client was told by the answer s: it has the  *)
(* operations and formats, and the attributes of which s offers a choice.  *)
Keeps(t, s) ==
  /\ s.operations \subseteq relay_operations(t.operations)
  /\ s.formats \subseteq t.pdl \cup (IF URF \in t.pdl THEN {PWG} ELSE {})
  /\ \A n \in Neutral :
       "other" \in s.job[n] => n \in t.caps \/ (n = "sides" /\ printer.duplex)

(* The profile keeps what it has told a client, if nothing was forgotten   *)
(* since; where no printer is selected nobody was told anything since.     *)
PromiseInv ==
  \A c \in Clients \ stale :
    IF profile = Null THEN shown[c] = Nothing ELSE Keeps(profile, shown[c])

LEMMA NothingIsKept == \A t : Keeps(t, Nothing)
<1>1. Nothing.operations = {} /\ Nothing.formats = {}
  BY DEF Nothing
<1>2. \A n \in Neutral : Nothing.job[n] = {}
  BY DEF Nothing, Attributes
<1> QED
  BY <1>1, <1>2 DEF Keeps

(* A profile that has not forgotten anything keeps what the earlier kept.  *)
LEMMA KeptByMore ==
  ASSUME NEW t, NEW u, NEW s, t # Null, Keeps(t, s), ~Forgets(t, u)
  PROVE  Keeps(u, s)
<1>1. relay_operations(t.operations) \subseteq relay_operations(u.operations)
  BY DEF Forgets, relay_operations
<1> QED
  BY <1>1 DEF Keeps, Forgets

(* What a client is told is kept by the copy it was made from.             *)
LEMMA ToldIsKept ==
  ASSUME FacadeInv, NEW c \in Clients, asking[c] # Null, NEW requested
  PROVE  Keeps(Learned(c), filter_response(
           normalize_printer_response(Learned(c), AnswerTo(asking[c].format)), requested))
<1> DEFINE t == Learned(c)
           a == AnswerTo(asking[c].format)
           n == normalize_printer_response(t, a)
           s == filter_response(n, requested)
<1>1. Truthful(printer, t)
  BY LearnedIsTrue
<1>2. \A m \in Neutral : "other" \in a.job[m] => m \in t.caps
  <2>1. asking[c].target \in Profiles
    BY DEF FacadeInv, FacadeTypeOK
  <2> DEFINE v == Version(UpstreamVersion(asking[c].target) = 2)
             w == apply_attributes(asking[c].target, {a}, v)
  <2>2. /\ \A m \in Neutral : a.job[m] # {} => m \in w.caps
        /\ DOMAIN w = DOMAIN asking[c].target
    BY <2>1 DEF apply_attributes, Profiles
  <2>3. t.caps = w.caps
    <3>1. t = finalize_profile(w)
      BY DEF Learned, apply_printer_attributes
    <3>2. "caps" \in DOMAIN w
      BY <2>1, <2>2 DEF Profiles
    <3> HIDE DEF t, w
    <3> QED
      BY <3>1, <3>2 DEF finalize_profile
  <2> HIDE DEF t, w, a
  <2> QED
    BY <2>2, <2>3
<1>3. /\ n.operations = relay_operations(t.operations)
      /\ n.formats = t.pdl \cup (IF URF \in t.pdl THEN {PWG} ELSE {})
      /\ \A m \in Neutral :
           n.job[m] = IF a.job[m] # {} THEN a.job[m] ELSE Synthesized(t, m)
  BY FacadeAssumption DEF normalize_printer_response, Attributes
<1>4. DOMAIN n = {"operations", "formats", "job"}
  BY DEF normalize_printer_response
<1> HIDE DEF t, a, n
<1>5. /\ s.operations \subseteq n.operations
      /\ s.formats \subseteq n.formats
      /\ \A m \in Neutral : s.job[m] \in {{}, n.job[m]}
  BY <1>4 DEF filter_response, Attributes
<1>6. \A m \in Neutral :
        "other" \in n.job[m] => m \in t.caps \/ (m = "sides" /\ printer.duplex)
  <2>1. \A m : "other" \in Synthesized(t, m) => m \in t.more
    BY DEF Synthesized
  <2>2. \A m \in t.more : m \in t.caps \/ (m = "sides" /\ printer.duplex)
    BY <1>1 DEF Truthful
  <2> QED
    BY <1>2, <1>3, <2>1, <2>2
<1> HIDE DEF s
<1>7. Keeps(t, s)
  BY <1>3, <1>5, <1>6 DEF Keeps
<1> QED
  BY <1>7 DEF t, s, n, a

LEMMA PromiseInit == Init => PromiseInv
BY DEF Init, PromiseInv

(* What was kept of an unchanged answer is kept, if nothing is forgotten.  *)
LEMMA StillKept ==
  ASSUME FacadeInv, PromiseInv, printer' = printer, NEW c \in Clients \ stale,
         shown'[c] = shown[c], ~Forgets(profile, profile')
  PROVE  IF profile' = Null THEN shown'[c] = Nothing ELSE Keeps(profile', shown'[c])
<1>1. CASE profile = Null
  BY <1>1, NothingIsKept DEF PromiseInv
<1>2. CASE profile # Null
  <2>1. Keeps(profile, shown[c])
    BY <1>2 DEF PromiseInv
  <2>2. profile' # Null
    BY <1>2 DEF Forgets
  <2> QED
    BY <1>2, <2>1, <2>2, KeptByMore
<1> QED
  BY <1>1, <1>2

(* It is the same thing after a step that leaves the printer as it was.    *)
LEMMA PromiseNext ==
  ASSUME printer' = printer,
         \A c \in Clients \ stale' :
           IF profile' = Null THEN shown'[c] = Nothing ELSE Keeps(profile', shown'[c])
  PROVE  PromiseInv'
BY DEF PromiseInv, Keeps, Nothing

(* Every step but a client's answer.                                       *)
LEMMA OwnStepPromise ==
  ASSUME FacadeInv, PromiseInv, UNCHANGED <<printer, shown>>,
         ProfileChanges \/ UNCHANGED <<profile, stale>>
  PROVE  PromiseInv'
<1>1. SUFFICES ASSUME NEW c \in Clients \ stale'
               PROVE  IF profile' = Null THEN shown'[c] = Nothing ELSE Keeps(profile', shown'[c])
  BY PromiseNext
<1>2. ~Forgets(profile, profile') /\ c \notin stale
  BY <1>1 DEF ProfileChanges, Forgets
<1> QED
  BY <1>1, <1>2, StillKept

(* The profile after an update keeps what the client is told then, if the  *)
(* updated copy does.                                                      *)
LEMMA UpdatesPromise ==
  ASSUME FacadeInv, PromiseInv, NEW c \in Clients, NEW u, u # Null, Updates(c, u),
         NEW s, Keeps(u, s), shown' = [shown EXCEPT ![c] = s]
  PROVE  PromiseInv'
<1>1. printer' = printer /\ DOMAIN shown = Clients
  BY DEF Updates, FacadeInv, FacadeTypeOK
<1>2. SUFFICES ASSUME NEW d \in Clients \ stale'
               PROVE  IF profile' = Null THEN shown'[d] = Nothing ELSE Keeps(profile', shown'[d])
  BY <1>1, PromiseNext
<1>3. CASE d = c
  <2>1. ~Forgets(u, profile')
    BY <1>2, <1>3 DEF Updates
  <2>2. shown'[d] = s
    BY <1>1, <1>3
  <2>3. profile' # Null
    BY <2>1 DEF Forgets
  <2> QED
    BY <2>1, <2>2, <2>3, KeptByMore
<1>4. CASE d # c
  <2>1. d \notin stale /\ ~Forgets(profile, profile')
    BY <1>2, <1>4 DEF Updates
  <2>2. shown'[d] = shown[d]
    BY <1>1, <1>4
  <2> QED
    BY <1>1, <2>1, <2>2, StillKept
<1> QED
  BY <1>3, <1>4

LEMMA AnswerPromise ==
  ASSUME FacadeInv, PromiseInv, NEW c \in Clients, Answer(c)
  PROVE  PromiseInv'
<1> DEFINE a == AnswerTo(asking[c].format)
<1>1. asking[c] # Null /\ Updates(c, Learned(c)) /\ Learned(c) # Null
  BY AnswerUpdates
<1>2. PICK requested \in Wanted :
        shown' = [shown EXCEPT ![c] =
          filter_response(normalize_printer_response(Learned(c), a), requested)]
  BY DEF Answer, Learned
<1>3. Keeps(Learned(c), filter_response(normalize_printer_response(Learned(c), a), requested))
  BY <1>1, ToldIsKept
<1> HIDE DEF a
<1> QED
  BY <1>1, <1>2, <1>3, UpdatesPromise

LEMMA AnswersErrorPromise ==
  ASSUME FacadeInv, PromiseInv, NEW c \in Clients, AnswersError(c)
  PROVE  PromiseInv'
<1>1. PICK u : u # Null /\ Updates(c, u)
  BY ErrorUpdates
<1>2. shown' = [shown EXCEPT ![c] = Nothing]
  BY DEF AnswersError
<1>3. Keeps(u, Nothing)
  BY NothingIsKept
<1> QED
  BY <1>1, <1>2, <1>3, UpdatesPromise

LEMMA PromiseStep == FacadeInv /\ PromiseInv /\ [Next]_vars => PromiseInv'
<1> SUFFICES ASSUME FacadeInv, PromiseInv, [Next]_vars PROVE PromiseInv'
  OBVIOUS
<1>1. CASE UNCHANGED vars
  BY <1>1, OwnStepPromise DEF vars
<1>2. CASE ScanAnswered \/ ScanUnanswered
  <2>1. \E t : Scanned(t)
    BY <1>2 DEF ScanAnswered, ScanUnanswered
  <2> QED
    BY <2>1, OwnStepPromise DEF Scanned
<1>3. CASE ScanMisses \/ Resolve
  BY <1>3, OwnStepPromise DEF ScanMisses, Resolve
<1>4. CASE Select \/ ClearSelection \/ Resolved \/ Restart
  BY <1>4, OwnStepPromise DEF Select, ClearSelection, Resolved, Restart
<1>5. ASSUME NEW c \in Clients, NoAnswer(c) \/ \E format \in Named \cup {Null} : Ask(c, format)
      PROVE  PromiseInv'
  BY <1>5, OwnStepPromise DEF NoAnswer, Ask
<1> QED
  BY <1>1, <1>2, <1>3, <1>4, <1>5, AnswerPromise, AnswersErrorPromise DEF Next

(* A request within what a client was told is accepted by the profile that *)
(* keeps it.                                                               *)
LEMMA KeptIsAccepted == FacadeInv /\ PromiseInv => PromisesAreKept
<1> SUFFICES ASSUME FacadeInv, PromiseInv, NEW c \in Clients \ stale, NEW r \in Requests,
                    profile # Null, Promised(c, r),
                    r.value = "other" =>
                      /\ r.attr # Optimize
                      /\ r.attr = "sides" => ~printer.duplex \/ "sides" \in profile.caps
             PROVE  Accepted(profile, r)
  BY DEF PromisesAreKept
<1>1. Keeps(profile, shown[c])
  BY DEF PromiseInv
<1>2. Planned(profile, r)
  BY <1>1 DEF Promised, Keeps, Planned, Converts
<1>3. r.attr # Null => ~Unsupported(profile, r.attr, r.value)
  BY <1>1 DEF Promised, Keeps, Unsupported, Unknown, Requests, Values, Attributes
<1> QED
  BY <1>2, <1>3 DEF Accepted

(* Whatever the printer states, in whatever order it is learned, from      *)
(* answers that break off too, and however scans, selections, restarts and *)
(* requests overlap or undo it, a relayed request asks of the printer only *)
(* what it has stated, and chooses colours by output-mode only if and, for *)
(* a printer that was probed and answers alike for all formats, certainly  *)
(* if there is nothing better: ipp_proxy_plan_request and                  *)
(* normalize_facade_job_defaults over the profiles that                    *)
(* ipp_codec_apply_printer_attributes can make.                            *)
THEOREM PrinterIsObeyed == Spec => []PrinterTakesIt
<1>1. Spec => []FacadeInv
  BY InitInv, NextInv, PTL DEF Spec
<1> QED
  BY <1>1, Translated, PTL

(* What a client was told holds when it prints, however much later and     *)
(* whatever was scanned, selected, reloaded or learned since, as long as   *)
(* the profile has not lost anything by it in between:                     *)
(* ipp_codec_normalize_printer_response and ipp_codec_filter_response      *)
(* promise what ipp_proxy_plan_request and facade_job_attribute_action     *)
(* accept.                                                                 *)
THEOREM FacadeKeepsPromises == Spec => []PromisesAreKept
<1>1. Spec => []FacadeInv
  BY InitInv, NextInv, PTL DEF Spec
<1>2. Spec => []PromiseInv
  BY <1>1, PromiseInit, PromiseStep, PTL DEF Spec
<1> QED
  BY <1>1, <1>2, KeptIsAccepted, PTL

(* An answer to a client that meets the profile as its handler copied it   *)
(* only adds to it: the read-modify-write of proxy_handler around the      *)
(* printer's answer, and app_state_update_target.                          *)
THEOREM KnowledgeGrows == Spec => AnswersAdd
<1>1. Spec => []FacadeInv
  BY InitInv, NextInv, PTL DEF Spec
<1>2. FacadeInv /\ [Next]_vars =>
        [\A c \in Clients :
           asking[c] # Null /\ asking[c].target = profile /\ (Answer(c) \/ AnswersError(c)) =>
             ~Forgets(profile, profile')]_vars
  BY OwnCopy
<1> QED
  BY <1>1, <1>2, PTL DEF Spec, AnswersAdd

----------------------------------------------------------------------------
(* Induction, for a set instead of a predicate.                            *)
LEMMA Induction ==
  ASSUME NEW S, 0 \in S, \A n \in Nat : n \in S => n + 1 \in S
  PROVE  \A n \in Nat : n \in S
<1> SUFFICES ASSUME \E n \in Nat : n \notin S PROVE FALSE
  OBVIOUS
<1> DEFINE R == OpToRel(<, Nat)
           T == Nat \ S
<1>1. \A m, n \in Nat : <<m, n>> \in R <=> m < n
  BY DEF OpToRel
<1>2. IsWellFoundedOn(R, Nat)
  BY NatLessThanWellFounded
<1>3. T \subseteq Nat /\ T # {}
  OBVIOUS
<1> HIDE DEF R
<1>4. PICK n \in T : \A m \in T : ~(<<m, n>> \in R)
  BY <1>2, <1>3, WFMin
<1>5. n \in Nat /\ n # 0
  BY <1>4
<1>6. n - 1 \in Nat /\ n - 1 < n /\ n - 1 + 1 = n
  BY <1>5
<1>7. <<n - 1, n>> \in R
  BY <1>1, <1>5, <1>6, Zenon
<1>8. n - 1 \in S
  BY <1>4, <1>6, <1>7, Zenon
<1> QED
  BY <1>4, <1>6, <1>8

----------------------------------------------------------------------------
(* What is made of parts                                                   *)
Combined(parts, f, n) ==
  IF n = 0 THEN {<<>>}
  ELSE UNION {Cat(parts[k], f[n - k]) : k \in {k \in DOMAIN parts : k <= n}}

(* It depends on smaller sums only.                                        *)
LEMMA CombinedFrom ==
  ASSUME NEW parts, DOMAIN parts \subseteq Nat \ {0}, NEW n \in Nat, NEW f, NEW g,
         \A i \in Nat : i < n => f[i] = g[i]
  PROVE  Combined(parts, f, n) = Combined(parts, g, n)
<1> DEFINE K == {k \in DOMAIN parts : k <= n}
<1>1. \A k \in K : f[n - k] = g[n - k]
  <2> SUFFICES ASSUME NEW k \in K PROVE f[n - k] = g[n - k]
    OBVIOUS
  <2>1. k \in Nat /\ k # 0 /\ k <= n
    OBVIOUS
  <2>2. n - k \in Nat /\ n - k < n
    BY <2>1
  <2> QED BY <2>2
<1>2. \A k \in K : Cat(parts[k], f[n - k]) = Cat(parts[k], g[n - k])
  BY <1>1
<1> HIDE DEF K
<1>3. {Cat(parts[k], f[n - k]) : k \in K} = {Cat(parts[k], g[n - k]) : k \in K}
  BY <1>2
<1> QED BY <1>3 DEF Combined, K

LEMMA SumsExist ==
  ASSUME NEW parts, DOMAIN parts \subseteq Nat \ {0}
  PROVE  \A n \in Nat : \E g : g = [i \in 0..n |-> Combined(parts, g, i)]
<1> DEFINE Solves(g, n) == g = [i \in 0..n |-> Combined(parts, g, i)]
           S == {n \in Nat : \E g : Solves(g, n)}
<1>1. 0 \in S
  <2> DEFINE g == [i \in 0..0 |-> {<<>>}]
  <2>1. g = [i \in 0..0 |-> Combined(parts, g, i)]
    BY DEF Combined
  <2> QED BY <2>1
<1>2. ASSUME NEW n \in Nat, n \in S PROVE n + 1 \in S
  <2>1. PICK g : Solves(g, n)
    BY <1>2
  <2> DEFINE h == [i \in 0..(n + 1) |-> IF i <= n THEN g[i] ELSE Combined(parts, g, n + 1)]
  <2>2. \A i \in 0..n : h[i] = g[i]
    OBVIOUS
  <2>3. h[n + 1] = Combined(parts, g, n + 1)
    OBVIOUS
  <2>4. h = [i \in 0..(n + 1) |-> h[i]]
    OBVIOUS
  <2>5. \A i \in 0..n : g[i] = Combined(parts, g, i)
    BY <2>1
  <2> HIDE DEF h
  <2>6. ASSUME NEW i \in 0..(n + 1) PROVE h[i] = Combined(parts, h, i)
    <3>1. \A j \in Nat : j < i => g[j] = h[j]
      BY <2>2
    <3>2. Combined(parts, g, i) = Combined(parts, h, i)
      BY <3>1, CombinedFrom
    <3>3. i \in 0..n \/ i = n + 1
      OBVIOUS
    <3> QED BY <2>2, <2>3, <2>5, <3>2, <3>3
  <2>7. Solves(h, n + 1)
    BY <2>4, <2>6
  <2> QED BY <2>7
<1> HIDE DEF S
<1>3. \A n \in Nat : n \in S
  BY <1>1, <1>2, Induction
<1> QED BY <1>3 DEF S

LEMMA SumsAgree ==
  ASSUME NEW parts, DOMAIN parts \subseteq Nat \ {0}, NEW m \in Nat, NEW n \in Nat,
         NEW f, f = [i \in 0..m |-> Combined(parts, f, i)],
         NEW g, g = [i \in 0..n |-> Combined(parts, g, i)]
  PROVE  \A i \in Nat : i <= m /\ i <= n => f[i] = g[i]
<1> DEFINE S == {i \in Nat : \A j \in Nat : j < i /\ j <= m /\ j <= n => f[j] = g[j]}
<1>1. 0 \in S
  OBVIOUS
<1>2. ASSUME NEW i \in Nat, i \in S PROVE i + 1 \in S
  <2> SUFFICES ASSUME NEW j \in Nat, j < i + 1, j <= m, j <= n PROVE f[j] = g[j]
    OBVIOUS
  <2>1. \A k \in Nat : k < j => f[k] = g[k]
    BY <1>2
  <2>2. Combined(parts, f, j) = Combined(parts, g, j)
    BY <2>1, CombinedFrom
  <2>3. f[j] = Combined(parts, f, j) /\ g[j] = Combined(parts, g, j)
    <3>1. j \in 0..m /\ j \in 0..n
      OBVIOUS
    <3> QED BY <3>1
  <2> QED BY <2>2, <2>3
<1> HIDE DEF S
<1>3. \A i \in Nat : i \in S
  BY <1>1, <1>2, Induction
<1> QED
  <2> SUFFICES ASSUME NEW i \in Nat, i <= m, i <= n PROVE f[i] = g[i]
    OBVIOUS
  <2>1. i + 1 \in S /\ i < i + 1
    BY <1>3
  <2> QED BY <2>1 DEF S

(* The equation by which Sums is defined.                                  *)
LEMMA SumsEquation ==
  ASSUME NEW parts, DOMAIN parts \subseteq Nat \ {0}
  PROVE  /\ Sums(parts, 0) = {<<>>}
         /\ \A n \in Nat \ {0} : \A w :
              w \in Sums(parts, n) <=>
                \E k \in DOMAIN parts : k <= n /\ w \in Cat(parts[k], Sums(parts, n - k))
<1> DEFINE G(m) == CHOOSE g : g = [i \in 0..m |-> Combined(parts, g, i)]
<1>1. ASSUME NEW m \in Nat
      PROVE  G(m) = [i \in 0..m |-> Combined(parts, G(m), i)]
  BY SumsExist, Zenon
<1>2. ASSUME NEW m \in Nat PROVE Sums(parts, m) = G(m)[m]
  BY Zenon DEF Sums, Combined
<1> HIDE DEF G
<1>3. ASSUME NEW m \in Nat, NEW i \in Nat, i <= m PROVE G(m)[i] = Sums(parts, i)
  <2>1. i <= i
    OBVIOUS
  <2>2. \A f, g : /\ f = [j \in 0..m |-> Combined(parts, f, j)]
                   /\ g = [j \in 0..i |-> Combined(parts, g, j)] => f[i] = g[i]
    BY <1>3, <2>1, SumsAgree
  <2>3. G(m) = [j \in 0..m |-> Combined(parts, G(m), j)]
    BY <1>1
  <2>4. G(i) = [j \in 0..i |-> Combined(parts, G(i), j)]
    BY <1>1
  <2>5. G(m)[i] = G(i)[i]
    BY <2>2, <2>3, <2>4, Zenon
  <2> QED BY <1>2, <2>5
<1>4. ASSUME NEW n \in Nat PROVE Sums(parts, n) = Combined(parts, G(n), n)
  <2>1. n \in 0..n
    OBVIOUS
  <2>2. \A f : f = [j \in 0..n |-> Combined(parts, f, j)] => f[n] = Combined(parts, f, n)
    BY <2>1
  <2>3. G(n)[n] = Combined(parts, G(n), n)
    BY <1>1, <2>2, Zenon
  <2> QED BY <1>2, <2>3
<1>5. Sums(parts, 0) = {<<>>}
  BY <1>4 DEF Combined
<1>6. ASSUME NEW n \in Nat \ {0}, NEW w
      PROVE  w \in Sums(parts, n) <=>
               \E k \in DOMAIN parts : k <= n /\ w \in Cat(parts[k], Sums(parts, n - k))
  <2>1. w \in Sums(parts, n) <=>
          \E k \in DOMAIN parts : k <= n /\ w \in Cat(parts[k], G(n)[n - k])
    BY <1>4 DEF Combined
  <2>2. \A k \in DOMAIN parts : k <= n => G(n)[n - k] = Sums(parts, n - k)
    <3> SUFFICES ASSUME NEW k \in DOMAIN parts, k <= n PROVE G(n)[n - k] = Sums(parts, n - k)
      OBVIOUS
    <3>1. n - k \in Nat /\ n - k <= n
      OBVIOUS
    <3> QED BY <1>3, <3>1
  <2> QED BY <2>1, <2>2
<1> QED BY <1>5, <1>6

----------------------------------------------------------------------------
(* What is read: the sync word, page headers and bytes                     *)
Marks ==
  ({"sync"} \X (Syncs \cup {"RaS2"})) \cup ({"page"} \X Headers) \cup ({"byte"} \X Nat)
Words == Seq(Marks)

(* Written with an operator of its own, as the provers read into \o.        *)
Plus(u, v) == u \o v

LEMMA Joined ==
  ASSUME NEW u \in Words, NEW v \in Words
  PROVE  /\ u \o v \in Words /\ Len(u \o v) = Len(u) + Len(v)
         /\ Len(u) \in Nat /\ Len(v) \in Nat
BY DEF Words

LEMMA Elements ==
  ASSUME NEW u \in Words, NEW v \in Words
  PROVE  /\ \A i \in 1..Len(u) : (u \o v)[i] = u[i]
         /\ \A i \in 1..Len(v) : (u \o v)[Len(u) + i] = v[i]
BY DEF Words

LEMMA PlusIn == \A u, v \in Words : Plus(u, v) \in Words
BY Joined DEF Plus

LEMMA PlusPlus == \A u, v, w \in Words : Plus(Plus(u, v), w) = Plus(u, Plus(v, w))
<1> SUFFICES ASSUME NEW u \in Words, NEW v \in Words, NEW w \in Words
             PROVE  Plus(Plus(u, v), w) = Plus(u, Plus(v, w))
  OBVIOUS
<1>1. (u \o v) \o w = u \o (v \o w)
  BY ConcatAssociative DEF Words
<1> QED BY <1>1 DEF Plus

LEMMA PlusEmpty ==
  /\ <<>> \in Words
  /\ \A w \in Words : Plus(w, <<>>) = w /\ Plus(<<>>, w) = w
  /\ \A u, v \in Words : Plus(u, v) = <<>> => u = <<>> /\ v = <<>>
<1>1. <<>> \in Words
  BY DEF Words
<1>2. ASSUME NEW w \in Words PROVE Plus(w, <<>>) = w /\ Plus(<<>>, w) = w
  BY ConcatEmptySeq DEF Words, Plus
<1>3. ASSUME NEW u \in Words, NEW v \in Words, Plus(u, v) = <<>> PROVE u = <<>> /\ v = <<>>
  BY <1>3, ConcatEmptySeq DEF Words, Plus
<1> QED BY <1>1, <1>2, <1>3

(* Of two beginnings of a word, the longer one goes on from the other.     *)
LEMMA LongerBeginning ==
  ASSUME NEW s \in Words, NEW v \in Words, NEW q \in Words, NEW a \in Words,
         Len(s) <= Len(q), Plus(s, v) = Plus(q, a)
  PROVE  \E r \in Words : q = Plus(s, r) /\ v = Plus(r, a)
<1>0. s \o v = q \o a
  BY DEF Plus
<1> DEFINE m == Len(s)
           n == Len(q)
           r == SubSeq(q, m + 1, n)
           t == s \o v
<1>1. m \in Nat /\ n \in Nat /\ m <= n /\ Len(v) \in Nat /\ Len(a) \in Nat
      /\ m + Len(v) = n + Len(a)
  <2>1. m \in Nat /\ Len(v) \in Nat /\ Len(s \o v) = m + Len(v)
    BY Joined
  <2>2. n \in Nat /\ Len(a) \in Nat /\ Len(q \o a) = n + Len(a)
    BY Joined
  <2> QED BY <1>0, <2>1, <2>2
<1>2. r \in Words /\ Len(r) = n - m /\ \A i \in 1..(n - m) : r[i] = q[m + i]
  BY <1>1, SubSeqProperties DEF Words
<1>3. (\A i \in 1..m : t[i] = s[i]) /\ (\A i \in 1..Len(v) : t[m + i] = v[i])
  BY Elements
<1>4. (\A i \in 1..n : t[i] = q[i]) /\ (\A i \in 1..Len(a) : t[n + i] = a[i])
  BY <1>0, Elements
<1> HIDE DEF r, t
<1>5. /\ s \o r \in Words /\ Len(s \o r) = m + Len(r)
      /\ (\A i \in 1..m : (s \o r)[i] = s[i]) /\ (\A i \in 1..Len(r) : (s \o r)[m + i] = r[i])
  BY <1>2, Joined, Elements
<1>6. /\ r \o a \in Words /\ Len(r \o a) = Len(r) + Len(a)
      /\ \A i \in 1..Len(r) : (r \o a)[i] = r[i]
      /\ \A i \in 1..Len(a) : (r \o a)[Len(r) + i] = a[i]
  BY <1>2, Joined, Elements
<1> HIDE DEF m, n
<1>7. q = s \o r
  <2>1. Len(s \o r) = n
    BY <1>1, <1>2, <1>5
  <2>2. ASSUME NEW i \in 1..n PROVE q[i] = (s \o r)[i]
    <3>1. q[i] = t[i]
      BY <1>4
    <3>2. CASE i <= m
      BY <1>1, <1>3, <1>5, <3>1, <3>2
    <3>3. CASE ~(i <= m)
      <4> DEFINE j == i - m
      <4>1. j \in 1..(n - m) /\ m + j = i
        BY <1>1, <3>3
      <4> HIDE DEF j
      <4>2. (s \o r)[m + j] = r[j] /\ r[j] = q[m + j]
        BY <1>2, <1>5, <4>1
      <4> QED BY <4>1, <4>2
    <3> QED BY <3>2, <3>3
  <2>3. Len(q) = n
    BY DEF n
  <2> QED BY <1>5, <2>1, <2>2, <2>3, SeqEqual DEF Words
<1>8. v = r \o a
  <2>1. Len(r \o a) = Len(v)
    BY <1>1, <1>2, <1>6
  <2>2. ASSUME NEW i \in 1..Len(v) PROVE v[i] = (r \o a)[i]
    <3>1. v[i] = t[m + i]
      BY <1>3
    <3>2. CASE m + i <= n
      <4>1. m + i \in 1..n /\ i \in 1..(n - m) /\ i \in 1..Len(r)
        BY <1>1, <1>2, <3>2
      <4>2. t[m + i] = q[m + i] /\ r[i] = q[m + i] /\ (r \o a)[i] = r[i]
        BY <1>2, <1>4, <1>6, <4>1
      <4> QED BY <3>1, <4>2
    <3>3. CASE ~(m + i <= n)
      <4> DEFINE j == m + i - n
      <4>1. j \in 1..Len(a) /\ n + j = m + i /\ Len(r) + j = i
        BY <1>1, <1>2, <3>3
      <4> HIDE DEF j
      <4>2. t[n + j] = a[j] /\ (r \o a)[Len(r) + j] = a[j]
        BY <1>4, <1>6, <4>1
      <4> QED BY <3>1, <4>1, <4>2
    <3> QED BY <3>2, <3>3
  <2> QED BY <1>6, <2>1, <2>2, SeqEqual DEF Words
<1> QED BY <1>2, <1>7, <1>8 DEF Plus

LEMMA Beginnings ==
  \A s, v, q, a \in Words : Len(s) <= Len(q) /\ Plus(s, v) = Plus(q, a) =>
    \E r \in Words : q = Plus(s, r) /\ v = Plus(r, a)
BY LongerBeginning

(* Words of a single mark.                                                 *)
Letters == {o \in Words : Len(o) = 1}

LEMMA FirstLetter ==
  \A o \in Letters, v, q, a \in Words : q # <<>> /\ Plus(o, v) = Plus(q, a) =>
    \E r \in Words : q = Plus(o, r) /\ v = Plus(r, a)
<1> SUFFICES ASSUME NEW o \in Letters, NEW v \in Words, NEW q \in Words, NEW a \in Words,
                    q # <<>>, Plus(o, v) = Plus(q, a)
             PROVE  \E r \in Words : q = Plus(o, r) /\ v = Plus(r, a)
  OBVIOUS
<1>1. Len(q) \in Nat /\ Len(q) # 0
  BY EmptySeq DEF Words
<1>2. o \in Words /\ Len(o) <= Len(q)
  BY <1>1 DEF Letters
<1> QED BY <1>2, Beginnings

LEMMA SameLetter ==
  \A o, p \in Letters, v, w \in Words : Plus(o, v) = Plus(p, w) => o = p /\ v = w
<1> SUFFICES ASSUME NEW o \in Letters, NEW p \in Letters, NEW v \in Words, NEW w \in Words,
                    Plus(o, v) = Plus(p, w)
             PROVE  o = p /\ v = w
  OBVIOUS
<1>1. o \in Words /\ p \in Words /\ Len(o) = 1 /\ Len(p) = 1 /\ p # <<>>
  <2>1. o \in Words /\ p \in Words /\ Len(o) = 1 /\ Len(p) = 1
    BY Zenon DEF Letters
  <2>2. Len(<<>>) = 0 /\ 0 # 1
    OBVIOUS
  <2> QED BY <2>1, <2>2, Zenon
<1>2. PICK r \in Words : p = Plus(o, r) /\ v = Plus(r, w)
  BY <1>1, FirstLetter
<1>3. Len(Plus(o, r)) = Len(o) + Len(r) /\ Len(r) \in Nat
  BY <1>1, Joined DEF Plus
<1>4. Len(r) = 0
  <2>1. \A i \in Nat : 1 = 1 + i => i = 0
    OBVIOUS
  <2> QED BY <1>1, <1>2, <1>3, <2>1, Zenon
<1>5. r = <<>>
  BY <1>4, EmptySeq DEF Words
<1> QED BY <1>1, <1>2, <1>5, PlusEmpty

----------------------------------------------------------------------------
LEMMA CatDef ==
  \A A, B, w : w \in Cat(A, B) <=> \E a \in A : \E b \in B : w = Plus(a, b)
BY DEF Cat, Plus

LEMMA CatNone == \A A : Cat({}, A) = {} /\ Cat(A, {}) = {}
BY DEF Cat

LEMMA CatIn ==
  ASSUME NEW A, NEW B, A \subseteq Words, B \subseteq Words
  PROVE  /\ Cat(A, B) \subseteq Words
         /\ Cat({<<>>}, B) = B
         /\ <<>> \in Cat(A, B) <=> <<>> \in A /\ <<>> \in B
<1>1. Cat(A, B) \subseteq Words
  BY CatDef, PlusIn
<1>2. ASSUME NEW E, <<>> \in E, \A a \in E : a = <<>> PROVE Cat(E, B) = B
  <2>1. ASSUME NEW w \in Cat(E, B) PROVE w \in B
    BY <1>2, CatDef, PlusEmpty
  <2>2. ASSUME NEW w \in B PROVE w \in Cat(E, B)
    <3>1. <<>> \in E /\ w = Plus(<<>>, w)
      BY <1>2, PlusEmpty
    <3> QED BY <3>1, CatDef
  <2> QED BY <2>1, <2>2
<1>3. Cat({<<>>}, B) = B
  BY <1>2
<1>4. <<>> \in Cat(A, B) <=> <<>> \in A /\ <<>> \in B
  BY CatDef, PlusEmpty
<1> QED BY <1>1, <1>3, <1>4

(* Sums of parts, none of which is empty.                                  *)
Parts(parts) ==
  /\ DOMAIN parts \subseteq Nat \ {0}
  /\ \A k \in DOMAIN parts : parts[k] \subseteq Words /\ <<>> \notin parts[k]

LEMMA SumsIn ==
  ASSUME NEW parts, Parts(parts)
  PROVE  /\ \A n \in Nat : Sums(parts, n) \subseteq Words
         /\ \A n \in Nat \ {0} : <<>> \notin Sums(parts, n)
         /\ Sums(parts, 0) = {<<>>}
<1>1. /\ DOMAIN parts \subseteq Nat \ {0}
      /\ \A k \in DOMAIN parts : parts[k] \subseteq Words /\ <<>> \notin parts[k]
  BY DEF Parts
<1>2. /\ Sums(parts, 0) = {<<>>}
      /\ \A n \in Nat \ {0} : \A w :
           w \in Sums(parts, n) <=>
             \E k \in DOMAIN parts : k <= n /\ w \in Cat(parts[k], Sums(parts, n - k))
  BY <1>1, SumsEquation
<1> DEFINE S == {i \in Nat : \A n \in Nat : n <= i => Sums(parts, n) \subseteq Words}
<1>3. 0 \in S
  <2>1. Sums(parts, 0) \subseteq Words
    <3>1. <<>> \in Words
      BY DEF Words
    <3> QED BY <1>2, <3>1
  <2> QED BY <2>1
<1>4. ASSUME NEW i \in Nat, i \in S PROVE i + 1 \in S
  <2> SUFFICES ASSUME NEW n \in Nat, n = i + 1 PROVE Sums(parts, n) \subseteq Words
    BY <1>4
  <2> SUFFICES ASSUME NEW w \in Sums(parts, n) PROVE w \in Words
    OBVIOUS
  <2>1. PICK k \in DOMAIN parts : k <= n /\ w \in Cat(parts[k], Sums(parts, n - k))
    BY <1>2
  <2>2. n - k \in Nat /\ n - k <= i
    BY <1>1, <2>1
  <2>3. Sums(parts, n - k) \subseteq Words /\ parts[k] \subseteq Words
    BY <1>1, <1>4, <2>2
  <2> QED BY <2>1, <2>3, CatIn
<1> HIDE DEF S
<1>5. \A n \in Nat : n \in S
  BY <1>3, <1>4, Induction
<1>6. \A n \in Nat : Sums(parts, n) \subseteq Words
  BY <1>5 DEF S
<1>7. ASSUME NEW n \in Nat \ {0}, <<>> \in Sums(parts, n) PROVE FALSE
  <2>1. PICK k \in DOMAIN parts : k <= n /\ <<>> \in Cat(parts[k], Sums(parts, n - k))
    BY <1>2, <1>7
  <2>2. n - k \in Nat
    BY <1>1, <2>1
  <2>3. Sums(parts, n - k) \subseteq Words /\ parts[k] \subseteq Words
    BY <1>1, <1>6, <2>2
  <2>4. <<>> \in parts[k]
    BY <2>1, <2>3, CatIn
  <2> QED BY <1>1, <2>4
<1> QED BY <1>2, <1>6, <1>7

(* The mark o begins parts of one size only; L is what may follow in them. *)
Begins(o, parts, size, L) ==
  \A k \in DOMAIN parts : \A l \in Words : Plus(o, l) \in parts[k] <=> k = size /\ l \in L

LEMMA SumsNext ==
  ASSUME NEW parts, Parts(parts), NEW n \in Nat \ {0}, NEW A, A \subseteq Words,
         NEW o \in Letters, NEW v \in Words, NEW size \in DOMAIN parts, size <= n,
         NEW L, L \subseteq Words, Begins(o, parts, size, L)
  PROVE  Plus(o, v) \in Cat(Sums(parts, n), A) <=> v \in Cat(L, Cat(Sums(parts, n - size), A))
<1>1. /\ DOMAIN parts \subseteq Nat \ {0}
      /\ \A k \in DOMAIN parts : parts[k] \subseteq Words /\ <<>> \notin parts[k]
  BY DEF Parts
<1>2. \A w : w \in Sums(parts, n) <=>
               \E k \in DOMAIN parts : k <= n /\ w \in Cat(parts[k], Sums(parts, n - k))
  BY <1>1, SumsEquation
<1>3. \A i \in Nat : Sums(parts, i) \subseteq Words
  BY SumsIn
<1>4. \A k \in DOMAIN parts : k <= n => n - k \in Nat
  BY <1>1
<1>5. o \in Words
  BY DEF Letters
<1>6. ASSUME Plus(o, v) \in Cat(Sums(parts, n), A)
      PROVE  v \in Cat(L, Cat(Sums(parts, n - size), A))
  <2>1. PICK s \in Sums(parts, n), a \in A : Plus(o, v) = Plus(s, a)
    BY <1>6, CatDef
  <2>2. PICK k \in DOMAIN parts : k <= n /\ s \in Cat(parts[k], Sums(parts, n - k))
    BY <1>2, <2>1
  <2>3. PICK p \in parts[k], m \in Sums(parts, n - k) : s = Plus(p, m)
    BY <2>2, CatDef
  <2>4. p \in Words /\ p # <<>> /\ m \in Words /\ a \in Words
    BY <1>1, <1>3, <1>4, <2>1, <2>2, <2>3
  <2>5. Plus(o, v) = Plus(p, Plus(m, a)) /\ Plus(m, a) \in Words
    BY <2>1, <2>3, <2>4, PlusIn, PlusPlus
  <2>6. PICK r \in Words : p = Plus(o, r) /\ v = Plus(r, Plus(m, a))
    BY <2>4, <2>5, FirstLetter
  <2>7. k = size /\ r \in L
    BY <2>3, <2>6 DEF Begins
  <2>8. Plus(m, a) \in Cat(Sums(parts, n - size), A)
    BY <2>1, <2>3, <2>7, CatDef
  <2> QED BY <2>6, <2>7, <2>8, CatDef
<1>7. ASSUME v \in Cat(L, Cat(Sums(parts, n - size), A))
      PROVE  Plus(o, v) \in Cat(Sums(parts, n), A)
  <2>1. PICK l \in L, c \in Cat(Sums(parts, n - size), A) : v = Plus(l, c)
    BY <1>7, CatDef
  <2>2. PICK m \in Sums(parts, n - size), a \in A : c = Plus(m, a)
    BY <2>1, CatDef
  <2>3. l \in Words /\ m \in Words /\ a \in Words
    BY <1>3, <1>4, <2>1, <2>2
  <2>4. Plus(o, l) \in parts[size] /\ Plus(o, l) \in Words
    BY <1>5, <2>1, <2>3, PlusIn DEF Begins
  <2>5. Plus(Plus(o, l), m) \in Sums(parts, n)
    BY <1>2, <2>2, <2>4, CatDef
  <2>6. Plus(Plus(Plus(o, l), m), a) = Plus(o, v)
    BY <1>5, <2>1, <2>2, <2>3, <2>4, PlusIn, PlusPlus
  <2> QED BY <2>2, <2>5, <2>6, CatDef
<1> QED BY <1>6, <1>7


----------------------------------------------------------------------------
(* The inductive invariant: what was read goes on to a document exactly by *)
(* what the position in it leaves due.                                     *)
Due(u, S) == \A v \in Words : Plus(u, v) \in Documents <=> v \in S

(* From the first header on.                                               *)
Opening == UNION {{d \in Sums(<<Pages>>, n) : d[1][2].count \in {0, -1, n}} : n \in 1..MaxPages}

(* After p pages, of which e were announced.                               *)
After(p, e) ==
  UNION {Sums(<<Pages>>, m) : m \in {m \in 0..(MaxPages - p) : e \in {0, -1, p + m}}}

(* From row r of page p on, and from byte b of the line before it on.      *)
FromRow(h, r, p, e) == Cat(Sums(RowRuns(h), h.height - r), After(p + 1, e))
FromByte(h, b, r, p, e) == Cat(Lines(h, h.line - b), FromRow(h, r, p, e))

InPage == page \in Headers /\ Refusal(page) = None /\ pages < MaxPages /\ rows < page.height
InRow == InPage /\ row_count \in 1..(page.height - rows) /\ decoded < page.line

Places ==
  /\ pc = "sync" => input = <<>> /\ output = <<>> /\ pages = 0
  /\ pc = "first" => /\ input = <<<<"sync", "RaS2">>>> /\ output = <<>> /\ pages = 0
                     /\ Due(input, Opening)
  /\ pc = "header" => pages \in 1..MaxPages /\ Due(input, After(pages, expected))
  /\ pc = "repeat" => InPage /\ Due(input, FromRow(page, rows, pages, expected))
  /\ pc = "control" =>
       InRow /\ Due(input, FromByte(page, decoded, rows + row_count, pages, expected))
  /\ pc = "payload" =>
       /\ InRow /\ left > 0 /\ expanded > 0 /\ decoded + expanded <= page.line
       /\ Due(input, Cat(Payload(left),
                         FromByte(page, decoded + expanded, rows + row_count, pages, expected)))

Copied ==
  pc \in {"header", "repeat", "control", "payload"} => Len(input) >= 2 /\ output = AsUrf(input)

RasterTypeOK ==
  /\ pc \in {"sync", "first", "header", "repeat", "control", "payload", "returned"}
  /\ input \in Words
  /\ {pages, rows, row_count, decoded, left, expanded} \subseteq Nat
  /\ expected \in Nat \cup {-1}

RasterInv ==
  /\ RasterTypeOK
  /\ Places
  /\ Copied
  /\ pc # "returned" => result = None /\ ~eof
  /\ pc = "returned" => ConvertsDocuments


----------------------------------------------------------------------------
(* Bytes, lines, pages                                                     *)
LEMMA RasterConstants ==
  /\ \A h \in Headers : HeaderOK(h)
  /\ Bytes \subseteq 0..255 /\ Pixels \subseteq 0..255
  /\ MaxWidth \in Nat /\ MaxHeight \in Nat /\ MaxLine \in Nat
  /\ Piece \in Nat \ {0} /\ MaxPages \in Nat \ {0}
BY RasterAssumption

LEMMA LettersIn ==
  /\ \A o \in Letters : o \in Words /\ o # <<>>
  /\ \A b \in Nat : Byte(b) \in Letters
  /\ \A h \in Headers : <<<<"page", h>>>> \in Letters
  /\ <<<<"sync", "RaS2">>>> \in Letters
<1>1. ASSUME NEW o \in Letters PROVE o \in Words /\ o # <<>>
  <2>1. o \in Words /\ Len(o) = 1
    BY Zenon DEF Letters
  <2>2. Len(<<>>) = 0 /\ 0 # 1
    OBVIOUS
  <2> QED BY <2>1, <2>2, Zenon
<1>2. ASSUME NEW x \in Marks PROVE <<x>> \in Letters
  BY DEF Letters, Words
<1>3. /\ \A b \in Nat : <<"byte", b>> \in Marks
      /\ \A h \in Headers : <<"page", h>> \in Marks
      /\ <<"sync", "RaS2">> \in Marks
  BY DEF Marks
<1> QED BY <1>1, <1>2, <1>3 DEF Byte

LEMMA SameByte == \A b, c \in Nat : Byte(b) = Byte(c) <=> b = c
BY DEF Byte

LEMMA CatLetter ==
  ASSUME NEW o \in Letters, NEW p \in Letters, NEW L, L \subseteq Words, NEW l \in Words
  PROVE  Plus(o, l) \in Cat({p}, L) <=> o = p /\ l \in L
<1>1. ASSUME NEW E, p \in E, \A e \in E : e = p
      PROVE  Plus(o, l) \in Cat(E, L) <=> o = p /\ l \in L
  <2>1. ASSUME Plus(o, l) \in Cat(E, L) PROVE o = p /\ l \in L
    <3>1. PICK e \in E, m \in L : Plus(o, l) = Plus(e, m)
      BY <2>1, CatDef
    <3>2. e = p /\ m \in Words
      BY <1>1
    <3> QED BY <3>1, <3>2, SameLetter
  <2>2. ASSUME o = p, l \in L PROVE Plus(o, l) \in Cat(E, L)
    BY <1>1, <2>2, CatDef
  <2> QED BY <2>1, <2>2
<1> QED BY <1>1

(* Something is read before what is not empty ends.                        *)
LEMMA LetterFirst ==
  ASSUME NEW o \in Letters, NEW L, L \subseteq Words
  PROVE  Cat({o}, L) \subseteq Words /\ <<>> \notin Cat({o}, L)
<1>1. {o} \subseteq Words /\ <<>> \notin {o}
  BY LettersIn
<1> HIDE DEF Cat
<1> QED BY <1>1, CatIn

(* Bytes of pixels, in whichever pieces they are read.                     *)
LEMMA PayloadIn ==
  ASSUME NEW n \in Nat
  PROVE  /\ Payload(n) \subseteq Words
         /\ \A s \in Payload(n) : Len(s) = n
         /\ Payload(0) = {<<>>}
         /\ n > 0 => <<>> \notin Payload(n)
<1> DEFINE P == {<<"byte", x>> : x \in Pixels}
<1>1. P \subseteq Marks
  BY RasterConstants DEF Marks
<1> HIDE DEF P
<1>2. ASSUME NEW s \in [1..n -> P] PROVE s \in Words /\ Len(s) = n
  BY <1>1 DEF Words
<1>3. \A s \in Payload(n) : s \in Words /\ Len(s) = n
  BY <1>2 DEF Payload, P
<1>4. [1..0 -> P] = {<<>>}
  <2>1. 1..0 = {}
    OBVIOUS
  <2>2. \A s \in [1..0 -> P] : s = <<>>
    <3>1. \A s \in [1..0 -> P] : s \in Seq(P) /\ Len(s) = 0
      OBVIOUS
    <3> QED BY <3>1, EmptySeq
  <2>3. <<>> \in [1..0 -> P]
    OBVIOUS
  <2> QED BY <2>2, <2>3
<1>5. Payload(0) = {<<>>}
  BY <1>4 DEF Payload, P
<1>6. n > 0 => <<>> \notin Payload(n)
  <2>1. Len(<<>>) = 0
    OBVIOUS
  <2>2. n > 0 => n # 0
    OBVIOUS
  <2> QED BY <1>3, <2>1, <2>2
<1> QED BY <1>3, <1>5, <1>6

LEMMA PayloadSplit ==
  ASSUME NEW j \in Nat, NEW n \in Nat, j <= n, NEW s \in Payload(j), NEW r \in Words
  PROVE  Plus(s, r) \in Payload(n) <=> r \in Payload(n - j)
<1> DEFINE P == {<<"byte", x>> : x \in Pixels}
           u == Plus(s, r)
<1>1. s \in Words /\ Len(s) = j
  BY PayloadIn
<1>2. u \in Words /\ Len(u) = j + Len(r) /\ Len(r) \in Nat
  BY <1>1, Joined DEF Plus
<1>3. (\A i \in 1..j : u[i] = s[i]) /\ (\A i \in 1..Len(r) : u[j + i] = r[i])
  BY <1>1, Elements DEF Plus
<1>4. \A i \in 1..j : s[i] \in P
  BY DEF Payload
<1>5. ASSUME NEW w \in Words, NEW m \in Nat, Len(w) = m, \A i \in 1..m : w[i] \in P
      PROVE  w \in Payload(m)
  <2>1. w = [i \in 1..m |-> w[i]]
    BY <1>5 DEF Words
  <2> QED BY <1>5, <2>1 DEF Payload
<1>6. ASSUME NEW m \in Nat, NEW w \in Payload(m) PROVE Len(w) = m /\ \A i \in 1..m : w[i] \in P
  BY PayloadIn DEF Payload
<1> HIDE DEF P, u
<1>7. ASSUME u \in Payload(n) PROVE r \in Payload(n - j)
  <2>1. Len(u) = n /\ \A i \in 1..n : u[i] \in P
    BY <1>6, <1>7
  <2>2. Len(r) = n - j /\ n - j \in Nat
    BY <1>2, <2>1
  <2>3. ASSUME NEW i \in 1..(n - j) PROVE r[i] \in P
    <3>1. j + i \in 1..n /\ i \in 1..Len(r)
      BY <2>2
    <3> QED BY <1>3, <2>1, <3>1
  <2> QED BY <1>5, <2>2, <2>3
<1>8. ASSUME r \in Payload(n - j) PROVE u \in Payload(n)
  <2>1. n - j \in Nat
    OBVIOUS
  <2>2. Len(r) = n - j /\ \A i \in 1..(n - j) : r[i] \in P
    BY <1>6, <1>8, <2>1
  <2>3. Len(u) = n
    BY <1>2, <2>2
  <2>4. ASSUME NEW i \in 1..n PROVE u[i] \in P
    <3>1. CASE i <= j
      BY <1>3, <1>4, <3>1
    <3>2. CASE ~(i <= j)
      <4> DEFINE q == i - j
      <4>1. q \in 1..(n - j) /\ q \in 1..Len(r) /\ j + q = i
        BY <2>2, <3>2
      <4> HIDE DEF q
      <4>2. u[j + q] = r[q] /\ r[q] \in P
        BY <1>3, <2>2, <4>1
      <4> QED BY <4>1, <4>2
    <3> QED BY <3>1, <3>2
  <2> QED BY <1>2, <1>5, <2>3, <2>4
<1> QED BY <1>7, <1>8 DEF u

LEMMA PayloadNext ==
  ASSUME NEW j \in Nat, NEW n \in Nat, j <= n, NEW s \in Payload(j), NEW v \in Words,
         NEW A, A \subseteq Words
  PROVE  Plus(s, v) \in Cat(Payload(n), A) <=> v \in Cat(Payload(n - j), A)
<1>1. s \in Words /\ Len(s) = j
  BY PayloadIn
<1>2. n - j \in Nat
  OBVIOUS
<1>3. \A r \in Words : Plus(s, r) \in Payload(n) <=> r \in Payload(n - j)
  BY PayloadSplit
<1>4. \A q \in Payload(n) : q \in Words /\ Len(q) = n
  BY PayloadIn
<1>5. \A r \in Payload(n - j) : r \in Words
  BY <1>2, PayloadIn
<1>6. ASSUME Plus(s, v) \in Cat(Payload(n), A) PROVE v \in Cat(Payload(n - j), A)
  <2>1. PICK q \in Payload(n), a \in A : Plus(s, v) = Plus(q, a)
    BY <1>6, CatDef
  <2>2. q \in Words /\ a \in Words /\ Len(s) <= Len(q)
    BY <1>1, <1>4
  <2>3. PICK r \in Words : q = Plus(s, r) /\ v = Plus(r, a)
    BY <1>1, <2>1, <2>2, Beginnings
  <2>4. r \in Payload(n - j)
    BY <1>3, <2>3
  <2> QED BY <2>3, <2>4, CatDef
<1>7. ASSUME v \in Cat(Payload(n - j), A) PROVE Plus(s, v) \in Cat(Payload(n), A)
  <2>1. PICK r \in Payload(n - j), a \in A : v = Plus(r, a)
    BY <1>7, CatDef
  <2>2. r \in Words /\ Plus(s, r) \in Payload(n)
    BY <1>3, <1>5
  <2>3. Plus(s, v) = Plus(Plus(s, r), a)
    BY <1>1, <2>1, <2>2, PlusPlus
  <2> QED BY <2>2, <2>3, CatDef
<1> QED BY <1>6, <1>7


LEMMA AcceptedPage ==
  ASSUME NEW h \in Headers, Refusal(h) = None
  PROVE  /\ h.height \in Nat \ {0} /\ h.line \in Nat \ {0}
         /\ BytesPerPixel(h) \in 1..8
<1>1. HeaderOK(h)
  BY RasterConstants
<1>2. None \notin {"ok", "invalid", "unsupported", "write_error"}
  BY RasterAssumption
<1>3. /\ h.height \in 1..MaxHeight /\ h.bits \in 1..255 /\ h.line \in 1..MaxLine
      /\ ~(BytesPerPixel(h) > 8)
  BY <1>2 DEF Refusal
<1>4. (h.bits + 7) \div 8 \in Nat /\ (h.bits + 7) \div 8 >= 1
  BY <1>3
<1> QED BY <1>1, <1>3, <1>4, RasterConstants DEF BytesPerPixel

RunsOf(h, p) ==
  /\ DOMAIN Runs(h) = 1..128
  /\ \A k \in 1..128 : \A w : w \in Runs(h)[k] <=>
       \/ w \in Cat({Byte(k - 1)}, Payload(p))
       \/ k # 1 /\ w \in Cat({Byte(257 - k)}, Payload(k * p))

LEMMA RunsAre == \A h : RunsOf(h, BytesPerPixel(h))
BY DEF Runs, RunsOf

LEMMA PayloadSize ==
  ASSUME NEW p \in 1..8, NEW k \in Nat
  PROVE  k * p \in Nat /\ (k > 0 => k * p > 0)
<1>1. k * p \in Nat
  OBVIOUS
<1>2. k > 0 => k * p > 0
  <2>1. p = 1 \/ p = 2 \/ p = 3 \/ p = 4 \/ p = 5 \/ p = 6 \/ p = 7 \/ p = 8
    OBVIOUS
  <2> QED BY <2>1
<1> QED BY <1>1, <1>2

LEMMA RunsParts ==
  ASSUME NEW h, BytesPerPixel(h) \in 1..8
  PROVE  Parts(Runs(h))
<1> DEFINE p == BytesPerPixel(h)
<1>1. p \in 1..8
  OBVIOUS
<1> HIDE DEF p
<1>2. /\ DOMAIN Runs(h) = 1..128
      /\ \A k \in 1..128 : \A w : w \in Runs(h)[k] <=>
           \/ w \in Cat({Byte(k - 1)}, Payload(p))
           \/ k # 1 /\ w \in Cat({Byte(257 - k)}, Payload(k * p))
  BY RunsAre DEF RunsOf, p
<1>3. ASSUME NEW k \in 1..128 PROVE Runs(h)[k] \subseteq Words /\ <<>> \notin Runs(h)[k]
  <2>1. Byte(k - 1) \in Letters /\ Byte(257 - k) \in Letters
    <3>1. k - 1 \in Nat /\ 257 - k \in Nat
      OBVIOUS
    <3> QED BY <3>1, LettersIn
  <2>2. p \in Nat /\ k * p \in Nat
    BY <1>1
  <2>3. Payload(p) \subseteq Words /\ Payload(k * p) \subseteq Words
    BY <2>2, PayloadIn
  <2>4. /\ Cat({Byte(k - 1)}, Payload(p)) \subseteq Words
        /\ <<>> \notin Cat({Byte(k - 1)}, Payload(p))
    BY <2>1, <2>3, LetterFirst
  <2>5. /\ Cat({Byte(257 - k)}, Payload(k * p)) \subseteq Words
        /\ <<>> \notin Cat({Byte(257 - k)}, Payload(k * p))
    BY <2>1, <2>3, LetterFirst
  <2> QED BY <1>2, <2>4, <2>5
<1>4. DOMAIN Runs(h) \subseteq Nat \ {0}
  BY <1>2
<1> QED BY <1>2, <1>3, <1>4 DEF Parts

(* A control byte tells how many pixels it stands for and what follows it. *)
Follows(h, b) == IF b >= 128 THEN Units(b) * BytesPerPixel(h) ELSE BytesPerPixel(h)

LEMMA RunsNext ==
  ASSUME NEW h, BytesPerPixel(h) \in 1..8, NEW b \in 0..255, b # 128
  PROVE  /\ Units(b) \in 1..128 /\ Follows(h, b) \in Nat \ {0}
         /\ Begins(Byte(b), Runs(h), Units(b), Payload(Follows(h, b)))
<1> DEFINE p == BytesPerPixel(h)
           s == Follows(h, b)
<1>0. p \in 1..8 /\ s = IF b >= 128 THEN Units(b) * p ELSE p
  BY DEF Follows
<1>1. DOMAIN Runs(h) = 1..128
  BY RunsAre DEF RunsOf
<1>2. \A k \in 1..128 : \A w : w \in Runs(h)[k] <=>
        \/ w \in Cat({Byte(k - 1)}, Payload(p))
        \/ k # 1 /\ w \in Cat({Byte(257 - k)}, Payload(k * p))
  BY RunsAre DEF RunsOf
<1> HIDE DEF p, s
<1>3. Units(b) \in 1..128
  BY DEF Units
<1>4. s \in Nat \ {0}
  <2>1. Units(b) * p \in Nat /\ Units(b) * p > 0
    BY <1>0, <1>3, PayloadSize
  <2> QED BY <1>0, <2>1
<1>5. ASSUME NEW k \in 1..128, NEW l \in Words
      PROVE  Plus(Byte(b), l) \in Runs(h)[k] <=> k = Units(b) /\ l \in Payload(s)
  <2>1. Plus(Byte(b), l) \in Runs(h)[k] <=>
          \/ Plus(Byte(b), l) \in Cat({Byte(k - 1)}, Payload(p))
          \/ k # 1 /\ Plus(Byte(b), l) \in Cat({Byte(257 - k)}, Payload(k * p))
    BY <1>2
  <2>2. k - 1 \in Nat /\ 257 - k \in Nat /\ b \in Nat
    OBVIOUS
  <2>3. Byte(k - 1) \in Letters /\ Byte(257 - k) \in Letters /\ Byte(b) \in Letters
    BY <2>2, LettersIn
  <2>4. Payload(p) \subseteq Words /\ Payload(k * p) \subseteq Words
    <3>1. p \in Nat /\ k * p \in Nat
      BY <1>0
    <3> QED BY <3>1, PayloadIn
  <2>5. Plus(Byte(b), l) \in Cat({Byte(k - 1)}, Payload(p)) <=> b = k - 1 /\ l \in Payload(p)
    BY <2>2, <2>3, <2>4, CatLetter, SameByte
  <2>6. Plus(Byte(b), l) \in Cat({Byte(257 - k)}, Payload(k * p)) <=>
          b = 257 - k /\ l \in Payload(k * p)
    BY <2>2, <2>3, <2>4, CatLetter, SameByte
  <2>7. CASE b >= 128
    <3>1. b # k - 1 /\ (k # 1 /\ b = 257 - k <=> k = Units(b))
      BY <2>7 DEF Units
    <3>2. s = Units(b) * p
      BY <1>0, <2>7
    <3> QED BY <2>1, <2>5, <2>6, <3>1, <3>2
  <2>8. CASE ~(b >= 128)
    <3>1. (b = k - 1 <=> k = Units(b)) /\ b # 257 - k
      BY <2>8 DEF Units
    <3>2. s = p
      BY <1>0, <2>8
    <3> QED BY <2>1, <2>5, <2>6, <3>1, <3>2
  <2> QED BY <2>7, <2>8
<1>6. Begins(Byte(b), Runs(h), Units(b), Payload(s))
  BY <1>1, <1>5 DEF Begins
<1> QED BY <1>3, <1>4, <1>6 DEF s

(* The bytes of a line are whole pixels, or no line has as many.           *)
LEMMA LinesAre ==
  ASSUME NEW h, BytesPerPixel(h) \in 1..8
  PROVE  /\ \A n \in Nat : Lines(h, n * BytesPerPixel(h)) = Sums(Runs(h), n)
         /\ \A bytes \in Nat :
              (\A n \in Nat : n * BytesPerPixel(h) # bytes) => Lines(h, bytes) = {}
<1> DEFINE p == BytesPerPixel(h)
<1>1. p \in 1..8
  OBVIOUS
<1>2. \A bytes, w : w \in Lines(h, bytes) <=>
        \E n \in 0..bytes : n * p = bytes /\ w \in Sums(Runs(h), n)
  BY DEF Lines
<1> HIDE DEF p
<1>3. ASSUME NEW n \in Nat PROVE Lines(h, n * p) = Sums(Runs(h), n)
  <2>1. n \in 0..(n * p) /\ \A m \in Nat : m * p = n * p => m = n
    <3>1. p = 1 \/ p = 2 \/ p = 3 \/ p = 4 \/ p = 5 \/ p = 6 \/ p = 7 \/ p = 8
      BY <1>1
    <3> QED BY <3>1
  <2>2. \A w : w \in Lines(h, n * p) <=> w \in Sums(Runs(h), n)
    BY <1>2, <2>1
  <2> QED BY <2>2
<1>4. ASSUME NEW bytes \in Nat, \A n \in Nat : n * p # bytes PROVE Lines(h, bytes) = {}
  <2>1. \A w : w \notin Lines(h, bytes)
    BY <1>2, <1>4
  <2> QED BY <2>1
<1> QED BY <1>3, <1>4 DEF p

LEMMA LinesIn ==
  ASSUME NEW h, BytesPerPixel(h) \in 1..8, NEW bytes \in Nat
  PROVE  /\ Lines(h, bytes) \subseteq Words
         /\ Lines(h, 0) = {<<>>}
         /\ bytes > 0 => <<>> \notin Lines(h, bytes)
<1> DEFINE p == BytesPerPixel(h)
<1>1. p \in 1..8
  OBVIOUS
<1>2. /\ \A n \in Nat : Lines(h, n * p) = Sums(Runs(h), n)
      /\ (\A n \in Nat : n * p # bytes) => Lines(h, bytes) = {}
  BY LinesAre
<1>3. /\ \A n \in Nat : Sums(Runs(h), n) \subseteq Words
      /\ \A n \in Nat \ {0} : <<>> \notin Sums(Runs(h), n)
      /\ Sums(Runs(h), 0) = {<<>>}
  BY RunsParts, SumsIn
<1> HIDE DEF p
<1>4. 0 * p = 0
  BY <1>1
<1>5. Lines(h, 0) = {<<>>}
  BY <1>2, <1>3, <1>4
<1>6. CASE \A n \in Nat : n * p # bytes
  BY <1>2, <1>5, <1>6
<1>7. ASSUME NEW n \in Nat, n * p = bytes
      PROVE  Lines(h, bytes) \subseteq Words /\ (bytes > 0 => <<>> \notin Lines(h, bytes))
  <2>1. bytes > 0 => n # 0
    BY <1>4, <1>7
  <2> QED BY <1>2, <1>3, <1>7, <2>1
<1> QED BY <1>5, <1>6, <1>7

LEMMA LinesNext ==
  ASSUME NEW h, BytesPerPixel(h) \in 1..8, NEW b \in 0..255, b # 128,
         NEW bytes \in Nat, Units(b) * BytesPerPixel(h) <= bytes,
         NEW A, A \subseteq Words, NEW v \in Words
  PROVE  Plus(Byte(b), v) \in Cat(Lines(h, bytes), A) <=>
           v \in Cat(Payload(Follows(h, b)), Cat(Lines(h, bytes - Units(b) * BytesPerPixel(h)), A))
<1> DEFINE k == Units(b)
           o == Byte(b)
           p == BytesPerPixel(h)
           s == Follows(h, b)
<1>1. k \in 1..128 /\ s \in Nat \ {0} /\ Begins(o, Runs(h), k, Payload(s)) /\ p \in 1..8
  <2>1. /\ Units(b) \in 1..128 /\ Follows(h, b) \in Nat \ {0}
        /\ Begins(Byte(b), Runs(h), Units(b), Payload(Follows(h, b)))
    BY RunsNext
  <2> QED BY <2>1
<1>2. /\ \A n \in Nat : Lines(h, n * p) = Sums(Runs(h), n)
      /\ \A m \in Nat : (\A n \in Nat : n * p # m) => Lines(h, m) = {}
  BY LinesAre
<1>3. DOMAIN Runs(h) = 1..128 /\ Parts(Runs(h))
  BY RunsAre, RunsParts DEF RunsOf
<1>4. o \in Letters /\ Payload(s) \subseteq Words
  <2>1. b \in Nat
    OBVIOUS
  <2> QED BY <1>1, <2>1, LettersIn, PayloadIn
<1>0. k * p <= bytes
  OBVIOUS
<1> HIDE DEF k, o, p, s
<1>5. k * p <= bytes /\ bytes - k * p \in Nat
  BY <1>0, <1>1
<1>6. CASE \E n \in Nat : n * p = bytes
  <2>1. PICK n \in Nat : n * p = bytes
    BY <1>6
  <2>2. k <= n /\ n \in Nat \ {0} /\ n - k \in Nat /\ (n - k) * p = bytes - k * p
    <3>1. p = 1 \/ p = 2 \/ p = 3 \/ p = 4 \/ p = 5 \/ p = 6 \/ p = 7 \/ p = 8
      BY <1>1
    <3> QED BY <1>1, <1>5, <2>1, <3>1
  <2>3. Lines(h, bytes) = Sums(Runs(h), n) /\ Lines(h, bytes - k * p) = Sums(Runs(h), n - k)
    BY <1>2, <2>1, <2>2
  <2>4. Plus(o, v) \in Cat(Sums(Runs(h), n), A) <=>
          v \in Cat(Payload(s), Cat(Sums(Runs(h), n - k), A))
    BY <1>1, <1>3, <1>4, <2>2, SumsNext
  <2> QED BY <2>3, <2>4 DEF k, o, p, s
<1>7. CASE ~(\E n \in Nat : n * p = bytes)
  <2>1. \A n \in Nat : n * p # bytes - k * p
    <3> SUFFICES ASSUME NEW n \in Nat, n * p = bytes - k * p PROVE FALSE
      OBVIOUS
    <3>1. n + k \in Nat /\ (n + k) * p = n * p + k * p
      <4>1. p = 1 \/ p = 2 \/ p = 3 \/ p = 4 \/ p = 5 \/ p = 6 \/ p = 7 \/ p = 8
        BY <1>1
      <4> QED BY <1>1, <4>1
    <3>2. (n + k) * p = bytes
      BY <1>1, <1>5, <3>1
    <3> QED BY <1>7, <3>1, <3>2
  <2>2. Lines(h, bytes) = {} /\ Lines(h, bytes - k * p) = {}
    BY <1>2, <1>5, <1>7, <2>1
  <2>3. Cat(Lines(h, bytes), A) = {} /\ Cat(Payload(s), Cat(Lines(h, bytes - k * p), A)) = {}
    <3>1. Cat(Lines(h, bytes), A) = {} /\ Cat(Lines(h, bytes - k * p), A) = {}
      <4>1. Cat({}, A) = {}
        BY CatNone, Zenon
      <4> QED BY <2>2, <4>1, Zenon
    <3>2. Cat(Payload(s), {}) = {}
      BY CatNone, ZenonT(30)
    <3> QED BY <3>1, <3>2, Zenon
  <2> QED BY <2>3 DEF k, o, p, s
<1> QED BY <1>6, <1>7


LEMMA RowRunsAre ==
  ASSUME NEW h, BytesPerPixel(h) \in 1..8, h.line \in Nat
  PROVE  Parts(RowRuns(h)) /\ DOMAIN RowRuns(h) = 1..256
<1> DEFINE L == Lines(h, h.line)
<1>1. L \subseteq Words
  BY LinesIn
<1>2. DOMAIN RowRuns(h) = 1..256 /\ \A k \in 1..256 : RowRuns(h)[k] = Cat({Byte(k - 1)}, L)
  BY DEF RowRuns
<1> HIDE DEF L
<1>3. ASSUME NEW k \in 1..256 PROVE RowRuns(h)[k] \subseteq Words /\ <<>> \notin RowRuns(h)[k]
  <2>1. k - 1 \in Nat
    OBVIOUS
  <2>2. Byte(k - 1) \in Letters
    BY <2>1, LettersIn
  <2>3. Cat({Byte(k - 1)}, L) \subseteq Words /\ <<>> \notin Cat({Byte(k - 1)}, L)
    BY <1>1, <2>2, LetterFirst
  <2>4. RowRuns(h)[k] = Cat({Byte(k - 1)}, L)
    BY <1>2
  <2> QED BY <2>3, <2>4, Zenon
<1>4. 1..256 \subseteq Nat \ {0}
  OBVIOUS
<1> QED BY <1>2, <1>3, <1>4 DEF Parts

(* A repeat count tells for how many rows the line is.                     *)
LEMMA RowsNext ==
  ASSUME NEW h, BytesPerPixel(h) \in 1..8, h.line \in Nat, NEW n \in Nat \ {0},
         NEW b \in 0..255, b + 1 <= n, NEW A, A \subseteq Words, NEW v \in Words
  PROVE  Plus(Byte(b), v) \in Cat(Sums(RowRuns(h), n), A) <=>
           v \in Cat(Lines(h, h.line), Cat(Sums(RowRuns(h), n - (b + 1)), A))
<1> DEFINE L == Lines(h, h.line)
           o == Byte(b)
<1>1. L \subseteq Words
  BY LinesIn
<1>2. DOMAIN RowRuns(h) = 1..256 /\ \A k \in 1..256 : RowRuns(h)[k] = Cat({Byte(k - 1)}, L)
  BY DEF RowRuns
<1>3. b \in Nat /\ b + 1 \in 1..256
  OBVIOUS
<1>4. o \in Letters
  BY <1>3, LettersIn
<1>5. Parts(RowRuns(h))
  BY RowRunsAre
<1> HIDE DEF L
<1>6. Begins(o, RowRuns(h), b + 1, L)
  <2>1. ASSUME NEW k \in 1..256, NEW l \in Words
        PROVE  Plus(o, l) \in RowRuns(h)[k] <=> k = b + 1 /\ l \in L
    <3>1. k - 1 \in Nat /\ (b = k - 1 <=> k = b + 1)
      OBVIOUS
    <3>2. Byte(k - 1) \in Letters
      BY <3>1, LettersIn
    <3>3. Plus(o, l) \in Cat({Byte(k - 1)}, L) <=> o = Byte(k - 1) /\ l \in L
      BY <1>1, <1>4, <3>2, CatLetter
    <3>4. o = Byte(k - 1) <=> b = k - 1
      BY <1>3, <3>1, SameByte
    <3>5. RowRuns(h)[k] = Cat({Byte(k - 1)}, L)
      BY <1>2
    <3>6. Plus(o, l) \in RowRuns(h)[k] <=> o = Byte(k - 1) /\ l \in L
      BY <3>3, <3>5, Zenon
    <3> HIDE DEF o
    <3> QED BY <3>1, <3>4, <3>6
  <2> QED BY <1>2, <2>1 DEF Begins
<1> HIDE DEF o
<1>7. Plus(o, v) \in Cat(Sums(RowRuns(h), n), A) <=>
        v \in Cat(L, Cat(Sums(RowRuns(h), n - (b + 1)), A))
  <2>1. b + 1 \in DOMAIN RowRuns(h)
    BY <1>2, <1>3
  <2> QED BY <1>1, <1>4, <1>5, <1>6, <2>1, SumsNext
<1> QED BY <1>7 DEF L, o

Page(h) == <<<<"page", h>>>>

LEMMA SamePage == \A g, h : Page(g) = Page(h) <=> g = h
BY DEF Page

LEMMA PagesAre ==
  /\ Parts(<<Pages>>) /\ DOMAIN <<Pages>> = {1} /\ <<Pages>>[1] = Pages
  /\ \A w : w \in Pages <=>
       \E h \in Headers : Refusal(h) = None /\ w \in Cat({Page(h)}, Sums(RowRuns(h), h.height))
<1>1. DOMAIN <<Pages>> = {1} /\ <<Pages>>[1] = Pages
  OBVIOUS
<1>2. \A w : w \in Pages <=>
        \E h \in Headers : Refusal(h) = None /\ w \in Cat({Page(h)}, Sums(RowRuns(h), h.height))
  BY DEF Pages, Page
<1>3. ASSUME NEW w \in Pages PROVE w \in Words /\ w # <<>>
  <2>1. PICK h \in Headers : Refusal(h) = None /\ w \in Cat({Page(h)}, Sums(RowRuns(h), h.height))
    BY <1>2
  <2>2. h.height \in Nat \ {0} /\ h.line \in Nat \ {0} /\ BytesPerPixel(h) \in 1..8
    BY <2>1, AcceptedPage
  <2>3. Parts(RowRuns(h))
    BY <2>2, RowRunsAre
  <2>4. Sums(RowRuns(h), h.height) \subseteq Words
    BY <2>2, <2>3, SumsIn
  <2>5. Page(h) \in Letters
    BY LettersIn DEF Page
  <2> QED BY <2>1, <2>4, <2>5, LetterFirst
<1>4. Parts(<<Pages>>)
  <2>1. 1 \in Nat \ {0}
    OBVIOUS
  <2> QED BY <1>1, <1>3, <2>1 DEF Parts
<1> QED BY <1>1, <1>2, <1>4

(* A header that is accepted is followed by its rows and the other pages.  *)
LEMMA PagesNext ==
  ASSUME NEW h \in Headers, Refusal(h) = None, NEW n \in Nat \ {0},
         NEW A, A \subseteq Words, NEW v \in Words
  PROVE  Plus(Page(h), v) \in Cat(Sums(<<Pages>>, n), A) <=>
           v \in Cat(Sums(RowRuns(h), h.height), Cat(Sums(<<Pages>>, n - 1), A))
<1> DEFINE L == Sums(RowRuns(h), h.height)
           o == Page(h)
           parts == <<Pages>>
<1>1. ASSUME NEW g \in Headers, Refusal(g) = None
      PROVE  Sums(RowRuns(g), g.height) \subseteq Words
  <2>1. g.height \in Nat \ {0} /\ g.line \in Nat \ {0} /\ BytesPerPixel(g) \in 1..8
    BY <1>1, AcceptedPage
  <2> QED BY <2>1, RowRunsAre, SumsIn
<1>2. L \subseteq Words
  BY <1>1
<1>3. \A g \in Headers : Page(g) \in Letters
  BY LettersIn DEF Page
<1>4. o \in Letters
  BY <1>3
<1>5. /\ Parts(parts) /\ DOMAIN parts = {1} /\ parts[1] = Pages
      /\ \A w : w \in Pages <=>
           \E g \in Headers : Refusal(g) = None /\ w \in Cat({Page(g)}, Sums(RowRuns(g), g.height))
  BY PagesAre
<1> HIDE DEF parts
<1>6. ASSUME NEW l \in Words PROVE Plus(o, l) \in Pages <=> l \in L
  <2>1. ASSUME NEW g \in Headers, Refusal(g) = None
        PROVE  Plus(o, l) \in Cat({Page(g)}, Sums(RowRuns(g), g.height)) <=>
                 o = Page(g) /\ l \in Sums(RowRuns(g), g.height)
    <3> HIDE DEF o
    <3> QED BY <1>1, <1>3, <1>4, <2>1, CatLetter
  <2>2. \A g : o = Page(g) <=> g = h
    BY SamePage
  <2> HIDE DEF o
  <2>3. ASSUME Plus(o, l) \in Pages PROVE l \in L
    <3>1. PICK g \in Headers : Refusal(g) = None /\ Plus(o, l) \in Cat({Page(g)}, Sums(RowRuns(g), g.height))
      BY <1>5, <2>3
    <3> QED BY <2>1, <2>2, <3>1
  <2>4. ASSUME l \in L PROVE Plus(o, l) \in Pages
    <3>1. Plus(o, l) \in Cat({Page(h)}, Sums(RowRuns(h), h.height))
      BY <2>1, <2>2, <2>4
    <3> QED BY <1>5, <3>1
  <2> QED BY <2>3, <2>4
<1>7. Begins(o, parts, 1, L)
  BY <1>5, <1>6 DEF Begins
<1> HIDE DEF L, o
<1>8. 1 \in DOMAIN parts /\ 1 <= n
  BY <1>5
<1>9. Plus(o, v) \in Cat(Sums(parts, n), A) <=> v \in Cat(L, Cat(Sums(parts, n - 1), A))
  BY <1>2, <1>4, <1>5, <1>7, <1>8, SumsNext
<1> QED BY <1>9 DEF L, o, parts

LEMMA CatUnit ==
  ASSUME NEW A, A \subseteq Words
  PROVE  Cat(A, {<<>>}) = A
<1>1. ASSUME NEW E, <<>> \in E, \A e \in E : e = <<>> PROVE Cat(A, E) = A
  <2>1. ASSUME NEW w \in Cat(A, E) PROVE w \in A
    BY <1>1, CatDef, PlusEmpty
  <2>2. ASSUME NEW w \in A PROVE w \in Cat(A, E)
    <3>1. <<>> \in E /\ w = Plus(w, <<>>)
      BY <1>1, PlusEmpty
    <3> QED BY <3>1, CatDef
  <2> QED BY <2>1, <2>2
<1> QED BY <1>1

LEMMA AfterDef ==
  \A p, e, w : w \in After(p, e) <=>
    \E m \in 0..(MaxPages - p) : e \in {0, -1, p + m} /\ w \in Sums(<<Pages>>, m)
BY DEF After

LEMMA AfterIn ==
  ASSUME NEW p \in 0..MaxPages, NEW e
  PROVE  /\ After(p, e) \subseteq Words
         /\ <<>> \in After(p, e) <=> e \in {0, -1, p}
<1>1. /\ \A n \in Nat : Sums(<<Pages>>, n) \subseteq Words
      /\ \A n \in Nat \ {0} : <<>> \notin Sums(<<Pages>>, n)
      /\ Sums(<<Pages>>, 0) = {<<>>}
  BY PagesAre, SumsIn
<1>2. 0 \in 0..(MaxPages - p) /\ p + 0 = p /\ \A m \in 0..(MaxPages - p) : m \in Nat
  BY RasterConstants
<1> QED BY <1>1, <1>2, AfterDef

LEMMA AfterNext ==
  ASSUME NEW h \in Headers, Refusal(h) = None, NEW p \in 0..MaxPages, p < MaxPages, NEW e,
         NEW v \in Words
  PROVE  Plus(Page(h), v) \in After(p, e) <=>
           v \in Cat(Sums(RowRuns(h), h.height), After(p + 1, e))
<1> DEFINE L == Sums(RowRuns(h), h.height)
           o == Page(h)
           S(n) == Sums(<<Pages>>, n)
<1>1. /\ \A n \in Nat : S(n) \subseteq Words
      /\ \A n \in Nat \ {0} : <<>> \notin S(n)
      /\ S(0) = {<<>>}
  BY PagesAre, SumsIn
<1>2. o \in Letters
  BY LettersIn DEF Page
<1>3. Plus(o, v) # <<>> /\ o \in Words
  BY <1>2, LettersIn, PlusEmpty
<1>4. ASSUME NEW n \in Nat \ {0} PROVE Plus(o, v) \in S(n) <=> v \in Cat(L, S(n - 1))
  <2>1. {<<>>} \subseteq Words
    BY PlusEmpty
  <2>2. n \in Nat /\ n - 1 \in Nat
    OBVIOUS
  <2>3. Cat(S(n), {<<>>}) = S(n) /\ Cat(S(n - 1), {<<>>}) = S(n - 1)
    BY <1>1, <2>2, CatUnit
  <2>4. Plus(o, v) \in Cat(S(n), {<<>>}) <=> v \in Cat(L, Cat(S(n - 1), {<<>>}))
    BY <2>1, PagesNext
  <2> QED BY <2>3, <2>4
<1>5. \A q, w : w \in After(q, e) <=> \E m \in 0..(MaxPages - q) : e \in {0, -1, q + m} /\ w \in S(m)
  BY AfterDef
<1>6. MaxPages \in Nat /\ p \in Nat
  BY RasterConstants
<1> HIDE DEF S, L, o
<1>7. ASSUME Plus(o, v) \in After(p, e) PROVE v \in Cat(L, After(p + 1, e))
  <2>1. PICK m \in 0..(MaxPages - p) : e \in {0, -1, p + m} /\ Plus(o, v) \in S(m)
    BY <1>5, <1>7
  <2>2. m # 0
    BY <1>1, <1>3, <2>1
  <2>3. m \in Nat \ {0} /\ m - 1 \in 0..(MaxPages - (p + 1)) /\ p + m = p + 1 + (m - 1)
    BY <1>6, <2>2
  <2>4. v \in Cat(L, S(m - 1))
    BY <1>4, <2>1, <2>3
  <2>5. \A w \in S(m - 1) : w \in After(p + 1, e)
    BY <1>5, <2>1, <2>3
  <2> QED BY <2>4, <2>5, CatDef
<1>8. ASSUME v \in Cat(L, After(p + 1, e)) PROVE Plus(o, v) \in After(p, e)
  <2>1. PICK l \in L, a \in After(p + 1, e) : v = Plus(l, a)
    BY <1>8, CatDef
  <2>2. PICK m \in 0..(MaxPages - (p + 1)) : e \in {0, -1, p + 1 + m} /\ a \in S(m)
    BY <1>5, <2>1
  <2> DEFINE n == m + 1
  <2>3. n \in Nat \ {0} /\ n \in 0..(MaxPages - p) /\ p + n = p + 1 + m /\ n - 1 = m
    BY <1>6
  <2> HIDE DEF n
  <2>4. v \in Cat(L, S(n - 1))
    BY <2>1, <2>2, <2>3, CatDef
  <2>5. Plus(o, v) \in S(n)
    BY <1>4, <2>3, <2>4
  <2> QED BY <1>5, <2>2, <2>3, <2>5
<1> QED BY <1>7, <1>8 DEF L, o


LEMMA OpeningDef ==
  \A d : d \in Opening <=>
    \E n \in 1..MaxPages : d \in Sums(<<Pages>>, n) /\ d[1][2].count \in {0, -1, n}
BY DEF Opening

LEMMA OpeningIn == Opening \subseteq Words /\ <<>> \notin Opening
<1>1. /\ \A n \in Nat : Sums(<<Pages>>, n) \subseteq Words
      /\ \A n \in Nat \ {0} : <<>> \notin Sums(<<Pages>>, n)
  BY PagesAre, SumsIn
<1>2. \A n \in 1..MaxPages : n \in Nat \ {0}
  BY RasterConstants
<1> QED BY <1>1, <1>2, OpeningDef

LEMMA OpeningNext ==
  ASSUME NEW h \in Headers, NEW v \in Words
  PROVE  Plus(Page(h), v) \in Opening <=> Plus(Page(h), v) \in After(0, h.count)
<1> DEFINE d == Plus(Page(h), v)
           S(n) == Sums(<<Pages>>, n)
<1>1. Page(h) \in Letters
  BY LettersIn DEF Page
<1>2. Page(h) \in Words /\ d # <<>>
  BY <1>1, LettersIn, PlusEmpty
<1>3. d[1][2] = h
  <2>1. 1 \in 1..Len(Page(h)) /\ Page(h)[1] = <<"page", h>>
    BY DEF Page
  <2>2. d[1] = Page(h)[1]
    BY <1>2, <2>1, Elements DEF Plus
  <2> QED BY <2>1, <2>2
<1>4. S(0) = {<<>>}
  BY PagesAre, SumsIn
<1>5. d \in Opening <=> \E n \in 1..MaxPages : d \in S(n) /\ d[1][2].count \in {0, -1, n}
  BY OpeningDef
<1>6. d \in After(0, h.count) <=>
        \E m \in 0..(MaxPages - 0) : h.count \in {0, -1, 0 + m} /\ d \in S(m)
  BY AfterDef
<1> HIDE DEF d, S
<1>7. /\ \A n \in 1..MaxPages : n \in 0..(MaxPages - 0) /\ 0 + n = n
      /\ \A m \in 0..(MaxPages - 0) : m # 0 => m \in 1..MaxPages /\ 0 + m = m
  BY RasterConstants
<1>8. d \notin S(0)
  BY <1>2, <1>4
<1>9. ASSUME d \in Opening PROVE d \in After(0, h.count)
  <2>1. PICK n \in 1..MaxPages : d \in S(n) /\ h.count \in {0, -1, n}
    BY <1>3, <1>5, <1>9
  <2>2. n \in 0..(MaxPages - 0) /\ 0 + n = n
    BY <1>7
  <2> QED BY <1>6, <2>1, <2>2
<1>10. ASSUME d \in After(0, h.count) PROVE d \in Opening
  <2>1. PICK m \in 0..(MaxPages - 0) : h.count \in {0, -1, 0 + m} /\ d \in S(m)
    BY <1>6, <1>10
  <2>2. m # 0
    BY <1>8, <2>1
  <2>3. m \in 1..MaxPages /\ 0 + m = m
    BY <1>7, <2>2
  <2> QED BY <1>3, <1>5, <2>1, <2>3
<1> QED BY <1>9, <1>10 DEF d

Sync == <<<<"sync", "RaS2">>>>

LEMMA DocumentsNext ==
  /\ <<>> \notin Documents
  /\ \A v \in Words : Plus(Sync, v) \in Documents <=> v \in Opening
<1>1. \A w : w \in Documents <=> \E d \in Opening : w = Plus(Sync, d)
  <2> DEFINE H(n) == {d \in Sums(<<Pages>>, n) : d[1][2].count \in {0, -1, n}}
  <2>1. Documents = UNION {{Plus(Sync, d) : d \in H(n)} : n \in 1..MaxPages}
    BY DEF Documents, Plus, Sync
  <2>2. Opening = UNION {H(n) : n \in 1..MaxPages}
    BY DEF Opening
  <2> HIDE DEF H
  <2> QED BY <2>1, <2>2
<1>2. Sync \in Letters /\ Sync \in Words /\ Sync # <<>>
  BY LettersIn DEF Sync
<1>3. Opening \subseteq Words
  BY OpeningIn
<1>4. <<>> \notin Documents
  BY <1>1, <1>2, <1>3, PlusEmpty
<1>5. ASSUME NEW v \in Words PROVE Plus(Sync, v) \in Documents <=> v \in Opening
  <2>1. ASSUME Plus(Sync, v) \in Documents PROVE v \in Opening
    <3>1. PICK d \in Opening : Plus(Sync, v) = Plus(Sync, d)
      BY <1>1, <2>1
    <3> QED BY <1>2, <1>3, <3>1, SameLetter
  <2>2. ASSUME v \in Opening PROVE Plus(Sync, v) \in Documents
    BY <1>1, <2>2
  <2> QED BY <2>1, <2>2
<1> QED BY <1>4, <1>5

----------------------------------------------------------------------------
(* What is written: headers change, bytes do not.                          *)
Apple(x) == IF x[1] = "page" THEN <<"apple", x[2]>> ELSE x
Urf(s) == [i \in 1..Len(s) |-> Apple(s[i])]

LEMMA AsUrfMore ==
  ASSUME NEW d \in Words, Len(d) >= 2, NEW s \in Words
  PROVE  AsUrf(d \o s) = AsUrf(d) \o Urf(s)
<1> DEFINE f == <<"file", d[2][2].count>>
           T == {Apple(x) : x \in Marks} \cup {f}
           g == [i \in 1..(Len(d) - 1) |-> Apple(d[i + 1])]
           k == Urf(s)
           u == d \o s
           w == [i \in 1..(Len(u) - 1) |-> Apple(u[i + 1])]
<1>1. /\ u \in Words /\ Len(u) = Len(d) + Len(s) /\ Len(d) \in Nat /\ Len(s) \in Nat
      /\ \A i \in 1..Len(d) : u[i] = d[i]
      /\ \A i \in 1..Len(s) : u[Len(d) + i] = s[i]
  BY Joined, Elements
<1>2. /\ \A i \in 1..Len(d) : d[i] \in Marks
      /\ \A i \in 1..Len(s) : s[i] \in Marks
      /\ \A i \in 1..Len(u) : u[i] \in Marks
  BY <1>1 DEF Words
<1> HIDE DEF u
<1>3. u[2] = d[2]
  BY <1>1
<1>4. AsUrf(u) = <<f>> \o w /\ AsUrf(d) = <<f>> \o g
  BY <1>3 DEF AsUrf, Apple
<1>5. g \in Seq(T) /\ Len(g) = Len(d) - 1 /\ \A i \in 1..(Len(d) - 1) : g[i] = Apple(d[i + 1])
  <2>1. \A i \in 1..(Len(d) - 1) : Apple(d[i + 1]) \in T
    <3>1. \A x \in Marks : Apple(x) \in T
      OBVIOUS
    <3>2. \A i \in 1..(Len(d) - 1) : i + 1 \in 1..Len(d)
      BY <1>1
    <3> HIDE DEF T
    <3> QED BY <1>2, <3>1, <3>2
  <2>2. Len(d) - 1 \in Nat
    BY <1>1
  <2> HIDE DEF T
  <2> QED BY <2>1, <2>2
<1>6. k \in Seq(T) /\ Len(k) = Len(s) /\ \A i \in 1..Len(s) : k[i] = Apple(s[i])
  <2>1. \A i \in 1..Len(s) : Apple(s[i]) \in T
    BY <1>2
  <2> HIDE DEF T
  <2> QED BY <1>1, <2>1 DEF Urf
<1>7. w \in Seq(T) /\ Len(w) = Len(u) - 1 /\ \A i \in 1..(Len(u) - 1) : w[i] = Apple(u[i + 1])
  <2>1. \A i \in 1..(Len(u) - 1) : Apple(u[i + 1]) \in T
    BY <1>1, <1>2
  <2>2. Len(u) - 1 \in Nat
    BY <1>1
  <2> HIDE DEF T
  <2> QED BY <2>1, <2>2
<1>8. <<f>> \in Seq(T)
  OBVIOUS
<1> HIDE DEF f, T, g, k, w
<1>9. /\ g \o k \in Seq(T) /\ Len(g \o k) = Len(g) + Len(k)
      /\ \A i \in 1..Len(g) : (g \o k)[i] = g[i]
      /\ \A i \in 1..Len(k) : (g \o k)[Len(g) + i] = k[i]
  BY <1>5, <1>6
<1>10. w = g \o k
  <2>1. Len(w) = Len(g \o k)
    BY <1>1, <1>5, <1>6, <1>7, <1>9
  <2>2. ASSUME NEW i \in 1..Len(w) PROVE w[i] = (g \o k)[i]
    <3>1. i \in 1..(Len(u) - 1) /\ w[i] = Apple(u[i + 1])
      BY <1>7
    <3>2. CASE i + 1 <= Len(d)
      <4>1. i \in 1..Len(g) /\ i \in 1..(Len(d) - 1) /\ i + 1 \in 1..Len(d)
        BY <1>1, <1>5, <3>1, <3>2
      <4>2. (g \o k)[i] = Apple(d[i + 1]) /\ u[i + 1] = d[i + 1]
        BY <1>1, <1>5, <1>9, <4>1
      <4> QED BY <3>1, <4>2
    <3>3. CASE ~(i + 1 <= Len(d))
      <4> DEFINE j == i + 1 - Len(d)
      <4>1. j \in 1..Len(s) /\ j \in 1..Len(k) /\ Len(d) + j = i + 1 /\ Len(g) + j = i
        BY <1>1, <1>5, <1>6, <3>1, <3>3
      <4> HIDE DEF j
      <4>2. (g \o k)[Len(g) + j] = Apple(s[j]) /\ u[Len(d) + j] = s[j]
        BY <1>1, <1>6, <1>9, <4>1
      <4> QED BY <3>1, <4>1, <4>2
    <3> QED BY <3>2, <3>3
  <2> QED BY <1>7, <1>9, <2>1, <2>2, SeqEqual
<1>11. (<<f>> \o g) \o k = <<f>> \o (g \o k)
  BY <1>5, <1>6, <1>8, ConcatAssociative
<1> QED BY <1>4, <1>10, <1>11 DEF k, u

LEMMA UrfOf ==
  /\ \A b : Urf(Byte(b)) = Byte(b)
  /\ \A h : Urf(Page(h)) = <<<<"apple", h>>>>
  /\ \A n \in Nat : \A s \in Payload(n) : Urf(s) = s
<1>1. ASSUME NEW x PROVE Urf(<<x>>) = <<Apple(x)>>
  BY DEF Urf
<1>2. \A b : Apple(<<"byte", b>>) = <<"byte", b>>
  BY DEF Apple
<1>3. \A h : Apple(<<"page", h>>) = <<"apple", h>>
  BY DEF Apple
<1>4. ASSUME NEW n \in Nat, NEW s \in Payload(n) PROVE Urf(s) = s
  <2>1. s \in Words /\ Len(s) = n
    BY PayloadIn
  <2>2. \A i \in 1..n : Apple(s[i]) = s[i]
    BY <1>2 DEF Payload
  <2>3. s = [i \in 1..n |-> s[i]]
    BY DEF Payload
  <2> QED BY <2>1, <2>2, <2>3 DEF Urf
<1> QED BY <1>1, <1>2, <1>3, <1>4 DEF Byte, Page

(* The first header, after the sync word.                                  *)
LEMMA AsUrfFirst ==
  ASSUME NEW h \in Headers
  PROVE  /\ AsUrf(Plus(Sync, Page(h))) = <<<<"file", h.count>>>> \o <<<<"apple", h>>>>
         /\ Len(Plus(Sync, Page(h))) = 2
<1> DEFINE d == Plus(Sync, Page(h))
<1>1. Sync \in Words /\ Page(h) \in Words
  BY LettersIn DEF Sync, Page
<1>2. Len(d) = 2 /\ d[2] = <<"page", h>>
  <2>1. Len(Sync) = 1 /\ Len(Page(h)) = 1 /\ Page(h)[1] = <<"page", h>>
    BY DEF Sync, Page
  <2>2. Len(d) = Len(Sync) + Len(Page(h))
    BY <1>1, Joined DEF Plus
  <2>3. \A i \in 1..Len(Page(h)) : d[Len(Sync) + i] = Page(h)[i]
    BY <1>1, Elements DEF Plus
  <2> HIDE DEF d
  <2>4. 1 + 1 = 2 /\ 1 \in 1..1
    OBVIOUS
  <2>5. Len(d) = 2
    BY <2>1, <2>2, <2>4, Zenon
  <2>6. d[2] = Page(h)[1]
    BY <2>1, <2>3, <2>4, Zenon
  <2> QED BY <2>1, <2>5, <2>6, Zenon
<1> HIDE DEF d
<1>3. [i \in 1..(Len(d) - 1) |-> IF d[i + 1][1] = "page" THEN <<"apple", d[i + 1][2]>> ELSE d[i + 1]]
        = <<<<"apple", h>>>>
  BY <1>2
<1>4. d[2][2] = h
  BY <1>2
<1> QED BY <1>2, <1>3, <1>4 DEF AsUrf, d


----------------------------------------------------------------------------
(* Every step keeps the invariant                                          *)
LEMMA DueNext ==
  ASSUME NEW u \in Words, NEW S, Due(u, S), NEW s \in Words, NEW R,
         \A v \in Words : Plus(s, v) \in S <=> v \in R
  PROVE  Due(u \o s, R)
<1>1. ASSUME NEW v \in Words PROVE Plus(Plus(u, s), v) \in Documents <=> v \in R
  <2>1. Plus(Plus(u, s), v) = Plus(u, Plus(s, v)) /\ Plus(s, v) \in Words
    BY PlusIn, PlusPlus
  <2> QED BY <2>1 DEF Due
<1> QED BY <1>1 DEF Due, Plus

(* What ends here is a document exactly if nothing is due.                 *)
LEMMA DueEnds ==
  ASSUME NEW u \in Words, NEW S, Due(u, S)
  PROVE  u \in Documents <=> <<>> \in S
BY PlusEmpty DEF Due

LEMMA CopiedNext ==
  ASSUME NEW u \in Words, Len(u) >= 2, NEW s \in Words
  PROVE  u \o s \in Words /\ Len(u \o s) >= 2 /\ AsUrf(u \o s) = AsUrf(u) \o Urf(s)
<1>1. u \o s \in Words /\ Len(u \o s) = Len(u) + Len(s) /\ Len(u) \in Nat /\ Len(s) \in Nat
  BY Joined
<1>2. Len(u \o s) >= 2
  BY <1>1
<1> QED BY <1>1, <1>2, AsUrfMore

LEMMA Outcomes ==
  /\ None \notin {"ok", "invalid", "unsupported", "write_error"}
  /\ \A h : Refusal(h) \in {"unsupported", "invalid", None}
BY RasterAssumption DEF Refusal

(* Whatever stops before the end of the input, for whichever reason.       *)
LEMMA StopsStep ==
  ASSUME RasterTypeOK', pc' = "returned", ~eof',
         result' \in {"invalid", "unsupported", "write_error"}
  PROVE  RasterInv'
BY DEF RasterInv, Places, Copied, ConvertsDocuments

LEMMA FailStep ==
  ASSUME RasterInv, pc # "returned", NEW r \in {"invalid", "unsupported", "write_error"},
         Fail(r), input' \in Words, UNCHANGED eof
  PROVE  RasterInv'
<1>1. RasterTypeOK /\ ~eof
  BY DEF RasterInv
<1>2. pc' = "returned" /\ result' = r /\ UNCHANGED position
  BY DEF Fail, Return
<1>3. RasterTypeOK'
  BY <1>1, <1>2 DEF RasterTypeOK, position
<1> QED BY <1>1, <1>2, <1>3, StopsStep

LEMMA RasterInitInv == RasterInit => RasterInv
<1> SUFFICES ASSUME RasterInit PROVE RasterInv
  OBVIOUS
<1> USE DEF RasterInit
<1>1. RasterTypeOK
  BY PlusEmpty DEF RasterTypeOK
<1>2. Places /\ Copied
  BY DEF Places, Copied
<1> QED BY <1>1, <1>2 DEF RasterInv

LEMMA ReadSyncStep ==
  ASSUME RasterInv, NEW s \in Syncs, ReadSync(s)
  PROVE  RasterInv'
<1>1. /\ pc = "sync" /\ input = <<>> /\ RasterTypeOK /\ result = None /\ ~eof
  BY DEF ReadSync, RasterInv, Places, RasterTypeOK
<1>2. input' = <<<<"sync", s>>>> /\ eof' = eof
  BY <1>1 DEF ReadSync, Reads
<1>3. input' \in Words
  <2>1. <<"sync", s>> \in Marks
    BY DEF Marks
  <2> QED BY <1>2, <2>1 DEF Words
<1>4. CASE s # "RaS2"
  <2>1. Fail("unsupported")
    BY <1>4 DEF ReadSync
  <2> QED BY <1>1, <1>2, <1>3, <2>1, FailStep
<1>5. CASE s = "RaS2"
  <2>1. pc' = "first" /\ UNCHANGED <<result, position, output>>
    BY <1>5 DEF ReadSync, Goes
  <2>2. RasterTypeOK'
    BY <1>1, <1>3, <2>1 DEF RasterTypeOK, position
  <2>3. Due(input', Opening)
    BY <1>2, <1>5, DocumentsNext DEF Due, Sync
  <2>4. output' = <<>> /\ pages' = 0
    BY <1>1, <2>1 DEF position, RasterInv, Places
  <2>5. Places'
    BY <1>2, <1>5, <2>1, <2>3, <2>4 DEF Places
  <2>6. Copied'
    BY <2>1 DEF Copied
  <2> QED BY <1>1, <1>2, <2>1, <2>2, <2>5, <2>6 DEF RasterInv
<1> QED BY <1>4, <1>5


(* Where a page may begin, S is due and a header that is accepted begins   *)
(* one of the pages that may still follow.                                 *)
LEMMA PageBegins ==
  ASSUME RasterTypeOK, NEW h \in Headers, Refusal(h) = None, pages < MaxPages,
         NEW S, Due(input, S), expected' \in Nat \cup {-1},
         \A v \in Words : Plus(Page(h), v) \in S <=> Plus(Page(h), v) \in After(pages, expected'),
         input' = input \o Page(h), result = None, ~eof, UNCHANGED eof,
         Goes("repeat"), page' = h, rows' = 0,
         UNCHANGED <<pages, row_count, decoded, left, expanded>>,
         Len(input') >= 2, output' = AsUrf(input')
  PROVE  RasterInv'
<1>1. Page(h) \in Words
  BY LettersIn DEF Page
<1>2. input \in Words /\ pages \in Nat /\ pages \in 0..MaxPages
  BY RasterConstants DEF RasterTypeOK
<1>3. input' \in Words
  BY <1>1, <1>2, Joined
<1>4. pc' = "repeat" /\ result' = None /\ ~eof'
  BY DEF Goes
<1>5. RasterTypeOK'
  BY <1>3, <1>4 DEF RasterTypeOK
<1>6. h.height \in Nat \ {0} /\ h.height - 0 = h.height /\ 0 < h.height
  BY AcceptedPage
<1>7. ASSUME NEW v \in Words
      PROVE  Plus(Page(h), v) \in S <=> v \in FromRow(h, 0, pages, expected')
  <2>1. Plus(Page(h), v) \in After(pages, expected') <=>
          v \in Cat(Sums(RowRuns(h), h.height), After(pages + 1, expected'))
    BY <1>2, AfterNext
  <2> QED BY <1>6, <2>1 DEF FromRow
<1>8. Due(input', FromRow(h, 0, pages, expected'))
  BY <1>1, <1>2, <1>7, DueNext
<1>9. Due(input', FromRow(page', rows', pages', expected')) /\ InPage'
  BY <1>6, <1>8 DEF InPage
<1>10. Places' /\ Copied'
  BY <1>4, <1>9 DEF Places, Copied
<1> QED BY <1>4, <1>5, <1>10 DEF RasterInv

(* A header that is refused.                                               *)
LEMMA PageRefused ==
  ASSUME RasterTypeOK, NEW h \in Headers, Refusal(h) # None, expected' \in Nat \cup {-1},
         input' = input \o Page(h), ~eof, UNCHANGED eof, Return(Refusal(h)),
         UNCHANGED <<page, pages, rows, row_count, decoded, left, expanded>>
  PROVE  RasterInv'
<1>1. Page(h) \in Words
  BY LettersIn DEF Page
<1>2. input' \in Words
  BY <1>1, Joined DEF RasterTypeOK
<1>3. pc' = "returned" /\ result' \in {"invalid", "unsupported", "write_error"}
  BY Outcomes DEF Return
<1>4. RasterTypeOK'
  BY <1>2, <1>3 DEF RasterTypeOK
<1> QED BY <1>3, <1>4, StopsStep

LEMMA ReadFirstHeaderStep ==
  ASSUME RasterInv, NEW h \in Headers, ReadFirstHeader(h)
  PROVE  RasterInv'
<1>1. /\ pc = "first" /\ RasterTypeOK /\ result = None /\ ~eof
      /\ input = Sync /\ output = <<>> /\ pages = 0 /\ Due(input, Opening)
  BY DEF ReadFirstHeader, RasterInv, Places, Sync
<1>2. input' = input \o Page(h) /\ UNCHANGED eof
  BY DEF ReadFirstHeader, Reads, Page
<1>3. Page(h) \in Words
  BY LettersIn DEF Page
<1>4. input' \in Words
  BY <1>1, <1>2, <1>3, Joined DEF RasterTypeOK
<1>5. h.count \in Nat \cup {-1}
  BY RasterConstants DEF HeaderOK
<1>6. CASE WriteFails
  BY <1>1, <1>2, <1>4, <1>6, FailStep DEF WriteFails
<1>7. CASE expected' = h.count /\ BeginPage(h, <<<<"file", h.count>>>>)
  <2>1. CASE Refusal(h) # None
    BY <1>1, <1>2, <1>5, <1>7, <2>1, PageRefused DEF BeginPage
  <2>2. CASE Refusal(h) = None
    <3>1. /\ output' = output \o (<<<<"file", h.count>>>> \o <<<<"apple", h>>>>)
          /\ Goes("repeat") /\ page' = h /\ rows' = 0
          /\ UNCHANGED <<pages, row_count, decoded, left, expanded>>
      BY <1>7, <2>2 DEF BeginPage, Writes
    <3>2. AsUrf(input') = <<<<"file", h.count>>>> \o <<<<"apple", h>>>> /\ Len(input') = 2
      BY <1>1, <1>2, AsUrfFirst DEF Plus
    <3>3. output' = AsUrf(input') /\ Len(input') >= 2
      <4>1. \A x, y : <<x>> \o <<y>> \in Seq({x, y})
        OBVIOUS
      <4>2. \A x, y : <<>> \o (<<x>> \o <<y>>) = <<x>> \o <<y>>
        BY <4>1, ConcatEmptySeq
      <4>3. output' = <<<<"file", h.count>>>> \o <<<<"apple", h>>>>
        BY <1>1, <3>1, <4>2
      <4> QED BY <3>2, <4>3
    <3>4. \A v \in Words : Plus(Page(h), v) \in Opening <=> Plus(Page(h), v) \in After(pages, expected')
      BY <1>1, <1>7, OpeningNext
    <3>5. pages < MaxPages /\ expected' \in Nat \cup {-1}
      BY <1>1, <1>5, <1>7, RasterConstants
    <3> QED BY <1>1, <1>2, <2>2, <3>1, <3>3, <3>4, <3>5, PageBegins
  <2> QED BY <2>1, <2>2
<1> QED BY <1>6, <1>7 DEF ReadFirstHeader

LEMMA ReadHeaderStep ==
  ASSUME RasterInv, NEW h \in Headers, ReadHeader(h)
  PROVE  RasterInv'
<1>1. /\ pc = "header" /\ RasterTypeOK /\ result = None /\ ~eof /\ input \in Words
      /\ Due(input, After(pages, expected)) /\ Len(input) >= 2 /\ output = AsUrf(input)
      /\ pages < MaxPages /\ expected \in Nat \cup {-1}
  BY DEF ReadHeader, RasterInv, Places, Copied, RasterTypeOK
<1>2. input' = input \o Page(h) /\ UNCHANGED eof
  BY DEF ReadHeader, Reads, Page
<1>3. Page(h) \in Words
  BY LettersIn DEF Page
<1>4. input' \in Words
  BY <1>1, <1>2, <1>3, Joined
<1>5. CASE WriteFails
  BY <1>1, <1>2, <1>4, <1>5, FailStep DEF WriteFails
<1>6. CASE BeginPage(h, <<>>) /\ UNCHANGED expected
  <2>1. CASE Refusal(h) # None
    BY <1>1, <1>2, <1>6, <2>1, PageRefused DEF BeginPage
  <2>2. CASE Refusal(h) = None
    <3>1. /\ output' = output \o (<<>> \o <<<<"apple", h>>>>)
          /\ Goes("repeat") /\ page' = h /\ rows' = 0
          /\ UNCHANGED <<pages, row_count, decoded, left, expanded>>
      BY <1>6, <2>2 DEF BeginPage, Writes
    <3>2. <<>> \o <<<<"apple", h>>>> = Urf(Page(h))
      <4>1. \A x : <<>> \o <<x>> = <<x>>
        <5>1. \A x : <<x>> \in Seq({x})
          OBVIOUS
        <5> QED BY <5>1, ConcatEmptySeq
      <4> QED BY <4>1, UrfOf
    <3>3. output' = AsUrf(input') /\ Len(input') >= 2
      <4>1. /\ Len(input \o Page(h)) >= 2
            /\ AsUrf(input \o Page(h)) = AsUrf(input) \o Urf(Page(h))
        BY <1>1, <1>3, CopiedNext
      <4>2. output' = output \o Urf(Page(h))
        BY <3>1, <3>2, Zenon
      <4> QED BY <1>1, <1>2, <4>1, <4>2, Zenon
    <3> QED BY <1>1, <1>2, <1>6, <2>2, <3>1, <3>3, PageBegins
  <2> QED BY <2>1, <2>2
<1> QED BY <1>5, <1>6 DEF ReadHeader

(* The byte b is copied.                                                   *)
LEMMA ByteCopied ==
  ASSUME RasterInv, pc \in {"repeat", "control"}, NEW b \in Bytes,
         Reads(Byte(b))
  PROVE  /\ b \in 0..255 /\ Byte(b) \in Words
         /\ input' = input \o Byte(b) /\ input' \in Words
         /\ result = None /\ ~eof /\ UNCHANGED eof
         /\ Writes(Byte(b)) => Len(input') >= 2 /\ output' = AsUrf(input')
<1>1. /\ input \in Words /\ Len(input) >= 2 /\ output = AsUrf(input)
      /\ result = None /\ ~eof
  BY DEF RasterInv, RasterTypeOK, Copied
<1>2. b \in 0..255 /\ b \in Nat
  BY RasterConstants
<1>3. Byte(b) \in Words
  BY <1>2, LettersIn
<1>4. input' = input \o Byte(b) /\ UNCHANGED eof
  BY DEF Reads
<1>5. Urf(Byte(b)) = Byte(b)
  BY UrfOf
<1>6. /\ input \o Byte(b) \in Words /\ Len(input \o Byte(b)) >= 2
      /\ AsUrf(input \o Byte(b)) = AsUrf(input) \o Urf(Byte(b))
  BY <1>1, <1>3, CopiedNext
<1> QED BY <1>1, <1>2, <1>3, <1>4, <1>5, <1>6 DEF Writes


LEMMA CopyRepeatStep ==
  ASSUME RasterInv, NEW b \in Bytes, CopyRepeat(b)
  PROVE  RasterInv'
<1>1. /\ pc = "repeat" /\ RasterTypeOK /\ InPage
      /\ Due(input, FromRow(page, rows, pages, expected))
  BY DEF CopyRepeat, RasterInv, Places
<1>2. Reads(Byte(b))
  BY DEF CopyRepeat, Byte
<1>3. /\ b \in 0..255 /\ Byte(b) \in Words
      /\ input' = input \o Byte(b) /\ input' \in Words
      /\ result = None /\ ~eof /\ UNCHANGED eof
      /\ Writes(Byte(b)) => Len(input') >= 2 /\ output' = AsUrf(input')
  BY <1>1, <1>2, ByteCopied
<1>4. CASE WriteFails
  BY <1>1, <1>3, <1>4, FailStep DEF WriteFails
<1>5. CASE Writes(Byte(b)) /\ b + 1 > page.height - rows /\ Return("invalid") /\ UNCHANGED position
  <2>1. pc' = "returned" /\ result' = "invalid"
    BY <1>5 DEF Return
  <2>2. RasterTypeOK'
    BY <1>1, <1>3, <1>5, <2>1 DEF RasterTypeOK, position
  <2> QED BY <1>3, <2>1, <2>2, StopsStep
<1>6. CASE /\ Writes(Byte(b)) /\ ~(b + 1 > page.height - rows)
           /\ row_count' = b + 1 /\ decoded' = 0 /\ Goes("control")
           /\ UNCHANGED <<page, expected, pages, rows, left, expanded>>
  <2>1. pc' = "control" /\ result' = None /\ ~eof'
    BY <1>3, <1>6 DEF Goes
  <2>2. /\ page \in Headers /\ pages \in 0..MaxPages /\ pages + 1 \in 0..MaxPages
        /\ rows \in Nat /\ rows < page.height
        /\ page.height \in Nat \ {0} /\ page.line \in Nat \ {0} /\ BytesPerPixel(page) \in 1..8
    <3>1. /\ page \in Headers /\ Refusal(page) = None /\ pages < MaxPages /\ rows < page.height
          /\ rows \in Nat /\ pages \in Nat
      BY <1>1 DEF InPage, RasterTypeOK
    <3>2. page.height \in Nat \ {0} /\ page.line \in Nat \ {0} /\ BytesPerPixel(page) \in 1..8
      BY <3>1, AcceptedPage
    <3> QED BY <3>1, <3>2, RasterConstants
  <2>3. RasterTypeOK'
    BY <1>1, <1>3, <1>6, <2>1 DEF RasterTypeOK
  <2> DEFINE n == page.height - rows
             A == After(pages + 1, expected)
  <2>4. n \in Nat \ {0} /\ b + 1 \in 1..n
    BY <1>3, <1>6, <2>2
  <2>5. A \subseteq Words
    BY <2>2, AfterIn
  <2>6. page.height - (rows + (b + 1)) = n - (b + 1) /\ page.line - 0 = page.line
    <3>1. b \in Nat /\ page.height \in Nat /\ page.line \in Nat /\ rows \in Nat
      BY <1>3, <2>2
    <3> QED BY <3>1
  <2> HIDE DEF n, A
  <2>7. ASSUME NEW v \in Words
        PROVE  Plus(Byte(b), v) \in FromRow(page, rows, pages, expected) <=>
                 v \in FromByte(page, 0, rows + (b + 1), pages, expected)
    <3>1. Plus(Byte(b), v) \in Cat(Sums(RowRuns(page), n), A) <=>
            v \in Cat(Lines(page, page.line), Cat(Sums(RowRuns(page), n - (b + 1)), A))
      <4>1. page.line \in Nat /\ b + 1 <= n
        BY <2>2, <2>4
      <4> QED BY <1>3, <2>2, <2>4, <2>5, <4>1, RowsNext
    <3>2. FromRow(page, rows, pages, expected) = Cat(Sums(RowRuns(page), n), A)
      BY DEF FromRow, n, A
    <3>3. FromByte(page, 0, rows + (b + 1), pages, expected) =
            Cat(Lines(page, page.line), Cat(Sums(RowRuns(page), n - (b + 1)), A))
      BY <2>6 DEF FromByte, FromRow, A
    <3> QED BY <3>1, <3>2, <3>3
  <2>8. Due(input', FromByte(page, 0, rows + (b + 1), pages, expected))
    BY <1>1, <1>3, <2>7, DueNext DEF RasterTypeOK
  <2>9. Due(input', FromByte(page', decoded', rows' + row_count', pages', expected'))
    BY <1>6, <2>8
  <2>10. InRow'
    BY <1>1, <1>6, <2>2, <2>4 DEF InRow, InPage, n
  <2>11. Places' /\ Copied'
    BY <1>3, <1>6, <2>1, <2>9, <2>10 DEF Places, Copied
  <2> QED BY <2>1, <2>3, <2>11 DEF RasterInv
<1> QED BY <1>4, <1>5, <1>6 DEF CopyRepeat, Byte

LEMMA CopyControlStep ==
  ASSUME RasterInv, NEW b \in Bytes, CopyControl(b)
  PROVE  RasterInv'
<1> DEFINE p == BytesPerPixel(page)
           size == Units(b) * p
           s == Follows(page, b)
           r == rows + row_count
           R == FromRow(page, r, pages, expected)
<1>1. /\ pc = "control" /\ RasterTypeOK /\ InRow
      /\ Due(input, FromByte(page, decoded, r, pages, expected))
  BY DEF CopyControl, RasterInv, Places
<1>2. Reads(Byte(b))
  BY DEF CopyControl, Byte
<1>3. /\ b \in 0..255 /\ Byte(b) \in Words
      /\ input' = input \o Byte(b) /\ input' \in Words
      /\ result = None /\ ~eof /\ UNCHANGED eof
      /\ Writes(Byte(b)) => Len(input') >= 2 /\ output' = AsUrf(input')
  BY <1>1, <1>2, ByteCopied
<1>4. CASE WriteFails
  BY <1>1, <1>3, <1>4, FailStep DEF WriteFails
<1>5. CASE Writes(Byte(b)) /\ Return("invalid") /\ UNCHANGED position
  <2>1. pc' = "returned" /\ result' = "invalid"
    BY <1>5 DEF Return
  <2>2. RasterTypeOK'
    BY <1>1, <1>3, <1>5, <2>1 DEF RasterTypeOK, position
  <2> QED BY <1>3, <2>1, <2>2, StopsStep
<1>6. CASE /\ Writes(Byte(b)) /\ b # 128 /\ ~(size > page.line - decoded)
           /\ expanded' = size /\ left' = s /\ Goes("payload")
           /\ UNCHANGED <<page, expected, pages, rows, row_count, decoded>>
  <2>1. pc' = "payload" /\ result' = None /\ ~eof'
    BY <1>3, <1>6 DEF Goes
  <2>2. /\ page \in Headers /\ pages \in 0..MaxPages /\ pages + 1 \in 0..MaxPages
        /\ rows \in Nat /\ row_count \in Nat /\ r \in Nat /\ page.height - r \in Nat
        /\ page.line \in Nat \ {0} /\ p \in 1..8 /\ page.height \in Nat
        /\ decoded \in Nat /\ decoded < page.line /\ page.line - decoded \in Nat
    <3>1. /\ page \in Headers /\ Refusal(page) = None /\ pages < MaxPages
          /\ row_count \in 1..(page.height - rows) /\ decoded < page.line
          /\ rows \in Nat /\ pages \in Nat /\ row_count \in Nat /\ decoded \in Nat
      BY <1>1 DEF InRow, InPage, RasterTypeOK
    <3>2. page.height \in Nat \ {0} /\ page.line \in Nat \ {0} /\ BytesPerPixel(page) \in 1..8
      BY <3>1, AcceptedPage
    <3> QED BY <3>1, <3>2, RasterConstants
  <2>3. Units(b) \in 1..128
    BY <1>3, <1>6 DEF Units
  <2>4. size \in Nat /\ size > 0 /\ s \in Nat \ {0}
    <3>1. s \in Nat \ {0}
      BY <1>3, <1>6, <2>2, RunsNext
    <3>2. Units(b) \in Nat /\ Units(b) > 0
      BY <2>3
    <3> HIDE DEF p, s
    <3>3. size \in Nat /\ size > 0
      <4>1. \A k \in Nat : k * p \in Nat /\ (k > 0 => k * p > 0)
        BY <2>2, PayloadSize
      <4> QED BY <3>2, <4>1, Zenon
    <3> HIDE DEF size
    <3> QED BY <3>1, <3>3, ZenonT(30)
  <2>5. size <= page.line - decoded /\ page.line - (decoded + size) = page.line - decoded - size
    BY <1>6, <2>2, <2>4
  <2>6. RasterTypeOK'
    BY <1>1, <1>3, <1>6, <2>1, <2>3, <2>4 DEF RasterTypeOK
  <2>7. R \subseteq Words
    <3>1. After(pages + 1, expected) \subseteq Words
      BY <2>2, AfterIn
    <3>2. Sums(RowRuns(page), page.height - r) \subseteq Words
      BY <2>2, RowRunsAre, SumsIn
    <3> QED BY <3>1, <3>2, CatIn DEF FromRow
  <2> HIDE DEF R, r
  <2>8. ASSUME NEW v \in Words
        PROVE  Plus(Byte(b), v) \in FromByte(page, decoded, r, pages, expected) <=>
                 v \in Cat(Payload(s), FromByte(page, decoded + size, r, pages, expected))
    <3>1. Plus(Byte(b), v) \in Cat(Lines(page, page.line - decoded), R) <=>
            v \in Cat(Payload(s), Cat(Lines(page, page.line - decoded - size), R))
      BY <1>3, <1>6, <2>2, <2>5, <2>7, LinesNext
    <3>2. /\ FromByte(page, decoded, r, pages, expected) = Cat(Lines(page, page.line - decoded), R)
          /\ FromByte(page, decoded + size, r, pages, expected) =
               Cat(Lines(page, page.line - decoded - size), R)
      BY <2>5 DEF FromByte, R
    <3> QED BY <3>1, <3>2
  <2> HIDE DEF s, size, p
  <2>9. Due(input', Cat(Payload(s), FromByte(page, decoded + size, r, pages, expected)))
    BY <1>1, <1>3, <2>8, DueNext DEF RasterTypeOK
  <2>10. Due(input', Cat(Payload(left'), FromByte(page', decoded' + expanded', rows' + row_count',
                                                  pages', expected')))
    BY <1>6, <2>9 DEF r
  <2>11. InRow' /\ left' > 0 /\ expanded' > 0 /\ decoded' + expanded' <= page'.line
    BY <1>1, <1>6, <2>2, <2>3, <2>4, <2>5 DEF InRow, InPage
  <2>12. Places' /\ Copied'
    BY <1>3, <1>6, <2>1, <2>10, <2>11 DEF Places, Copied
  <2> QED BY <2>1, <2>6, <2>12 DEF RasterInv
<1> QED BY <1>4, <1>5, <1>6 DEF CopyControl, Byte, Follows


(* A piece of the payload that is not its last.                            *)
LEMMA PieceCopied ==
  ASSUME RasterInv, pc = "payload", NEW j \in Nat, j <= left, NEW s \in Payload(j), Reads(s)
  PROVE  /\ s \in Words /\ input' = input \o s /\ input' \in Words
         /\ result = None /\ ~eof /\ UNCHANGED eof
         /\ Writes(s) => Len(input') >= 2 /\ output' = AsUrf(input')
<1>1. /\ input \in Words /\ Len(input) >= 2 /\ output = AsUrf(input)
      /\ result = None /\ ~eof
  BY DEF RasterInv, RasterTypeOK, Copied
<1>2. s \in Words
  BY PayloadIn
<1>3. input' = input \o s /\ UNCHANGED eof
  BY DEF Reads
<1>4. Urf(s) = s
  BY UrfOf
<1>5. /\ input \o s \in Words /\ Len(input \o s) >= 2
      /\ AsUrf(input \o s) = AsUrf(input) \o Urf(s)
  BY <1>1, <1>2, CopiedNext
<1> QED BY <1>1, <1>2, <1>3, <1>4, <1>5 DEF Writes

LEMMA CopyPayloadStep ==
  ASSUME RasterInv, NEW j \in Nat, NEW s \in Payload(j), CopyPayload(s)
  PROVE  RasterInv'
<1> DEFINE r == rows + row_count
           F(b) == FromByte(page, b, r, pages, expected)
           R == FromRow(page, r, pages, expected)
           d == decoded + expanded
<1>1. /\ pc = "payload" /\ RasterTypeOK /\ InRow /\ left > 0 /\ expanded > 0 /\ d <= page.line
      /\ Due(input, Cat(Payload(left), F(d)))
  BY DEF CopyPayload, RasterInv, Places
<1>2. /\ page \in Headers /\ Refusal(page) = None /\ pages < MaxPages
      /\ rows < page.height /\ row_count \in 1..(page.height - rows) /\ decoded < page.line
      /\ rows \in Nat /\ pages \in Nat /\ row_count \in Nat /\ decoded \in Nat
      /\ left \in Nat /\ expanded \in Nat /\ input \in Words
  BY <1>1 DEF InRow, InPage, RasterTypeOK
<1>3. page.height \in Nat \ {0} /\ page.line \in Nat \ {0} /\ BytesPerPixel(page) \in 1..8
  BY <1>2, AcceptedPage
<1>4. /\ pages \in 0..MaxPages /\ pages + 1 \in 1..MaxPages /\ pages + 1 \in 0..MaxPages
      /\ r \in Nat /\ r <= page.height /\ page.height - r \in Nat
      /\ d \in Nat /\ page.line - d \in Nat
  BY <1>1, <1>2, <1>3, RasterConstants
<1>5. R \subseteq Words /\ F(d) \subseteq Words
  <2>1. After(pages + 1, expected) \subseteq Words
    BY <1>4, AfterIn
  <2>2. Sums(RowRuns(page), page.height - r) \subseteq Words
    BY <1>3, <1>4, RowRunsAre, SumsIn
  <2>3. R \subseteq Words
    BY <2>1, <2>2, CatIn DEF FromRow
  <2>4. Lines(page, page.line - d) \subseteq Words
    BY <1>3, <1>4, LinesIn
  <2> HIDE DEF d, r
  <2> QED BY <2>3, <2>4, CatIn DEF FromByte
<1>6. Reads(s) /\ Len(s) = j /\ j = IF left < Piece THEN left ELSE Piece
  BY PayloadIn DEF CopyPayload
<1>7. j <= left /\ j > 0 /\ left - j \in Nat
  BY <1>1, <1>2, <1>6, RasterConstants
<1>8. /\ s \in Words /\ input' = input \o s /\ input' \in Words
      /\ result = None /\ ~eof /\ UNCHANGED eof
      /\ Writes(s) => Len(input') >= 2 /\ output' = AsUrf(input')
  BY <1>1, <1>6, <1>7, PieceCopied
<1> HIDE DEF R, F, r, d
<1>9. \A v \in Words : Plus(s, v) \in Cat(Payload(left), F(d)) <=> v \in Cat(Payload(left - j), F(d))
  BY <1>2, <1>5, <1>7, PayloadNext
<1>10. Due(input', Cat(Payload(left - j), F(d)))
  BY <1>1, <1>2, <1>8, <1>9, DueNext
<1>11. CASE WriteFails
  BY <1>1, <1>8, <1>11, FailStep DEF WriteFails
<1>12. CASE /\ Writes(s) /\ left' = left - j /\ left' # 0
            /\ Goes("payload") /\ UNCHANGED <<rows, decoded, pages, page, expected, row_count, expanded>>
  <2>1. pc' = "payload" /\ result' = None /\ ~eof' /\ left' \in Nat /\ left' > 0
    BY <1>7, <1>8, <1>12 DEF Goes
  <2>2. RasterTypeOK'
    BY <1>1, <1>8, <1>12, <2>1 DEF RasterTypeOK
  <2>3. Due(input', Cat(Payload(left'), FromByte(page', decoded' + expanded', rows' + row_count',
                                                 pages', expected')))
    BY <1>10, <1>12 DEF F, d, r
  <2>4. InRow' /\ expanded' > 0 /\ decoded' + expanded' <= page'.line
    BY <1>1, <1>12 DEF InRow, InPage, d
  <2>5. Places' /\ Copied'
    BY <1>8, <1>12, <2>1, <2>3, <2>4 DEF Places, Copied
  <2> QED BY <2>1, <2>2, <2>5 DEF RasterInv
<1>13. CASE /\ Writes(s) /\ left' = left - j /\ left' = 0
            /\ AfterPayload /\ UNCHANGED <<page, expected, row_count, expanded>>
  <2>1. Due(input', F(d))
    <3>1. Payload(left - j) = {<<>>}
      BY <1>2, <1>13, PayloadIn
    <3>2. Cat({<<>>}, F(d)) = F(d)
      BY <1>5, CatIn
    <3> QED BY <1>10, <3>1, <3>2
  <2>2. result' = None /\ ~eof' /\ decoded' = d
    BY <1>8, <1>13 DEF AfterPayload, Goes, d
  <2>3. CASE ~(d >= page.line)
    <3>1. pc' = "control" /\ rows' = rows /\ pages' = pages
      BY <1>13, <2>2, <2>3 DEF AfterPayload, Goes
    <3>2. RasterTypeOK'
      BY <1>1, <1>4, <1>8, <1>13, <2>2, <3>1 DEF RasterTypeOK
    <3>3. Due(input', FromByte(page', decoded', rows' + row_count', pages', expected'))
      BY <1>13, <2>1, <2>2, <3>1 DEF F, r
    <3>4. InRow'
      BY <1>1, <1>3, <1>4, <1>13, <2>2, <2>3, <3>1 DEF InRow, InPage
    <3>5. Places' /\ Copied'
      BY <1>8, <1>13, <3>1, <3>3, <3>4 DEF Places, Copied
    <3> QED BY <2>2, <3>1, <3>2, <3>5 DEF RasterInv
  <2>4. CASE d >= page.line
    <3>1. page.line - d = 0
      BY <1>1, <1>3, <1>4, <2>4
    <3>2. F(d) = R
      <4>1. Lines(page, page.line - d) = {<<>>}
        BY <1>3, <3>1, LinesIn
      <4>2. F(d) = Cat(Lines(page, page.line - d), R)
        BY DEF F, R, FromByte
      <4> QED BY <1>5, <4>1, <4>2, CatIn
    <3>3. Due(input', R) /\ rows' = r
      BY <1>13, <2>1, <2>2, <2>4, <3>2 DEF AfterPayload, r
    <3>4. CASE ~(r >= page.height)
      <4>1. pc' = "repeat" /\ pages' = pages
        BY <1>13, <2>2, <2>4, <3>4 DEF AfterPayload, Goes, r
      <4>2. RasterTypeOK'
        BY <1>1, <1>4, <1>8, <1>13, <2>2, <3>3, <4>1 DEF RasterTypeOK
      <4>3. Due(input', FromRow(page', rows', pages', expected'))
        BY <1>13, <3>3, <4>1 DEF R
      <4>4. InPage'
        BY <1>2, <1>3, <1>4, <1>13, <3>3, <3>4, <4>1 DEF InPage
      <4>5. Places' /\ Copied'
        BY <1>8, <1>13, <4>1, <4>3, <4>4 DEF Places, Copied
      <4> QED BY <2>2, <4>1, <4>2, <4>5 DEF RasterInv
    <3>5. CASE r >= page.height
      <4>1. pc' = "header" /\ pages' = pages + 1
        BY <1>13, <2>2, <2>4, <3>5 DEF AfterPayload, Goes, r
      <4>2. RasterTypeOK'
        BY <1>1, <1>4, <1>8, <1>13, <2>2, <3>3, <4>1 DEF RasterTypeOK
      <4>3. R = After(pages + 1, expected)
        <5>1. page.height - r = 0
          BY <1>3, <1>4, <3>5
        <5>2. Sums(RowRuns(page), page.height - r) = {<<>>}
          BY <1>3, <5>1, RowRunsAre, SumsIn
        <5>3. After(pages + 1, expected) \subseteq Words
          BY <1>4, AfterIn
        <5>4. R = Cat(Sums(RowRuns(page), page.height - r), After(pages + 1, expected))
          BY DEF R, FromRow
        <5> QED BY <5>2, <5>3, <5>4, CatIn
      <4>4. Due(input', After(pages', expected'))
        BY <1>13, <3>3, <4>1, <4>3
      <4>5. Places' /\ Copied'
        BY <1>4, <1>8, <1>13, <4>1, <4>4 DEF Places, Copied
      <4> QED BY <2>2, <4>1, <4>2, <4>5 DEF RasterInv
    <3> QED BY <3>4, <3>5
  <2> QED BY <2>3, <2>4
<1> QED BY <1>6, <1>11, <1>12, <1>13 DEF CopyPayload

LEMMA ReadEofStep ==
  ASSUME RasterInv, ReadEof
  PROVE  RasterInv'
<1>1. /\ pc = "header" /\ RasterTypeOK /\ output = AsUrf(input) /\ input \in Words
      /\ pages \in 0..MaxPages /\ Due(input, After(pages, expected))
  BY RasterConstants DEF ReadEof, RasterInv, Places, Copied, RasterTypeOK
<1>2. /\ pc' = "returned" /\ eof' /\ UNCHANGED <<position, output, input>>
      /\ result' = IF PagesAsExpected(pages) THEN "ok" ELSE "invalid"
  BY DEF ReadEof, Fail, Return
<1>3. RasterTypeOK'
  BY <1>1, <1>2 DEF RasterTypeOK, position
<1>4. <<>> \in After(pages, expected) <=> expected \in {0, -1, pages}
  BY <1>1, AfterIn
<1>5. input \in Documents <=> <<>> \in After(pages, expected)
  BY <1>1, DueEnds
<1>6. PagesAsExpected(pages) <=> input \in Documents
  BY <1>4, <1>5 DEF PagesAsExpected
<1>7. ConvertsDocuments'
  BY <1>1, <1>2, <1>6 DEF ConvertsDocuments
<1>8. Places' /\ Copied'
  BY <1>2 DEF Places, Copied
<1> QED BY <1>2, <1>3, <1>7, <1>8 DEF RasterInv

(* The end of the input, where something is due, is no end of a document.  *)
LEMMA ReadFailsStep ==
  ASSUME RasterInv, ReadFails
  PROVE  RasterInv'
<1>1. pc # "returned" /\ RasterTypeOK /\ input \in Words /\ result = None /\ ~eof
  BY DEF ReadFails, RasterInv, RasterTypeOK
<1>2. pc' = "returned" /\ result' = "invalid" /\ UNCHANGED <<position, output, input>>
  BY DEF ReadFails, Fail, Return
<1>3. RasterTypeOK'
  BY <1>1, <1>2 DEF RasterTypeOK, position
<1>4. pc = "header" => ~eof'
  BY DEF ReadFails
<1>5. pc # "header" => input \notin Documents
  <2>1. CASE pc = "sync"
    BY <2>1, DocumentsNext DEF RasterInv, Places
  <2>2. CASE pc = "first"
    <3>1. Due(input, Opening)
      BY <2>2 DEF RasterInv, Places
    <3> QED BY <1>1, <3>1, DueEnds, OpeningIn
  <2>3. ASSUME pc \in {"repeat", "control", "payload"}
        PROVE  /\ pages + 1 \in 0..MaxPages /\ page.height - rows \in Nat \ {0}
               /\ Parts(RowRuns(page)) /\ BytesPerPixel(page) \in 1..8
               /\ page.line \in Nat /\ decoded \in Nat
               /\ left \in Nat /\ expanded \in Nat /\ row_count \in Nat /\ rows \in Nat
               /\ page.height \in Nat
    <3>1. /\ page \in Headers /\ Refusal(page) = None /\ pages < MaxPages
          /\ rows < page.height /\ rows \in Nat /\ pages \in Nat /\ decoded \in Nat
          /\ left \in Nat /\ expanded \in Nat /\ row_count \in Nat
      BY <2>3 DEF RasterInv, Places, InPage, InRow, RasterTypeOK
    <3>2. page.height \in Nat \ {0} /\ page.line \in Nat \ {0} /\ BytesPerPixel(page) \in 1..8
      BY <3>1, AcceptedPage
    <3>3. Parts(RowRuns(page))
      BY <3>2, RowRunsAre
    <3> QED BY <3>1, <3>2, <3>3, RasterConstants
  <2>4. CASE pc = "repeat"
    <3>1. Due(input, FromRow(page, rows, pages, expected))
      BY <2>4 DEF RasterInv, Places
    <3>2. <<>> \notin Sums(RowRuns(page), page.height - rows)
      BY <2>3, <2>4, SumsIn
    <3>3. Sums(RowRuns(page), page.height - rows) \subseteq Words
      BY <2>3, <2>4, SumsIn
    <3>4. After(pages + 1, expected) \subseteq Words
      BY <2>3, <2>4, AfterIn
    <3>5. <<>> \notin FromRow(page, rows, pages, expected)
      BY <3>2, <3>3, <3>4, CatIn DEF FromRow
    <3> QED BY <1>1, <3>1, <3>5, DueEnds
  <2>5. ASSUME pc \in {"control", "payload"}, NEW b \in Nat, b <= page.line
        PROVE  /\ FromByte(page, b, rows + row_count, pages, expected) \subseteq Words
               /\ b < page.line => <<>> \notin FromByte(page, b, rows + row_count, pages, expected)
    <3> DEFINE r == rows + row_count
               R == FromRow(page, r, pages, expected)
               L == Lines(page, page.line - b)
    <3>1. row_count \in 1..(page.height - rows)
      BY <2>5 DEF RasterInv, Places, InRow
    <3>2. page.height - r \in Nat /\ page.line - b \in Nat /\ (b < page.line => page.line - b > 0)
      BY <2>3, <2>5, <3>1
    <3>3. After(pages + 1, expected) \subseteq Words
      BY <2>3, <2>5, AfterIn
    <3>4. Sums(RowRuns(page), page.height - r) \subseteq Words
      BY <2>3, <2>5, <3>2, SumsIn
    <3>5. R \subseteq Words
      BY <3>3, <3>4, CatIn DEF FromRow
    <3>6. L \subseteq Words /\ (b < page.line => <<>> \notin L)
      BY <2>3, <2>5, <3>2, LinesIn
    <3>7. FromByte(page, b, r, pages, expected) = Cat(L, R)
      BY DEF FromByte
    <3> HIDE DEF r, R, L
    <3>8. Cat(L, R) \subseteq Words /\ (<<>> \in Cat(L, R) <=> <<>> \in L /\ <<>> \in R)
      BY <3>5, <3>6, CatIn
    <3> QED BY <3>6, <3>7, <3>8 DEF r
  <2>6. CASE pc = "control"
    <3>1. /\ Due(input, FromByte(page, decoded, rows + row_count, pages, expected))
          /\ decoded < page.line /\ decoded \in Nat
      BY <2>6 DEF RasterInv, Places, InRow, RasterTypeOK
    <3>2. decoded <= page.line
      BY <2>3, <2>6, <3>1
    <3>3. <<>> \notin FromByte(page, decoded, rows + row_count, pages, expected)
      BY <2>5, <2>6, <3>1, <3>2
    <3> QED BY <1>1, <3>1, <3>3, DueEnds
  <2>7. CASE pc = "payload"
    <3> DEFINE d == decoded + expanded
               F == FromByte(page, d, rows + row_count, pages, expected)
    <3>1. Due(input, Cat(Payload(left), F)) /\ left > 0 /\ d <= page.line
      BY <2>7 DEF RasterInv, Places
    <3>2. left \in Nat /\ d \in Nat
      BY <2>3, <2>7
    <3>3. F \subseteq Words
      BY <2>5, <2>7, <3>1, <3>2
    <3>4. Payload(left) \subseteq Words /\ <<>> \notin Payload(left)
      BY <3>1, <3>2, PayloadIn
    <3> HIDE DEF F
    <3>5. <<>> \notin Cat(Payload(left), F)
      BY <3>3, <3>4, CatIn
    <3> QED BY <1>1, <3>1, <3>5, DueEnds
  <2> QED BY <1>1, <2>1, <2>2, <2>4, <2>6, <2>7 DEF RasterTypeOK
<1>6. ConvertsDocuments'
  BY <1>2, <1>4, <1>5 DEF ConvertsDocuments
<1>7. Places' /\ Copied'
  BY <1>2 DEF Places, Copied
<1> QED BY <1>2, <1>3, <1>6, <1>7 DEF RasterInv

LEMMA RasterStep == RasterInv /\ [RasterNext]_rasterVars => RasterInv'
<1> SUFFICES ASSUME RasterInv, [RasterNext]_rasterVars PROVE RasterInv'
  OBVIOUS
<1>1. ASSUME NEW s \in Syncs, ReadSync(s) PROVE RasterInv'
  BY <1>1, ReadSyncStep
<1>2. ASSUME NEW h \in Headers, ReadFirstHeader(h) PROVE RasterInv'
  BY <1>2, ReadFirstHeaderStep
<1>3. ASSUME NEW h \in Headers, ReadHeader(h) PROVE RasterInv'
  BY <1>3, ReadHeaderStep
<1>4. ASSUME NEW b \in Bytes, CopyRepeat(b) PROVE RasterInv'
  BY <1>4, CopyRepeatStep
<1>5. ASSUME NEW b \in Bytes, CopyControl(b) PROVE RasterInv'
  BY <1>5, CopyControlStep
<1>6. ASSUME NEW n \in 1..Piece, NEW s \in [1..n -> {<<"byte", x>> : x \in Pixels}], CopyPayload(s)
      PROVE  RasterInv'
  <2>1. s \in Payload(n) /\ n \in Nat
    BY RasterConstants DEF Payload
  <2> QED BY <1>6, <2>1, CopyPayloadStep
<1>7. ASSUME ReadEof PROVE RasterInv'
  BY <1>7, ReadEofStep
<1>8. ASSUME ReadFails PROVE RasterInv'
  BY <1>8, ReadFailsStep
<1>9. CASE UNCHANGED rasterVars
  BY <1>9 DEF rasterVars, position, RasterInv, RasterTypeOK, Places, Copied, InPage, InRow,
              ConvertsDocuments
<1> QED BY <1>1, <1>2, <1>3, <1>4, <1>5, <1>6, <1>7, <1>8, <1>9 DEF RasterNext

(* A document that ends is converted exactly if it is PWG Raster, and the  *)
(* printer then has the same document: for rows, pages, headers and pixels *)
(* of any size.                                                            *)
THEOREM DocumentsConverted == RasterSpec => []ConvertsDocuments
<1>1. RasterInv => ConvertsDocuments
  BY Outcomes DEF RasterInv, ConvertsDocuments
<1> QED BY <1>1, RasterInitInv, RasterStep, PTL DEF RasterSpec
=============================================================================
