--------------------------------- MODULE Nmea ---------------------------------
(***************************************************************************)
(* NMEA made by the HAL (NMEA_PROVIDER_AP) from the position and satellite *)
(* reports of the modem, and the marking of the satellites used in a fix   *)
(* (libloc_api_50001/loc_eng_nmea.cpp; LocEngReportPosition and            *)
(* LocEngReportSv of loc_eng.cpp).                                         *)
(*                                                                         *)
(* Three caches tie the reports together: the satellites a position was    *)
(* made from mark the next satellite report; the marked satellites of a    *)
(* report, and its DOP, go into the GSA sentence of the next position.     *)
(* Sentences are what they say and which fields they fill; their layout is *)
(* left out, and so is the overflow of their buffer, which four satellites *)
(* cannot fill.                                                            *)
(***************************************************************************)
EXTENDS Naturals, Sequences, FiniteSets

CONSTANTS Lists,     \* satellite reports: sequences of [sys, id, used]
          UsedSets,  \* satellites used in a position: sets of [sys, id]
          Flags      \* sets of "latlong", "bearing", "speed", "magdev", "altitude", "msl"

VARIABLES isInSession,  \* LocEngAdapter::isInSession
          mode,         \* mFixCriteria.mode, INVALID outside a session
          single,       \* its recurrence is GPS_POSITION_RECURRENCE_SINGLE
          muted,        \* mute_session_state = LOC_MUTE_SESS_IN_SESSION
          avail,        \* mGnssSvIdUsedInPosAvail
          used,         \* mGnssSvIdUsedInPosition
          gpsMask, gloMask,  \* gps_used_mask, glo_used_mask: sets of ids
          dop,          \* pdop, hdop and vdop hold values
          fresh,        \* the masks are of a report no GSA was sent for (history)
          report,       \* the last satellite report, as it was marked (history)
          out           \* the sentences of the last handler
vars == <<isInSession, mode, single, muted, avail, used, gpsMask, gloMask, dop, fresh, report, out>>
session == <<isInSession, mode, single, muted>>
caches == <<gpsMask, gloMask, dop, fresh, report>>

Silent == [kind |-> "none"]
Init ==
  /\ isInSession = FALSE /\ mode = "INVALID" /\ single = FALSE /\ muted = FALSE
  /\ avail = FALSE /\ used = {}
  /\ gpsMask = {} /\ gloMask = {} /\ dop = FALSE /\ fresh = FALSE /\ report = <<>>
  /\ out = Silent

------------------------------------------------------------------------------
(* LocEngReportSv *)

\* The bits of "1 << (svid - 1)" beside a 64-bit mask: an int is 32 bits wide,
\* its sign is extended, and a shift past its width is undefined: the shifter
\* yields 0 or takes the count modulo 32.
Bits(id, wraps) == IF id <= 31 THEN {id - 1} ELSE IF id = 32 THEN 31 .. 63
                   ELSE IF wraps THEN {id - 33} ELSE {}
MaskOf(sys) == {s.id - 1 : s \in {u \in used : u.sys = sys}}

\* USED_IN_FIX is set or cleared by the mask of the last position, if it had one.
MarkUsed(list, wraps) ==
  [i \in 1 .. Len(list) |->
     IF avail THEN [list[i] EXCEPT !.used = MaskOf(list[i].sys) \cap Bits(list[i].id, wraps) # {}]
     ELSE list[i]]
UsedIn(list, sys) == {list[i].id : i \in {j \in 1 .. Len(list) : list[j].sys = sys /\ list[j].used}}
Count(list, sys) == Len(SelectSeq(list, LAMBDA s : s.sys = sys))

\* One GSV sentence: up to four satellites from the sv-th on.
RECURSIVE Fill(_, _, _, _)
Fill(list, sys, sv, i) ==
  IF sv > Len(list) \/ i = 4 THEN [ids |-> <<>>, sv |-> sv]
  ELSE LET here == list[sv].sys = sys
           rest == Fill(list, sys, sv + 1, IF here THEN i + 1 ELSE i)
       IN [rest EXCEPT !.ids = IF here THEN <<list[sv].id>> \o @ ELSE @]
FillFrom(list, sys, sv) == Fill(list, sys, sv, 0)

\* The loop over the sentences; a system without satellites has a blank one.
RECURSIVE Sentences(_, _, _, _)
Sentences(list, sys, sv, n) ==
  IF n = 0 THEN <<>>
  ELSE LET filled == FillFrom(list, sys, sv)
       IN <<filled.ids>> \o Sentences(list, sys, filled.sv, n - 1)
Gsv(list, sys) ==
  LET count == Count(list, sys)
  IN IF count = 0 THEN << <<>> >>
     ELSE Sentences(list, sys, 1, count \div 4 + (IF count % 4 # 0 THEN 1 ELSE 0))

ReportSv(list, hasDop, wraps) ==
  /\ ~muted
  /\ LET marked == MarkUsed(list, wraps)
     IN /\ gpsMask' = UsedIn(marked, "gps") /\ gloMask' = UsedIn(marked, "glo")
        /\ report' = marked
        /\ out' = [kind |-> "gsv", gps |-> Gsv(marked, "gps"), glo |-> Gsv(marked, "glo")]
  /\ dop' = hasDop /\ fresh' = TRUE
  /\ UNCHANGED <<session, avail, used>>

------------------------------------------------------------------------------
(* LocEngReportPosition *)

\* A position is reported if it is a failure or it is accepted; status is
\* "success", "intermediate" or "failure".
Reported(p) == p.status = "failure" \/ p.accepted

First12(ids) == {id \in ids : Cardinality({i \in ids : i <= id}) <= 12}
FixType(ids) == IF ids = {} THEN "no fix" ELSE IF Cardinality(ids) <= 3 THEN "2D" ELSE "3D"

\* The DOP is the position's own or that of the last satellite report.
Dop(p) == IF p.dop THEN "own" ELSE IF dop THEN "cached" ELSE "none"

Indicator(p) == IF "latlong" \notin p.has THEN "N" ELSE IF mode = "STANDALONE" THEN "A" ELSE "D"

Gpgsa(p) == [fix |-> FixType(gpsMask), ids |-> First12(gpsMask), dop |-> Dop(p)]
Gngsa(p) == [fix |-> FixType(gloMask), ids |-> First12(gloMask), dop |-> Dop(p)]
Gpvtg(p) == [fields |-> p.has \cap {"bearing", "speed"}, mode |-> Indicator(p)]
Gprmc(p) == [fields |-> p.has \cap {"latlong", "bearing", "speed", "magdev"}, mode |-> Indicator(p)]
Quality(p) == CASE Indicator(p) = "N" -> 0 [] Indicator(p) = "A" -> 1 [] OTHER -> 2
Gpgga(p) == [fields |-> p.has \cap {"latlong", "msl"}, quality |-> Quality(p),
             count |-> Cardinality(gpsMask), dop |-> Dop(p),
             separation |-> {"altitude", "msl"} \subseteq p.has]

Filled(p) == [kind |-> "pos", blank |-> FALSE, first |-> fresh, gpgsa |-> Gpgsa(p), gngsa |-> Gngsa(p),
              gpvtg |-> Gpvtg(p), gprmc |-> Gprmc(p), gpgga |-> Gpgga(p)]
Blank == [kind |-> "pos", blank |-> TRUE]

\* Faulty variant: the satellites stay for the next position.
GeneratePosKeeping(p, data) ==
  /\ out' = IF data THEN Filled(p) ELSE Blank
  /\ dop' = FALSE /\ fresh' = (fresh /\ ~data)
  /\ UNCHANGED <<gpsMask, gloMask>>

\* The five sentences; then the masks, which GSA has listed, and the DOP are
\* cleared. A position that is not final or not reported has blank ones.
GeneratePos(p, data) ==
  /\ out' = IF data THEN Filled(p) ELSE Blank
  /\ dop' = FALSE
  /\ IF data THEN gpsMask' = {} /\ gloMask' = {} /\ fresh' = FALSE
     ELSE UNCHANGED <<gpsMask, gloMask, fresh>>

ReportPosition(p) ==
  /\ ~muted
  /\ IF p.accepted /\ p.status # "failure" /\ p.used # {}
     THEN avail' = TRUE /\ used' = p.used ELSE UNCHANGED <<avail, used>>
  \* a reported single shot is over, before its sentences are made
  /\ LET over == Reported(p) /\ single IN
     isInSession' = (isInSession /\ ~over) /\ mode' = (IF over THEN "INVALID" ELSE mode)
  /\ IF isInSession' THEN GeneratePos(p, Reported(p) /\ p.status # "failure")
     ELSE out' = Silent /\ UNCHANGED <<gpsMask, gloMask, dop, fresh>>
  /\ UNCHANGED <<single, muted, report>>

\* used = {}: the position does not say what it was made from; has: the flags
\* of its other data.
Positions == [status : {"success", "intermediate", "failure"}, accepted : BOOLEAN,
              used : UsedSets \union {{}}, dop : BOOLEAN, has : Flags]

------------------------------------------------------------------------------
(* LocEngStartFix and LocEngStopFix; the mute of EngineSession. *)
StartFix(once, m) ==
  /\ ~isInSession
  /\ isInSession' = TRUE /\ single' = once /\ mode' = m /\ out' = Silent
  /\ UNCHANGED <<muted, avail, used, caches>>

StopFix ==
  /\ isInSession' = FALSE /\ mode' = "INVALID"
  /\ avail' = FALSE /\ used' = {} /\ out' = Silent
  /\ UNCHANGED <<single, muted, caches>>

Mute ==
  /\ muted' = ~muted /\ out' = Silent
  /\ UNCHANGED <<isInSession, mode, single, avail, used, caches>>

Next ==
  \/ \E list \in Lists, hasDop \in BOOLEAN, wraps \in BOOLEAN : ReportSv(list, hasDop, wraps)
  \/ \E p \in Positions : ReportPosition(p)
  \/ \E once \in BOOLEAN, m \in {"STANDALONE", "MS_BASED"} : StartFix(once, m)
  \/ StopFix \/ Mute
Spec == Init /\ [][Next]_vars
------------------------------------------------------------------------------
\* What GSV sentences are for: every satellite of the system once, in order,
\* four to a sentence and only the last one short.
Pages(list, sys) ==
  LET ids == SelectSeq([i \in 1 .. Len(list) |-> list[i]], LAMBDA s : s.sys = sys)
      n == (Len(ids) + 3) \div 4
  IN IF ids = <<>> THEN << <<>> >>
     ELSE [k \in 1 .. n |-> [j \in 1 .. (IF k < n THEN 4 ELSE Len(ids) - 4 * (n - 1)) |-> ids[4 * (k - 1) + j].id]]

\* Every satellite of a report is listed once and in order in the GSV sentences
\* of its system, with no other system's satellites taking its room.
GsvIsComplete ==
  out.kind = "gsv" => out.gps = Pages(report, "gps") /\ out.glo = Pages(report, "glo")

(* The sentences tell one story. GSV lists every satellite of a report once, *)
(* in order and in as many pages as it announces. GSA lists the satellites   *)
(* that the last report marked and no other, for one position only, GGA      *)
(* counts those same GPS satellites, a DOP is the position's own or of that  *)
(* report, the indicators of VTG and RMC agree, and RMC and GGA give a place *)
(* together and only with a fix.                                             *)
SentencesAgree ==
  GsvIsComplete /\ (out.kind = "pos" /\ ~out.blank =>
    LET gps == IF out.first THEN UsedIn(report, "gps") ELSE {}
        glo == IF out.first THEN UsedIn(report, "glo") ELSE {}
    IN /\ out.gpgsa.ids = First12(gps) /\ out.gpgsa.fix = FixType(gps)
       /\ out.gngsa.ids = First12(glo) /\ out.gngsa.fix = FixType(glo)
       /\ out.gpgga.count = Cardinality(gps)
       /\ "cached" \in {out.gpgsa.dop, out.gngsa.dop, out.gpgga.dop} => out.first
       /\ out.gpvtg.mode = out.gprmc.mode
       /\ ("latlong" \in out.gprmc.fields) = ("latlong" \in out.gpgga.fields)
       /\ ("latlong" \in out.gpgga.fields) = (out.gpgga.quality # 0))
===============================================================================
