----------------------------- MODULE MCUnits --------------------------------
(* The components that interact with no other model, in one run: in each     *)
(* behaviour the heap of timers, the linked list, the NMEA generator, the    *)
(* configuration tables or the camera wrapper.                               *)
EXTENDS LocHeap, CameraWrapper, LinkedList, Sequences, TLC

VARIABLES which,     \* the component of this behaviour
          isInSession, mode, single, muted, avail, used, gpsMask, gloMask, dop, fresh, report, nmeaOut,
          values, valid, logs, cfgOut

\* Reports of some of eight satellites of three systems, in the order of the
\* modem: more GPS satellites than a sentence holds, ids about the width of
\* an int.
Sky == <<[sys |-> "gps", id |-> 1], [sys |-> "glo", id |-> 1], [sys |-> "gps", id |-> 3],
         [sys |-> "gal", id |-> 33], [sys |-> "gps", id |-> 7], [sys |-> "gps", id |-> 31],
         [sys |-> "glo", id |-> 2], [sys |-> "gps", id |-> 32]>>
Flagged(view, u) == [i \in 1 .. Len(view) |-> [sys |-> Sky[view[i]].sys, id |-> Sky[view[i]].id, used |-> u]]
\* none, one system only, four and five GPS satellites, all, and out of order
Views == {<<>>, <<2, 4, 7>>, <<1, 3, 5, 6>>, <<2, 1, 3, 4, 5, 6, 8>>,
          <<1, 2, 3, 4, 5, 6, 7, 8>>, <<8, 7, 6, 4, 3, 2, 1, 5>>}

Nmea == INSTANCE Nmea WITH
    Lists <- {Flagged(v, u) : v \in Views, u \in BOOLEAN},
    Flags <- {{}, {"latlong"}, {"latlong", "bearing", "altitude"}, {"latlong", "bearing", "speed", "magdev", "altitude", "msl"}},
    UsedSets <- {{Sky[1], Sky[2]}, {Sky[4], Sky[8]}, {Sky[3], Sky[6]}},
    out <- nmeaOut

\* Parameters of each type, and files of every kind of line, with names given
\* twice, before and after others; more than the table has entries; and all of
\* them at once, which is one more than an update reads.
Decimal == [text |-> "1", hex |-> FALSE, number |-> 1]
Hex == [text |-> "0x2", hex |-> TRUE, number |-> 2]
NullText == [text |-> "NULL", hex |-> FALSE, number |-> 0]
Line(n, v) == [name |-> n, value |-> v]
Unreadable == [name |-> "", value |-> NullText]
Settings == {Line("GPS_LOCK", Decimal), Line("GPS_LOCK", Hex), Line("XTRA_SERVER_1", Decimal),
             Line("XTRA_SERVER_1", NullText), Line("BIAS", Decimal), Line("BIAS", Hex)}
Cfg == INSTANCE LocCfg WITH
    Table <- <<[name |-> "GPS_LOCK", type |-> "n", flag |-> FALSE], [name |-> "XTRA_SERVER_1", type |-> "s", flag |-> FALSE],
               [name |-> "BIAS", type |-> "f", flag |-> TRUE]>>,
    LogTable <- <<[name |-> "DEBUG_LEVEL", type |-> "n", flag |-> FALSE]>>,
    Broken <- Unreadable,
    Files <- {<<Line("OTHER", Hex), Unreadable, Line("DEBUG_LEVEL", Hex), k>> : k \in Settings}
             \union {<<k, Line("BIAS", Hex), l, Line("DEBUG_LEVEL", Decimal)>> : k, l \in {m \in Settings : m.name # "BIAS"}}
             \union {<<Line("BIAS", Decimal), Line("GPS_LOCK", Hex), k, Line("GPS_LOCK", Decimal)>> : k \in Settings},
    out <- cfgOut

\* Seven objects on four ranks: every shape of tree with ties at each level.
MCItems == 1 .. 7
MCRank == [x \in MCItems |-> x \div 2]

nmeaVars == <<isInSession, mode, single, muted, avail, used, gpsMask, gloMask, dop, fresh, report, nmeaOut>>
Interchangeable == Permutations(Pointers) \union Permutations(Cameras) \union Permutations(Blocks)

cfgVars == <<values, valid, logs, cfgOut>>
MCInit == /\ which \in {"heap", "list", "nmea", "cfg", "camera"}
          /\ Init /\ ListInit /\ Nmea!Init /\ Cfg!Init /\ CameraInit
MCNext ==
    /\ UNCHANGED which
    /\ \/ which = "heap" /\ Next /\ UNCHANGED <<listVars, nmeaVars, cfgVars, cameraVars>>
       \/ which = "list" /\ ListNext /\ UNCHANGED <<vars, nmeaVars, cfgVars, cameraVars>>
       \/ which = "nmea" /\ Nmea!Next /\ UNCHANGED <<vars, listVars, cfgVars, cameraVars>>
       \/ which = "cfg" /\ Cfg!Next /\ UNCHANGED <<vars, listVars, nmeaVars, cameraVars>>
       \/ which = "camera" /\ CameraNext /\ UNCHANGED <<vars, listVars, nmeaVars, cfgVars>>
MCSpec == MCInit /\ [][MCNext]_<<which, vars, listVars, nmeaVars, cfgVars, cameraVars>>

SentencesAgree == Nmea!SentencesAgree
LastValueHolds == Cfg!LastValueHolds
===============================================================================
