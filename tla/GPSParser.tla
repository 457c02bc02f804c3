------------------------------ MODULE GPSParser ------------------------------
(***************************************************************************)
(* RxParseGPS with its GPSParser, which reads what gpspipe writes: one     *)
(* line for each report of the device, of which only TPV lines count.  A   *)
(* read returns what is in the pipe, or a part of it that may end at any   *)
(* byte, and what it leaves begins there.                                  *)
(*                                                                         *)
(* A line is the sequence of its phrases, each with the one key that       *)
(* matters in it and the number of its report, in the order in which gpsd  *)
(* writes them.  A value is the number of its report: which number atof    *)
(* makes of the text is left out (0 of a time in quotes, for one).         *)
(***************************************************************************)
EXTENDS SequencesExt, Integers

CONSTANT MaxReport   \* bound: reports of the device

VARIABLES
    pipe,      \* phrases that were written and not yet read
    reports,   \* how many reports were written
    readings,  \* time_, location_ and speed_: the number of the report, or Unset
    cut,       \* history: the keys of which the value read last was cut short
    refused    \* GPSHeader::Init's assertion failed

gpsVars == <<pipe, reports, readings, cut, refused>>

Unset == -1
Keys == {"time", "lat", "lon", "speed"}

GPSInit ==
    /\ pipe = <<>>
    /\ reports = 0
    /\ readings = [key \in Keys |-> Unset]
    /\ cut = {}
    /\ refused = FALSE

\* A report with a fix, with a fix and no speed, without one, and one of another class.
Lines == {<<"TPV", "time", "lat", "lon", "speed", "climb">>,
          <<"TPV", "time", "lat", "lon", "climb">>,
          <<"TPV", "time", "climb">>,
          <<"SKY", "time", "dop">>}

Phrase(key, report) == [key |-> key, report |-> report, whole |-> TRUE]

DeviceWrites ==
    /\ reports < MaxReport
    /\ reports' = reports + 1
    /\ \E line \in Lines : pipe' = pipe \o [i \in DOMAIN line |-> Phrase(line[i], reports')]
    /\ UNCHANGED <<readings, cut, refused>>

-----------------------------------------------------------------------------
(* What a read of the pipe may return and leave *)

\* A part of a phrase without its key; a phrase cut within its value; what is left of
\* one that was read up to its comma.
Piece(p) == [p EXCEPT !.key = "piece"]
Short(p) == [p EXCEPT !.whole = FALSE]
Nothing(p) == [p EXCEPT !.key = "nothing"]

\* Phrases of one line have a comma in between, lines do not.
CommaAfter(i) == i + 1 \in DOMAIN pipe /\ pipe[i + 1].report = pipe[i].report

\* A read that ends in the phrase at i: the two parts.
Parts(i) ==
    LET p == pipe[i] IN
    {<<Piece(p), p>>, <<Piece(p), Piece(p)>>}
        \cup (IF p.key \in Keys THEN {<<Short(p), Piece(p)>>} ELSE {})
        \cup (IF CommaAfter(i) THEN {<<p, Nothing(p)>>} ELSE {})

Reads ==
    {[got |-> SubSeq(pipe, 1, n), left |-> SubSeq(pipe, n + 1, Len(pipe))] :
        n \in DOMAIN pipe}
    \cup UNION {{[got |-> [SubSeq(pipe, 1, n) EXCEPT ![n] = parts[1]],
                  left |-> [SubSeq(pipe, n, Len(pipe)) EXCEPT ![1] = parts[2]]] :
                    parts \in Parts(n)} :
                n \in {i \in DOMAIN pipe : pipe[i].key # "nothing"}}

-----------------------------------------------------------------------------
(* ParseLine *)

\* The loop ends at a comma in the first place, with no phrase.
SplitLine(got) == IF got[1].key = "nothing" THEN <<>> ELSE got

\* The first phrase goes on after a line's end: the comma comes later.
FirstPhrase(phrases) ==
    SubSeq(phrases, 1,
           IF Len(phrases) > 1 /\ phrases[1].report # phrases[2].report THEN 2 ELSE 1)

Bug_IsValidLine(phrases) == \E p \in Range(phrases) : p.key = "TPV"
IsValidLine(phrases) ==
    phrases # <<>> /\ \E p \in Range(FirstPhrase(phrases)) : p.key = "TPV"

\* The first phrase that has the key, or 0.
GetValue(phrases, key) == SelectInSeq(phrases, LAMBDA p : p.key = key)

Found(phrases) == \A key \in Keys : GetValue(phrases, key) # 0

ParseLine(phrases) == IsValidLine(phrases) /\ Found(phrases)

ValueOf(phrases, key) ==
    IF GetValue(phrases, key) = 0 THEN Unset ELSE phrases[GetValue(phrases, key)].report

\* The members are assigned once everything is found.
Bug_Assign(phrases) ==
    [key \in Keys |-> IF GetValue(phrases, key) = 0 THEN readings[key]
                      ELSE ValueOf(phrases, key)]
Assign(phrases) ==
    IF ParseLine(phrases) THEN [key \in Keys |-> ValueOf(phrases, key)] ELSE readings

CutKeys(phrases) ==
    {key \in Keys : GetValue(phrases, key) # 0 /\ ~phrases[GetValue(phrases, key)].whole}

GetGPSReadings(phrases) ==
    /\ readings' = Assign(phrases)
    /\ cut' = IF ParseLine(phrases) THEN CutKeys(phrases) ELSE cut

-----------------------------------------------------------------------------
(* RxParseGPS *)

\* GPSHeader takes no negative speed.
Refuses(reading) == reading["speed"] < 0

RxParseGPS ==
    \E read \in Reads :
        LET phrases == SplitLine(read.got) IN
        /\ pipe' = read.left
        /\ GetGPSReadings(phrases)
        /\ refused' = (ParseLine(phrases) /\ Refuses(readings'))
        /\ UNCHANGED reports

GPSNext == ~refused /\ (DeviceWrites \/ RxParseGPS)
GPSSpec == GPSInit /\ [][GPSNext]_gpsVars

-----------------------------------------------------------------------------
(* Properties *)

\* A reading that is kept is newer than the one before in all its parts, wherever reads
\* end: no report is read twice, and none is taken in parts.
ReadingsAdvance ==
    [][readings' # readings => \A key \in Keys : readings'[key] > readings[key]]_readings

\* Time and position of a reading are never numbers cut short at the end of a read.
\* (A speed may be: when the read ends in its digits the line counts as complete.)
PositionWhole == cut \subseteq {"speed"}

\* A reading has a speed: the assertion of GPSHeader::Init (src/src/wspace_asym_util.cc:511)
\* never ends the client.
SpeedTaken == ~refused

\* A reading that is kept is whole, wherever reads end: its time and its position are not
\* cut short, and it has a speed.
ReadingWhole == PositionWhole /\ SpeedTaken
=============================================================================
