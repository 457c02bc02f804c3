------------------------------- MODULE MCClient -------------------------------
(***************************************************************************)
(* Client with Options, and GPSParser, for TLC.  RxParseGPS shares nothing *)
(* with the other threads that a property speaks of, so that the two are   *)
(* explored one beside the other and not interleaved: in each behaviour    *)
(* one of them moves.  The command lines considered are: those options     *)
(* that are needed first, and any few of the others.                       *)
(***************************************************************************)
EXTENDS Client, GPSParser

MCInit == ClientInit /\ GPSInit
MCNext == \/ GPSInit /\ ClientNext /\ UNCHANGED gpsVars
          \/ ClientInit /\ GPSNext /\ UNCHANGED clientVars
MCSpec == MCInit /\ [][MCNext]_<<clientVars, gpsVars>>

O(opt, arg) == [opt |-> opt, arg |-> arg]
Needed == {<<O("i", 0), O("I", 0), O("C", 0)>>, <<O("i", 0), O("C", 0)>>}
Others ==
    {O("s", ids) : ids \in {<<2>>, <<2, 3>>, <<3, 2, 2>>, <<3, 1>>}}
        \cup {O("S", num) : num \in 1 .. 2}
        \cup {O("A", cnt) : cnt \in {2, 4}}
        \cup {O("n", 0), O("T", 0), O("h", 0)}
MCCommands == {pre \o rest : pre \in Needed, rest \in BoundedSeq(Others, 4)}
===============================================================================
