------------------------------- MODULE Timelines -------------------------------
(***************************************************************************)
(* The methods of the wet-chemistry analyzer as data: the event tables of  *)
(* uii_analyzer/timelines.py in the order of their times, and the capture  *)
(* names that the interpretation on the hub is keyed to (uii/hub/          *)
(* interpret.py, uii_analyzer/interpret_full.py).  The seconds between     *)
(* events and the text of the pump strings are left out.                   *)
(***************************************************************************)
EXTENDS Naturals, Sequences

Analytes == {"NH4", "NOX", "PO4"}
Methods == {"prime", "calibrate", "sample"}

(* The indices each analyte's table of pump strings has. *)
ST9 == [NOX |-> (0..32) \ {4},
        NH4 |-> 35..56,
        PO4 |-> (61..79) \ {64, 65}]

S(id) == [type |-> "send", id |-> id, name |-> ""]
A(name) == [type |-> "adc", id |-> 0, name |-> name]

Prime == [
    NH4 |-> <<S(35), S(40), S(41)>>,
    NOX |-> <<S(0), S(5), S(6)>>,
    PO4 |-> <<S(61), S(66), S(67)>>]

Calibrate == [
    NH4 |-> <<
        S(35), S(53), S(42), A("NH4_CAL_DIW_I0"),
        S(43), S(56), S(44), A("NH4_CAL_DIW_I1"),
        S(37), S(38), S(54), S(45), A("NH4_CAL_STD_I0"),
        S(46), S(56), S(47), A("NH4_CAL_STD_I1"), S(37), S(38)>>,
    NOX |-> <<
        S(0), S(27), S(16), A("NOX_CAL_DIW_I0"),
        S(30), S(27), S(7), A("NO2_CAL_DIW_I0"),
        S(8), S(9), A("NO2_CAL_DIW_I1"),
        S(27), S(18), A("NOX_CAL_DIW_I1"),
        S(2), S(3), S(28), S(19), A("NOX_CAL_STD_I0"),
        S(30), S(28), S(10), A("NO2_CAL_STD_I0"),
        S(11), S(12), A("NO2_CAL_STD_I1"),
        S(27), S(24), A("NOX_CAL_STD_I1"),
        S(2), S(3), S(32), A("NOX_CAL_STD_I0_5X"),
        S(30), S(28), S(24), A("NOX_CAL_STD_I1_5X"), S(2), S(3)>>,
    PO4 |-> <<
        S(61), S(68), A("PO4_CAL_DIW_I0"), S(69), S(70), A("PO4_CAL_DIW_I1"),
        S(63), S(71), A("PO4_CAL_STD_I0"), S(72), S(73), A("PO4_CAL_STD_I1"),
        S(63)>>]

Sample == [
    NH4 |-> <<
        S(35), S(55), S(48), A("NH4_SAMP_I0"),
        S(49), S(56), S(50), A("NH4_SAMP_I1"), S(36), S(38)>>,
    NOX |-> <<
        S(0), S(29), S(22), A("NOX_SAMP_I0"), S(30), S(29), S(13), A("NO2_SAMP_I0"),
        S(14), S(15), A("NO2_SAMP_I1"), S(2), S(24), A("NOX_SAMP_I1"), S(2), S(3)>>,
    PO4 |-> <<
        S(61), S(74), S(79), A("PO4_SAMP_I0"), S(75), S(76), A("PO4_SAMP_I1"), S(62)>>]

Timeline(action, analyte) ==
    CASE action = "prime" -> Prime[analyte]
      [] action = "calibrate" -> Calibrate[analyte]
      [] action = "sample" -> Sample[analyte]

(* The pairs (light before, light after the reaction) whose absorbance the *)
(* two-point fit, the three-curve fit of NOX and a sample are made from.   *)
FitPairs == [
    NH4 |-> {<<"NH4_CAL_DIW_I0", "NH4_CAL_DIW_I1">>, <<"NH4_CAL_STD_I0", "NH4_CAL_STD_I1">>},
    PO4 |-> {<<"PO4_CAL_DIW_I0", "PO4_CAL_DIW_I1">>, <<"PO4_CAL_STD_I0", "PO4_CAL_STD_I1">>},
    NOX |-> {<<"NOX_CAL_DIW_I0", "NOX_CAL_DIW_I1">>, <<"NOX_CAL_STD_I0", "NOX_CAL_STD_I1">>,
             <<"NOX_CAL_STD_I0_5X", "NOX_CAL_STD_I1_5X">>,
             <<"NO2_CAL_DIW_I0", "NO2_CAL_DIW_I1">>, <<"NO2_CAL_STD_I0", "NO2_CAL_STD_I1">>}]

SwappedPairs == [                      \* mutant: after over before
    NH4 |-> {<<"NH4_SAMP_I1", "NH4_SAMP_I0">>},
    PO4 |-> {<<"PO4_SAMP_I1", "PO4_SAMP_I0">>},
    NOX |-> {<<"NOX_SAMP_I1", "NOX_SAMP_I0">>, <<"NO2_SAMP_I1", "NO2_SAMP_I0">>}]
SamplePairs == [
    NH4 |-> {<<"NH4_SAMP_I0", "NH4_SAMP_I1">>},
    PO4 |-> {<<"PO4_SAMP_I0", "PO4_SAMP_I1">>},
    NOX |-> {<<"NOX_SAMP_I0", "NOX_SAMP_I1">>, <<"NO2_SAMP_I0", "NO2_SAMP_I1">>}]

Pairs(action, analyte) ==
    CASE action = "prime" -> {}
      [] action = "calibrate" -> FitPairs[analyte]
      [] action = "sample" -> SamplePairs[analyte]

=============================================================================
