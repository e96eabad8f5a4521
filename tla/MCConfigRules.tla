--------------------------- MODULE MCConfigRules ----------------------------
(* ConfigRules for TLC: any two faults beside each other in the sections,    *)
(* the file and its place, or any interval in a file without another fault.  *)
EXTENDS ConfigRules

MCUrls == {"one", "two"}
\* TOML's true is 1 to Python.
MCIntervals ==
    {Unset, [kind |-> "bool", value |-> 1], [kind |-> "string", value |-> 0]}
    \cup [kind : {"int"}, value : {-1, 0, 1, 300, 86399, 86400, 86401}]

Faultless == [url |-> "one", branch |-> "main", token |-> "token"]
OneAsset == [name \in Names |-> IF name = "private" THEN Faultless ELSE Absent]
FaultyFiles ==
    [text : {"toml"} \cup BadTexts, assets : BOOLEAN,
     asset : [Names -> Sections \cup {Absent, NoSection}], interval : {Unset}]
IntervalFiles ==
    [text : {"toml"}, assets : {TRUE}, asset : {OneAsset}, interval : MCIntervals]

MCInit ==
    /\ \/ file \in FaultyFiles /\ option = Unset
       \/ file \in IntervalFiles /\ option \in MCIntervals
    /\ Init
MCSpec == MCInit /\ [][Next]_vars /\ WF_vars(Next)
====
