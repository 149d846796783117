----------------------------- MODULE Frameworks -----------------------------
(***************************************************************************)
(* The tables of internal/compliance: the controls of the three frameworks *)
(* with the CWEs they name (framework.go), and the families of CWEs with   *)
(* the controls they concern (cwe.go).  A CWE is its number.               *)
(***************************************************************************)
EXTENDS Naturals, Sequences

SOC2Controls == <<
    [id |-> "CC6.1", cwes |-> {200, 287, 306, 312, 532, 798}],
    [id |-> "CC6.6", cwes |-> {287, 306, 862, 863}],
    [id |-> "CC6.7", cwes |-> {311, 319, 326, 327, 328}],
    [id |-> "CC7.1", cwes |-> {78, 79, 89, 94, 502}],
    [id |-> "CC7.2", cwes |-> {778, 779}],
    [id |-> "CC8.1", cwes |-> {494, 829}],
    [id |-> "CC9.1", cwes |-> {}]
    >>

ISO27001Controls == <<
    [id |-> "A.5.1", cwes |-> {}],
    [id |-> "A.8.9", cwes |-> {16, 1188}],
    [id |-> "A.8.24", cwes |-> {326, 327, 328, 330, 338}],
    [id |-> "A.8.25", cwes |-> {78, 79, 89, 94, 502}],
    [id |-> "A.8.26", cwes |-> {20, 77, 78, 79, 89}],
    [id |-> "A.8.28", cwes |-> {78, 79, 89, 94, 119, 120, 502}],
    [id |-> "A.5.33", cwes |-> {200, 312, 359, 538}],
    [id |-> "A.5.34", cwes |-> {200, 312, 359}],
    [id |-> "A.8.5", cwes |-> {287, 306, 521, 798}]
    >>

GDPRControls == <<
    [id |-> "Art.5", cwes |-> {200, 312, 359, 538}],
    [id |-> "Art.25", cwes |-> {200, 312, 359}],
    [id |-> "Art.32", cwes |-> {78, 79, 89, 94, 200, 287, 306, 312, 326, 327, 328, 532, 798}],
    [id |-> "Art.33", cwes |-> {200, 312, 532}],
    [id |-> "Art.34", cwes |-> {200, 312}]
    >>

AllControls == [f \in {"soc2", "iso27001", "gdpr"} |->
    CASE f = "soc2" -> SOC2Controls [] f = "iso27001" -> ISO27001Controls [] f = "gdpr" -> GDPRControls]

\* loadDefaultMappings
Families == <<
    [name |-> "injection", cwes |-> {77, 78, 79, 89, 94},
     controls |-> {<<"soc2", "CC6.1">>, <<"soc2", "CC7.1">>, <<"iso27001", "A.8.25">>,
                    <<"iso27001", "A.8.26">>, <<"iso27001", "A.8.28">>, <<"gdpr", "Art.32">>}],
    [name |-> "auth", cwes |-> {287, 306, 521, 798, 862, 863},
     controls |-> {<<"soc2", "CC6.1">>, <<"soc2", "CC6.6">>, <<"iso27001", "A.8.5">>, <<"gdpr", "Art.32">>}],
    [name |-> "crypto", cwes |-> {311, 319, 326, 327, 328, 330, 338},
     controls |-> {<<"soc2", "CC6.7">>, <<"iso27001", "A.8.24">>, <<"gdpr", "Art.32">>}],
    [name |-> "disclosure", cwes |-> {200, 312, 359, 532, 538},
     controls |-> {<<"soc2", "CC6.1">>, <<"soc2", "CC6.7">>, <<"iso27001", "A.5.33">>, <<"iso27001", "A.5.34">>,
                    <<"gdpr", "Art.5">>, <<"gdpr", "Art.32">>, <<"gdpr", "Art.33">>}],
    [name |-> "input", cwes |-> {20, 22, 73},
     controls |-> {<<"soc2", "CC6.1">>, <<"iso27001", "A.8.26">>, <<"gdpr", "Art.32">>}],
    [name |-> "memory", cwes |-> {119, 120, 125, 787},
     controls |-> {<<"soc2", "CC7.1">>, <<"iso27001", "A.8.28">>, <<"gdpr", "Art.32">>}],
    [name |-> "deserialization", cwes |-> {502, 915},
     controls |-> {<<"soc2", "CC7.1">>, <<"iso27001", "A.8.25">>, <<"gdpr", "Art.32">>}],
    [name |-> "supply", cwes |-> {494, 829, 1104},
     controls |-> {<<"soc2", "CC8.1">>, <<"iso27001", "A.8.9">>, <<"gdpr", "Art.32">>}],
    [name |-> "logging", cwes |-> {778, 779},
     controls |-> {<<"soc2", "CC7.2">>, <<"iso27001", "A.8.9">>}],
    [name |-> "config", cwes |-> {16, 1188},
     controls |-> {<<"soc2", "CC8.1">>, <<"iso27001", "A.8.9">>}]
    >>

DefaultMappings ==
    [c \in UNION {Families[i].cwes : i \in DOMAIN Families} |->
        UNION {Families[i].controls : i \in {j \in DOMAIN Families : c \in Families[j].cwes}}]

=============================================================================
