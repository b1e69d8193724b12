---------------------------- MODULE MCScanRequest ---------------------------
(***************************************************************************)
(* Small instances of ScanRequest: the three shipped backends, "ghost"     *)
(* standing for a name that does not exist, and sizes and caps at, below   *)
(* and above what clamd can scan.                                          *)
(***************************************************************************)
EXTENDS ScanRequest

MCBuilders == {"clamav", "exav", "jcop"}
MCCategoryOf == [n \in MCBuilders |-> "malware"]
MCScoredOf == [n \in MCBuilders |-> FALSE]

CategoryMaps ==
    {[c \in {} |-> << >>]}
        \cup {[c \in {"malware"} |-> ns] :
                ns \in {<< >>, <<"clamav">>, <<"exav">>, <<"jcop">>, <<"clamav", "exav">>,
                        <<"exav", "clamav", "exav">>, <<"ghost">>}}
        \cup {[c \in {"nsfw"} |-> <<"exav">>]}

MCConfigs ==
    [cat_map : CategoryMaps,
     default_categories : {<< >>, <<"malware">>, <<"nsfw">>},
     advisory : {{}, {"clamav"}, {"exav"}, {"clamav", "exav"}, {"ghost"}},
     configured : {{"clamav"}, {"clamav", "exav"}, MCBuilders},
     max_url_size : {2, 3}, max_upload_size : {2, 3}]

MCRequests ==
    [endpoint : {"sync", "async"},
     categories : {<< >>, <<"malware">>, <<"nsfw">>},
     scanners : {<< >>, <<"clamav">>, <<"exav">>, <<"jcop">>, <<"clamav", "jcop">>,
                 <<"exav", "clamav">>, <<"ghost">>},
     size : {2, 3, 4}, infected : BOOLEAN]
=============================================================================
