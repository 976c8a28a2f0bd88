--------------------------- MODULE MCVoiceService ---------------------------
(***************************************************************************)
(* Three calls with windows of three seconds and a clock that may be off   *)
(* by several windows in either direction.                                 *)
(***************************************************************************)
EXTENDS VoiceService

EnUs == [tag |-> "en-US", language |-> "en"]
Eo == [tag |-> "eo", language |-> "eo"]

Entry(complete, gen, name, locale) ==
  [complete |-> complete, Gender |-> gen, ShortName |-> name, Locale |-> locale]

Good == {Entry(TRUE, "Female", "Emma", EnUs), Entry(TRUE, "Male", "Guy", EnUs),
         Entry(TRUE, "Female", "Mia", Eo)}
Bad == {Entry(FALSE, "Female", "Emma", EnUs), Entry(TRUE, "Neutral", "Emma", Eo)}

\* Two good voices in any order, and one before a broken element.
MCBodies ==
  {Malformed} \cup [array : {TRUE},
    items : {<<>>} \cup {<<b>> : b \in Bad} \cup {<<a, b>> : a, b \in Good}
              \cup {<<a, b>> : a \in Good, b \in Bad}]

MCFilters ==
  {[locale |-> Absent, gender |-> Absent, short_name |-> Absent],
   [locale |-> EnUs.tag, gender |-> "female", short_name |-> Absent]}

MCDrifts == {-7, 0, 8}
=============================================================================
