------------------------------ MODULE MCProgram -----------------------------
(***************************************************************************)
(* An instance of Program: texts "c#a" (a controller and an action), "c"   *)
(* and a text that was not UTF-8, from files called "log" and "old".       *)
(***************************************************************************)
EXTENDS Program

CONSTANTS a, b, none

\* Both inputs have the same name, or one has been given the id the other would have, or
\* both have the same id.
MCRequests ==
  {<<[name |-> a, id |-> none], [name |-> a, id |-> none]>>,
   <<[name |-> a, id |-> <<a, 2>>], [name |-> a, id |-> none]>>,
   <<[name |-> b, id |-> <<a, 1>>], [name |-> a, id |-> <<a, 1>>]>>}

MCContents ==
  <<<<[frame |-> "both", path |-> "old"], [frame |-> "broken", path |-> "log"]>>,
    <<[frame |-> "one", path |-> "log"]>>>>

MCLossy == [frame \in {"both", "one", "broken"} |->
              CASE frame = "both" -> "c#a" [] frame = "one" -> "c" [] OTHER -> "?"]

MCTexts == {"c#a", "c", "?", "log", "old"}

\* The regular expression of main.rs, one that names a part of the text otherwise or has the
\* name of a field that is there, and one that takes the controller from the path: which of
\* them wins depends on the order.
Whole(text) == IF text = "c#a" THEN <<<<"controller", "c">>, <<"action", "a">>>> ELSE <<>>

Part(text) == IF text = "?" THEN <<<<"path", text>>>> ELSE <<<<"controller", text>>>>

OfPath(text) == IF text = "log" THEN <<<<"controller", text>>>> ELSE <<>>

MCPatterns ==
  {[field   |-> "message",
    regexes |-> <<[t \in MCTexts |-> Whole(t)], [t \in MCTexts |-> Part(t)]>>],
   [field   |-> "path",
    regexes |-> <<[t \in MCTexts |-> OfPath(t)]>>]}
=============================================================================
