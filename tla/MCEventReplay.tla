--------------------------- MODULE MCEventReplay ---------------------------
(* A behaviour has one of six scenarios; together they contain every kind  *)
(* of event.  Two pieces of a streamed message (a text and a tool use) and *)
(* two of a child's are enough to trim one between them.                   *)
EXTENDS EventReplay

MCScenarios == {{"text", "call", "pause"}, {"call", "reorder"}, {"text", "steer"}, {"text", "compact"},
                {"child"}, {"child", "watch"}}

(* With a child the user looks at, only calm connections are followed; the *)
(* others are explored in {"child"}, which differs at the child's end.     *)
Explored == "watch" \in scope => calm \/ client.phase = "off"
=============================================================================
