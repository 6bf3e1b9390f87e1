--------------------------- MODULE MC_ObjectStore ---------------------------
(* ObjectStore on two devices.  Each scenario has operations that meet.      *)
EXTENDS ObjectStore

CONSTANTS n1, n2, n3

LOCAL With(ds, n, ops) == [devices |-> ds, writes |-> n, may |-> ops]

\* one device: the side bar; types and relations under deletion; archived objects;
\* bodies.  Two devices: the side bar; an object written and deleted;
\* relations, also through the relay; copies; an undo; archived objects and the relay
MCScenarios ==
  {With({1}, 4, {"pins", "delete", "undo"}),
   With({1}, 4, {"tags", "types", "delete"}),
   With({1}, 3, {"tags", "archive", "delete", "undo"}),
   With({1}, 3, {"bodies", "types", "delete"}),
   With({1}, 3, {"bodies", "new", "delete", "undo"}),
   With({1, 2}, 3, {"pins", "delete"}),
   With({1, 2}, 3, {"other", "delete", "tags"}),
   With({1, 2}, 3, {"tags", "types", "delete"}),
   With({1, 2}, 2, {"tags", "delete", "relay"}),
   With({1, 2}, 3, {"bodies", "new"}),
   With({1, 2}, 3, {"types", "archive", "undo"}),
   With({1, 2}, 3, {"archive", "other", "relay"})}

MCBodies == {With({1, 2}, 3, {"bodies"})}
=============================================================================
