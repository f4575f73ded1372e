--------------------------- MODULE MCSearchIndex ---------------------------
(* Small instances of SearchIndex: "update" takes the branch of "create",  *)
(* and documents do not affect each other except through "clear".          *)
EXTENDS SearchIndex

RunKinds == {"create", "delete", "clear"}
=============================================================================
