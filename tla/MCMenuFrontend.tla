---------------------------- MODULE MCMenuFrontend ----------------------------
(* Seven of the modules of the front end, one of each kind; two lessons. *)
EXTENDS MenuFrontend, TLC

MCGate  == "underscore" :> "gate underscore" @@ "backbone" :> "gate backbone"
Base    == {"jquery", "underscore"}
Libs    == Base \cup {"backbone"}
MCNeeds ==
  "start" :> {"main"} @@ "main" :> {} @@ "entry" :> Libs \cup {"goatApp"} @@
  "gate underscore" :> {} @@ "gate backbone" :> Base @@
  "jquery" :> {} @@ "underscore" :> {} @@ "backbone" :> Base @@
  "goatApp" :> Libs \cup {"GoatRouter"} @@
  "GoatRouter" :> Libs \cup {"MenuItemView"} @@
  "MenuItemView" :> Libs \cup {"MenuItemView"}

MCCall   == {"start", "entry", "gate underscore", "gate backbone"}
MCModule == DOMAIN MCNeeds \ MCCall

(* Once everything is loaded the loader does nothing any more, and of its  *)
(* state only what the properties say of it matters.                       *)
Reachable == IF Loaded THEN <<page, NothingForgotten>> ELSE all
=============================================================================
