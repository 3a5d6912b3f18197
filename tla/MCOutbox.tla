------------------------------ MODULE MCOutbox ------------------------------
(* A mandatory event and one its recipient may turn off: preferences that  *)
(* have no row, silence the application, or ask for an email.              *)
EXTENDS Outbox, TLC

CONSTANTS e1, e2

MCcategory == (e1 :> "security") @@ (e2 :> "marketing")
MCPreferences == {<<>>, "in_app" :> FALSE, "email" :> TRUE}
=============================================================================
