------------------------------ MODULE AccountApp ------------------------------
(* A student's account from both ends: the forms, the header and the sessions *)
(* it is used with, and the certificates it has earned. The two have their   *)
(* own requests and rows, so each is looked at by itself.                    *)
EXTENDS Account, Certificates

VARIABLE side   \* the part that is looked at

accountAppVars == <<side, accountVars, vars>>

AccountAppInit ==
  /\ side \in {"sessions", "certificates"}
  /\ AccountInit /\ Init

AccountAppNext ==
  \/ /\ side = "sessions" /\ AccountNext
     /\ UNCHANGED <<side, vars>>
  \/ /\ side = "certificates" /\ Next
     /\ UNCHANGED <<side, accountVars>>

AccountAppSpec == AccountAppInit /\ [][AccountAppNext]_accountAppVars

=============================================================================
