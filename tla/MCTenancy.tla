----------------------------- MODULE MCTenancy -----------------------------
EXTENDS Tenancy

\* One listed member, who may hold the wrong role, and one who is not listed.
OneMember == [e \in Emails |-> IF e = "ann" THEN "admin" ELSE None]
=============================================================================
